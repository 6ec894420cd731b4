--------------------------- MODULE MCAuthSessions ---------------------------
(* Instances of AuthSessions.                                              *)
EXTENDS AuthSessions, TLC

Perms == Permutations(Session) \cup Permutations(ApiCall) \cup Permutations(Admin)
=============================================================================
