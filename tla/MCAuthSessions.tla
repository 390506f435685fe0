--------------------------- MODULE MCAuthSessions ---------------------------
(* Instances of AuthSessions for TLC. *)
EXTENDS AuthSessions, TLC

HandlerSymmetry == Permutations(Handlers)

=============================================================================
