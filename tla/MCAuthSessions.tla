--------------------------- MODULE MCAuthSessions ---------------------------
(***************************************************************************)
(* Small instances of AuthSessions. Calls, tokens and the active accounts  *)
(* are interchangeable.                                                    *)
(***************************************************************************)
EXTENDS AuthSessions, TLC

Symmetry ==
  Permutations(Calls) \cup Permutations(Tokens) \cup Permutations(Users \ Inactive)
=============================================================================
