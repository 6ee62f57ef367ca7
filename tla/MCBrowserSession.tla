-------------------------- MODULE MCBrowserSession --------------------------
(***************************************************************************)
(* Small instances of BrowserSession. Tabs and tokens are interchangeable. *)
(***************************************************************************)
EXTENDS BrowserSession, TLC

Symmetry == Permutations(Tabs) \cup Permutations(Tokens)
=============================================================================
