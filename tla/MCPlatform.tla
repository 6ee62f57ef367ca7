----------------------------- MODULE MCPlatform -----------------------------
(***************************************************************************)
(* Platform for TLC: a local process with two calls side by side on a pool *)
(* of one client and two changes of the database or of the secret; one     *)
(* container, one token, two routes and a key that is replaced once, under *)
(* a clock that passes every deadline; three rows of two instants, one to  *)
(* a page; two processes that run the seed again and again.                *)
(***************************************************************************)
EXTENDS Platform

\* An item with one event and one with two.
MCItems == <<"open", "rejected">>
=============================================================================
