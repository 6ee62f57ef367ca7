----------------------------- MODULE MCDelivery -----------------------------
(***************************************************************************)
(* Delivery for TLC. Two pushes to a pull request that one person comments,*)
(* pages of two comments; the rehearsal stands for the jobs that leave no  *)
(* more than a word. Two services to deploy. The routes of bliss-reviews,  *)
(* and one that bliss-requests has.                                        *)
(***************************************************************************)
EXTENDS Delivery

MCRoute(verb, path) == [verb |-> verb, path |-> path]
MCOurs == {MCRoute("PATCH", <<":id">>), MCRoute("GET", <<":id", "timeline">>)}
MCUniverse == MCOurs \cup {MCRoute("GET", <<":id">>)}
=============================================================================
