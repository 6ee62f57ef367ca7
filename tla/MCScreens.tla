------------------------------ MODULE MCScreens ------------------------------
(***************************************************************************)
(* Screens for TLC. The list: two filters, two pages and three questions;  *)
(* a size is to the screen what a filter is, so one is enough. The queue:  *)
(* three pages of one request each, five questions. The creation: three    *)
(* submissions over two fresh forms. The detail: one load and three        *)
(* refreshes. The status: two rounds of two services. The session: one     *)
(* tab, reloaded once; two logouts can be on their way.                    *)
(***************************************************************************)
EXTENDS Screens

\* Three drafts: the blank one, one the API accepts, and one that only the JSON
\* Schema of the route refuses.
MCDrafts == {"blank", "good", "odd"}
MCLocalIssues == [d \in MCDrafts |-> IF d = "blank" THEN {"title"} ELSE {}]
MCRouteIssues == [d \in MCDrafts |-> IF d = "odd" THEN {"createdBy"} ELSE {}]
=============================================================================
