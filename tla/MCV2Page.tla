------------------------------ MODULE MCV2Page ------------------------------
(***************************************************************************)
(* The page of the v2 search for TLC: two searches, each with its own log. *)
(***************************************************************************)
EXTENDS V2Page

\* Two shortened plans of _connectors_for: a single connector, and two in order,
\* which are one module.
MCPlans == {<<"oathnet:breach">>, <<"sherlock:github", "sherlock:reddit">>}

MCConnectors == {"oathnet:breach", "sherlock:github", "sherlock:reddit"}

MCSearches == 1 .. 2

=============================================================================
