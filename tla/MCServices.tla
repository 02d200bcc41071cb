----------------------------- MODULE MCServices -----------------------------
(* A small instance of Services for TLC. *)
EXTENDS Services

\* A region disappears between the two versions of the database.
MCRegionsAt == <<<<"alsace", "berlin">>, <<"alsace">>>>

\* A target that never answers comes before those that registered.
MCConfigured == <<"dead">>

=============================================================================
