-------------------------- MODULE MCStickySessions --------------------------
(* Model checking of StickySessions: clients and URLs are interchangeable. *)
EXTENDS StickySessions, TLC

ClientUrlSymmetry == Permutations(Clients) \cup Permutations(Urls)

=============================================================================
