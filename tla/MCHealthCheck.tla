---------------------------- MODULE MCHealthCheck ----------------------------
(* Model checking of HealthCheck: the URLs are interchangeable, and so are *)
(* the numbers of the first objects, of which one order is enough.         *)
EXTENDS HealthCheck, TLC

UrlSymmetry == Permutations(Urls)

(* The liveness run starts with every target healthy.                      *)
MCInit     == /\ Init
              /\ targets = CHOOSE t \in FirstTargets : TRUE
              /\ Healthy = InitialUrls
MCFairSpec == MCInit /\ [][Next]_vars /\ Fairness

=============================================================================
