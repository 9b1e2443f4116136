-------------------------- MODULE MCPublicDelivery --------------------------
(* A small instance of PublicDelivery for TLC. *)
EXTENDS PublicDelivery, TLC

Symmetric == Permutations(Docs) \cup Permutations(Slugs)
                \cup Permutations(Publications)
=============================================================================
