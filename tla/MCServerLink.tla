---------------------------- MODULE MCServerLink ----------------------------
(***************************************************************************)
(* Instances of ServerLink for TLC.  Channels are interchangeable, and so  *)
(* are the goroutines that run stateCheck: only the initial state names    *)
(* one, and it reaches the same states, up to a permutation, whichever it  *)
(* names.  No liveness property is checked with this symmetry.             *)
(***************************************************************************)
EXTENDS ServerLink, TLC

Symmetry == Permutations(Chans) \cup Permutations(Checkers)

=============================================================================
