--------------------------- MODULE NetworkAdapters ----------------------------
(* What the network change services of all platforms report: the adapters. *)

CONSTANT Adapters   \* the sets of network adapters there may be

\* No adapters at all, which is also what a failed query looks like.
None == {}

ASSUME NetworkAdaptersAssumption == None \in Adapters
=============================================================================
