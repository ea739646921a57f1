-------------------------- MODULE MCStoryStructure --------------------------
(* Instance of StoryStructure for TLC: three plots, so that a lane has     *)
(* gaps inside and at both ends, and two limits: keys below zero outgrow   *)
(* one of them and fit the other.                                          *)
EXTENDS StoryStructure, TLC

MCFirstLanes == {<<>>} \cup {s \in Plots \X Plots : s[1] # s[2]}

Symmetry == Permutations(Plots) \cup Permutations(Events)
=============================================================================
