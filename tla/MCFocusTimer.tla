---------------------------- MODULE MCFocusTimer ----------------------------
(* Instance of FocusTimer for TLC: a timer that advances by itself over    *)
(* two work phases, and one that waits and has a single work phase.        *)
EXTENDS FocusTimer

MCPlans == {[work |-> 1, rest |-> 1, count |-> 2, auto |-> TRUE],
            [work |-> 2, rest |-> 1, count |-> 1, auto |-> FALSE]}
=============================================================================
