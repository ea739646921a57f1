------------------------------- MODULE PlotOrder -------------------------------
(***************************************************************************)
(* What a plot board promises of its lane: the plots on it are in one      *)
(* order, a new plot comes last, and moving a plot changes the place of    *)
(* that plot and of no other.                                              *)
(***************************************************************************)
EXTENDS SequencesExt, Naturals

CONSTANT Plots

VARIABLE order

OnLane == {order[i] : i \in DOMAIN order}

Init == order \in Seq(Plots) /\ IsInjective(order)

Add == \E p \in Plots \ OnLane : order' = Append(order, p)

Move ==
    \E k, i \in DOMAIN order :
        order' = InsertAt(RemoveAt(order, k), i, order[k])

Next == Add \/ Move

Spec == Init /\ [][Next]_order
=============================================================================
