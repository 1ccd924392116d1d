------------------------------- MODULE MCElevAlgo -------------------------------
(* A small instance of ElevAlgo for TLC. *)
EXTENDS ElevAlgo

AnyStart == {p \in Floors \X Dirns : p[1] + p[2] \in Floors}

\* None up from the top or down from the bottom.
Panel == Requests \ {<<NumFloors - 1, "HallUp">>, <<0, "HallDown">>}
================================================================================
