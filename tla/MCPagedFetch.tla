---------------------------- MODULE MCPagedFetch ----------------------------
(***************************************************************************)
(* Seven orders over windows of three seconds, with orders on the boundary *)
(* of two windows and in the last second, and two pages of two orders at   *)
(* most: the one order that may be listed meanwhile makes a window too     *)
(* full for them.                                                          *)
(***************************************************************************)
EXTENDS PagedFetch

MCTime == <<0, 1, 3, 4, 5, 5, 7, 4>>
MCListed == <<1, 2, 3, 4, 5, 6, 7>>
MCLate == {8}

MCInterval ==
    {[start |-> s, end |-> e, midnight |-> m] :
        s \in {0, 1}, e \in {1, 6, 8}, m \in BOOLEAN}
=============================================================================
