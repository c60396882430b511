----------------------------- MODULE MCVarReads ------------------------------
(* Two names, one of an array; clients that have both or one, which then   *)
(* has another index and offset: an index kept from one list is that of    *)
(* another variable in the other, or none.  Two rows of numbers on either  *)
(* side of 0 and 1.                                                        *)
EXTENDS VarReads, TLC

MCNames == {"SessionTime", "CarIdxLap"}
MCLayouts == {<<"SessionTime", "CarIdxLap">>, <<"CarIdxLap">>}
MCShape == [SessionTime |-> [type |-> "Double", count |-> 1],
            CarIdxLap |-> [type |-> "Int32", count |-> 2]]
MCRows == {[SessionTime |-> <<1>>, CarIdxLap |-> <<-2, 4>>],
           [SessionTime |-> <<-3>>, CarIdxLap |-> <<0, 2>>]}

(* The ids of DiskClients are alike.                                       *)
MCSymmetry == Permutations(DiskIds)
=============================================================================
