---------------------------- MODULE MCLapDisplay ----------------------------
(* LapDisplay for one car: no flag, the checkered one, green alone, and    *)
(* yellow with a caution.                                                  *)
EXTENDS LapDisplay

MCDriverLists == {<<0>>}
Bits(names) == {FlagBit[f] : f \in names}
MCFlagWords == {Bits({}), Bits({"Checkered"}), Bits({"Green"}), Bits({"Yellow", "Caution"})}
=============================================================================
