---------------------------- MODULE MCYamlParser ----------------------------
(* Texts of one or two sections between "---" and "...": a section has up  *)
(* to two plain values and a list of up to two entries, before or after    *)
(* them.  The same keys occur in both sections, and in and beside lists.   *)
EXTENDS YamlParser

CONSTANTS DriverInfo, SessionInfo, Drivers, CarIdx, UserName, Dots, NoValue

Line(d, k, v) == [depth |-> d, key |-> k, value |-> v, item |-> FALSE]
Item(k, v) == [depth |-> 2, key |-> k, value |-> v, item |-> TRUE]

MCPlain ==
    {<<>>, <<Line(1, UserName, 0)>>, <<Line(1, CarIdx, 1)>>,
     <<Line(1, UserName, 0), Line(1, CarIdx, 1)>>}
MCEntries ==
    {<<Item(CarIdx, v)>> : v \in 1..2}
      \cup {<<Item(CarIdx, v), Line(2, UserName, 0)>> : v \in 1..2}
MCLists ==
    {<<>>, <<Line(1, Drivers, NoValue)>>}
      \cup {<<Line(1, Drivers, NoValue)>> \o e : e \in MCEntries}
      \cup {<<Line(1, Drivers, NoValue)>> \o e \o f : e, f \in MCEntries}
MCBodies ==
    {p \o l : p \in MCPlain, l \in MCLists} \cup {l \o p : p \in MCPlain, l \in MCLists}
MCSections(bodies) ==
    {<<Line(0, k, NoValue)>> \o b : k \in {DriverInfo, SessionInfo}, b \in bodies}

MCTexts ==
    {<<Line(3, NoKey, NoValue)>> \o s \o t \o <<Line(0, Dots, NoValue)>> :
        s \in MCSections(MCBodies),
        t \in MCSections({b \in MCBodies : Len(b) <= 3}) \cup {<<>>}}

Plain(k) == [key |-> k, value |-> Untested]
MCPaths ==
    {<<Plain(DriverInfo), Plain(UserName)>>,
     <<Plain(DriverInfo), Plain(Drivers), Plain(UserName)>>,
     <<Plain(DriverInfo), Plain(Drivers), [key |-> CarIdx, value |-> 2], Plain(UserName)>>,
     <<Plain(DriverInfo), Plain(Drivers), [key |-> CarIdx, value |-> 1]>>}
=============================================================================
