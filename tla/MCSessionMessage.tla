-------------------------- MODULE MCSessionMessage ---------------------------
(* SessionMessage of every text with one thing wrong, and of those with two *)
(* structs or lists wrong that one struct holds or of which one holds the  *)
(* other, followed by a whole, a broken, a thinner and an unloadable text. *)
EXTENDS SessionMessage

Doc(damage) == [yaml |-> TRUE, damage |-> damage]
One(p, kind) == Doc([q \in {p} |-> kind])

Unloadable == [Doc(<<>>) EXCEPT !.yaml = FALSE]

Ones == UNION {{One(p, k) : k \in KindsAt(p)} : p \in AllPlaces}

PartPlaces == {h[1] : h \in Holds}
Pairs == {<<p, q>> \in PartPlaces \X PartPlaces : p # q /\ (p[1] = q[1] \/ p \in Above[q[1]])}
Twos ==
    UNION {{Doc([r \in {p[1], p[2]} |-> IF r = p[1] THEN k ELSE l]) :
               k \in KindsAt(p[1]), l \in KindsAt(p[2])} : p \in Pairs}

MCDocuments == {Doc(<<>>), Unloadable} \cup Ones \cup Twos

(* Whole; a driver without a number that has no default; no sessions, and  *)
(* no cameras; no YAML.                                                    *)
MCUpdates ==
    {Doc(<<>>), One(<<"Driver", "CarClassEstLapTime">>, "absent"), Unloadable,
     Doc([p \in {<<"SessionInfo", "Sessions">>, <<"SessionInfoMessage", "CameraInfo">>} |->
            IF p[1] = "SessionInfo" THEN "none" ELSE "absent"])}

MCHolders == {"LiveClient", "DiskClient", "LiveConnection", "Application"}
=============================================================================
