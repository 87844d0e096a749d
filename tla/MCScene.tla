------------------------------ MODULE MCScene ------------------------------
(* The cube turns at its start through all angles, about one axis, about   *)
(* two and about three that have turned equally far; unturned, it moves    *)
(* along z and, at two distances, along x and along y.                     *)
EXTENDS Scene

MCKeys == {"w", "a", "q", "up", "right", "z"}

TurnKeys == {"w", "a", "q"}

AtHome == pos = [i \in Axis |-> IF i = "z" THEN ZStart ELSE 0]
AtRest == \A i \in Axis : angle_v[i] = 0

NearHome == \A i \in Axis : Magnitude(angle[i]) \in {0, 1, 2, TwoPi}

\* The axes start one after the other: y, then z one unit behind, then x.
Turn3 == /\ angle_v["z"] # 0 => angle_v["y"] # 0 /\ angle["y"] = Turned(angle["z"], 1)
         /\ angle_v["x"] # 0 => angle_v["z"] # 0 /\ angle["z"] = Turned(angle["x"], 1)
         /\ NearHome \/ keycode = (CASE angle_v["x"] # 0 -> "q"
                                     [] angle_v["z"] # 0 -> "a"
                                     [] OTHER -> "w")

Travelling == /\ Still /\ AtRest
              /\ pos["x"] = 0 \/ pos["y"] = 0
              /\ (pos["x"] = 0 /\ pos["y"] = 0) \/ pos["z"] \in {156, ZStart}

Journey == \/ AtHome /\ Turn3 /\ keycode \in TurnKeys
           \/ AtHome /\ Still /\ AtRest
           \/ Travelling /\ keycode \notin TurnKeys

\* The hypothesis of DisplayProofs!EveryRotationIsRigid.
ASSUME TableIsRound == SinesAreRound
=============================================================================
