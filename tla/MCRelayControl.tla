---------------------------- MODULE MCRelayControl ----------------------------
(* Instances of RelayControl for TLC: program contents, edits and times.    *)
EXTENDS RelayControl

Auto(cd)   == [type |-> "AUTO", cooldown |-> cd]
Manual(cd) == [type |-> "MANUAL", cooldown |-> cd]

MCFactory == Auto(0)

(* a lamp that cools down, one that does not, and a hand-operated one       *)
MCPrograms == {Auto(0), Auto(5), Manual(0), Manual(5)}
MCAutoPrograms == {Auto(0), Auto(4), Auto(7)}

(* the type stays, the cooldown may change                                  *)
MCSameTypeEdits == {e \in MCPrograms \X MCPrograms : e[1].type = e[2].type}

(* short ones, for two channels at once                                     *)
MCFewPrograms == {Auto(0), Auto(2), Manual(0)}
MCFewEdits == {e \in MCFewPrograms \X MCFewPrograms : e[1].type = e[2].type}
MCNoEdits == {}

(* the cooldown may become longer or shorter, at any time and ever again    *)
MCCoolPrograms == {Auto(0), Auto(3), Auto(5), Manual(0), Manual(3), Manual(5)}
MCCoolEdits == {e \in MCCoolPrograms \X MCCoolPrograms :
                  e[1].type = e[2].type /\ e[1].cooldown > 0 /\ e[2].cooldown > 0}

BothPositions == BOOLEAN
AutoOnly      == {TRUE}
=============================================================================
