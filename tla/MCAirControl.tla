---------------------------- MODULE MCAirControl ----------------------------
(* An instance of AirControl for TLC: settings and temperatures around      *)
(* their thresholds.                                                        *)
EXTENDS AirControl

AirSettings(on, tmin, tmax, limit) ==
    [aircondition |-> on, tmin |-> tmin, tmax |-> tmax, alarm |-> limit]

(* thresholds in order, thresholds that overlap, and the factory settings,  *)
(* whose Tmax is what the memory held                                       *)
MCSettings ==
    {AirSettings(on, 2, 3, 2) : on \in BOOLEAN} \cup
    {AirSettings(on, 4, 1, 0) : on \in BOOLEAN} \cup
    {AirSettings(FALSE, 0, 3, 0)}
MCTemps == {1, 4}
=============================================================================
