---------------------------- MODULE MCTransport ----------------------------
(* Small instances of Transport for TLC.                                   *)
EXTENDS Transport, TLC
CONSTANTS p1, quick, box

TwoCalls == {quick, box}
BodySizes == quick :> 1 @@ box :> 2
BoxCalls == {box}
=============================================================================
