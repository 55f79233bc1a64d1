------------------------- MODULE MCMonitorSchedule -------------------------
(***************************************************************************)
(* Instances of MonitorSchedule for TLC.                                    *)
(***************************************************************************)
EXTENDS MonitorSchedule, TLC

CONSTANTS w1, w2, e1, e2

\* A daily and a rarer schedule.
Daily  == [every |-> 1, at |-> 0]
Rarely == [every |-> 2, at |-> 0]
MCSchedules == {Daily, Rarely}
=============================================================================
