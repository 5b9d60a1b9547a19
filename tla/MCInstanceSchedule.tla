------------------------- MODULE MCInstanceSchedule -------------------------
(* Instances of InstanceSchedule for TLC.                                  *)
EXTENDS InstanceSchedule, TLC

AllRequests == {"start", "stop", "delete", "schedule", "update", "ready"}
AllFaults == {"misfire", "lockwait", "raise"}
None == {}
=============================================================================
