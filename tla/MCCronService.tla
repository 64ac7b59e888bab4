---------------------------- MODULE MCCronService ----------------------------
(* Small instances of CronService for TLC. *)
EXTENDS CronService, TLC

CONSTANTS early, later

MCAtTime == [j \in Job |-> IF j = early THEN 1 ELSE 2]
=============================================================================
