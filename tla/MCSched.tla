-------------------------------- MODULE MCSched --------------------------------
(* Instances of Sched for TLC; the configurations choose the task ids that *)
(* sleep, those that wait on a UART and those that may end while they      *)
(* sleep, and the width of the clock.                                      *)
EXTENDS SchedInv

TwoSleepers    == {0, 1}
ThreeSleepers  == {0, 1, 2}
NoReaders      == {}
OneReader      == {2}
NoErrors       == {}
OneError       == {0}
MCDurations    == {0, 2}
================================================================================
