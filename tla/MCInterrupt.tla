----------------------------- MODULE MCInterrupt -----------------------------
(* A timer, the keyboard, the display and a disk of two tracks.  Time      *)
(* stays below the largest int.                                            *)
EXTENDS Disk

CONSTANTS timer, keyboard, display, disk

AllDevices == {timer, keyboard, display, disk}
MCPollers == {timer, keyboard}
MCDelays == [d \in Devices |-> CASE d = timer -> {1, 5}
                                 [] d = keyboard -> {4}
                                 [] d = display -> {2}
                                 [] d = disk -> {}]
MayWait == {FALSE, TRUE}
=============================================================================
