---------------------- MODULE MC_LinuxSocketContainer ----------------------
(* Small instances of LinuxSocketContainer.                                *)
EXTENDS LinuxSocketContainer

MCFaults == {"accept", "subscribe", "callback"}
MCNoFaults == {}
=============================================================================
