--------------------- MODULE MC_WindowsSocketContainer ---------------------
(* Small instances of WindowsSocketContainer.                              *)
EXTENDS WindowsSocketContainer

MCCalls == CallKinds
MCFaults == FaultKinds
MCServerCalls == {"listen", "close"}

MCClientFaults == {"client", "reset"}
=============================================================================
