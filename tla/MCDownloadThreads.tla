------------------------- MODULE MCDownloadThreads --------------------------
(* Instances of DownloadThreads for TLC. *)
EXTENDS DownloadThreads

AllFaults == FaultKinds
LoginOfThread == {"threadLogin"}
=============================================================================
