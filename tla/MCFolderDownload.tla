-------------------------- MODULE MCFolderDownload --------------------------
(***************************************************************************)
(* Instances of FolderDownload for TLC: which faults each run allows.      *)
(***************************************************************************)
EXTENDS FolderDownload

IOFaults == {"init", "read", "select", "list", "lostListError", "fetch",
             "deliver", "open", "write", "close"}
TearFaults == {"write", "shortTear", "longTear"}
ServerFaults == {"arrive", "expunge", "renumber"}
RestartFaults == {"init", "lostListError", "fetch", "deliver", "crash"}
                 \cup TearFaults \cup ServerFaults
SingleRunFaults == IOFaults \cup TearFaults \cup {"signal"}
=============================================================================
