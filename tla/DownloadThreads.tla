--------------------------- MODULE DownloadThreads --------------------------
(***************************************************************************)
(* DownloadFolder: the selected folders of a mailbox are dealt out to      *)
(* threads, each with a session and an interrupter of its own, except that *)
(* thread 0 borrows those the folder list was retrieved with (mainOps).    *)
(* What one thread does with one folder is module FolderDownload; here it  *)
(* is one step that succeeds or fails.                                     *)
(***************************************************************************)
EXTENDS Integers, FiniteSets, FiniteSetsExt

CONSTANTS
    MaxFolders,   \* bound: selected folders
    MaxSignals,   \* bound: interrupts the user sends
    Faults        \* what may fail, see FaultKinds

FaultKinds == {"login", "threadLogin", "list", "lostListError", "download",
               "logout", "signal"}

ASSUME BoundsAssumption == MaxFolders \in Nat \ {0} /\ MaxSignals \in Nat
ASSUME FaultsAssumption == Faults \subseteq FaultKinds

Folder == 0..(MaxFolders - 1)
Thread == 0..(MaxFolders - 1)

VARIABLES
    threads,    \* the command line's number of threads
    folders,    \* number of folders expandFolders has selected
    listing,    \* how getFolderList ended: "none", "complete", "failed", "lost"
    pc, idx,    \* the main goroutine and its loop variable
    tpc, left,  \* each thread, and the folders of its partition still to do
    session,    \* each thread's imapOps: "none", "nil", "up", "closed"
    mainSig,    \* DownloadFolder's interrupter: "none", "empty", "full"
    sig,        \* the interrupter of each thread's Imapgrabber
    errs,       \* threadSafeErrors: the kinds of errors added
    wg, result,
    begun,      \* how often the download of each folder was begun
    signals     \* interrupts sent so far

threadVars == <<tpc, left, begun>>
vars == <<threads, folders, listing, pc, idx, threadVars, session, mainSig,
          sig, errs, wg, result, signals>>

TypeOK ==
    /\ threads \in 0..(MaxFolders + 1)
    /\ folders \in 0..MaxFolders
    /\ listing \in {"none", "complete", "failed", "lost"}
    /\ pc \in {"login", "list", "loop", "check", "abort", "wait", "logout",
               "return", "ended", "killed"}
    /\ idx \in 0..MaxFolders
    /\ tpc \in [Thread -> {"idle", "next", "download", "done"}]
    /\ left \in [Thread -> SUBSET Folder]
    /\ session \in [Thread -> {"none", "nil", "up", "closed"}]
    /\ mainSig \in {"none", "empty", "full"}
    /\ sig \in [Thread -> {"none", "empty", "full"}]
    /\ errs \subseteq FaultKinds \cup {"interrupt", "stopping"}
    /\ wg \in 0..MaxFolders
    /\ result \in {"none", "ok", "error", "panic"}
    /\ begun \in [Folder -> Nat]
    /\ signals \in 0..MaxSignals

\* Mutant: the user's interrupt is registered for only after the login.
Init_Unregistered ==
    /\ threads \in 0..(MaxFolders + 1)
    /\ folders = 0 /\ listing = "none"
    /\ pc = "login" /\ idx = 0
    /\ tpc = [k \in Thread |-> "idle"] /\ left = [k \in Thread |-> {}]
    /\ session = [k \in Thread |-> "none"]
    /\ mainSig = "none" /\ sig = [k \in Thread |-> "none"]
    /\ errs = {} /\ wg = 0 /\ result = "none"
    /\ begun = [f \in Folder |-> 0] /\ signals = 0

Init ==
    /\ threads \in 0..(MaxFolders + 1)
    /\ folders = 0 /\ listing = "none"
    /\ pc = "login" /\ idx = 0
    /\ tpc = [k \in Thread |-> "idle"] /\ left = [k \in Thread |-> {}]
    /\ session = [k \in Thread |-> "none"]
    /\ mainSig = "empty" /\ sig = [k \in Thread |-> "none"]
    /\ errs = {} /\ wg = 0 /\ result = "none"
    /\ begun = [f \in Folder |-> 0] /\ signals = 0

-----------------------------------------------------------------------------
\* partitionFolders.
NumPartitions ==
    IF threads > folders \/ threads <= 0 THEN folders ELSE threads

\* Mutant: folders are dealt out by whole rounds only.
Partition_WholeRounds(k) ==
    {f \in 0..((folders \div NumPartitions) * NumPartitions - 1) :
       f % NumPartitions = k}

\* Mutant: every thread starts at its own index and takes all that follow.
Partition_Overlapping(k) == {f \in 0..(folders - 1) : f >= k}

Partition(k) == {f \in 0..(folders - 1) : f % NumPartitions = k}

\* authenticateClient registers a new interrupter, whether or not the login
\* works; a failed one leaves no client.
Register(k) == sig' = [sig EXCEPT ![k] = "empty"]
SetSession(k, s) == session' = [session EXCEPT ![k] = s]

\* Mutant: the session is left open.
Logout_Leaks(k, added) ==
    /\ sig' = [sig EXCEPT ![k] = "none"]
    /\ UNCHANGED session
    /\ errs' = errs \cup added

\* Imapgrabber.logout: closes the session, gracefully or by terminating it, and
\* drops the interrupter; either way it may report an error.
Logout(k, added) ==
    /\ sig' = [sig EXCEPT ![k] = "none"]
    /\ SetSession(k, "closed")
    /\ \/ errs' = errs \cup added
       \/ "logout" \in Faults /\ errs' = errs \cup added \cup {"logout"}

-----------------------------------------------------------------------------
(***************************************************************************)
(* The main goroutine.                                                     *)
(***************************************************************************)
Authenticate ==
    /\ pc = "login"
    /\ Register(0)
    /\ \/ pc' = "list" /\ SetSession(0, "up") /\ UNCHANGED errs
       \/ /\ "login" \in Faults
          /\ pc' = "return" /\ SetSession(0, "nil")
          /\ errs' = errs \cup {"login"}
    /\ UNCHANGED <<threads, folders, listing, idx, threadVars, mainSig, wg,
                   result, signals>>

\* getFolderList and expandFolders. A failed List leaves the folders received
\* so far, and by an unsynchronised read of err its error or none.
ListFolders ==
    /\ pc = "list"
    /\ folders' \in 0..MaxFolders
    /\ \/ listing' = "complete" /\ UNCHANGED errs
       \/ "list" \in Faults /\ listing' = "failed" /\ errs' = errs \cup {"list"}
       \/ "lostListError" \in Faults /\ listing' = "lost" /\ UNCHANGED errs
    /\ pc' = "loop"
    /\ UNCHANGED <<threads, idx, threadVars, session, mainSig, sig, wg, result,
                   signals>>

NextPartition ==
    /\ pc = "loop" /\ idx < NumPartitions
    /\ IF idx = 0 THEN UNCHANGED <<session, sig, errs>>
       ELSE /\ Register(idx)
            /\ \/ SetSession(idx, "up") /\ UNCHANGED errs
               \/ /\ "threadLogin" \in Faults
                  /\ SetSession(idx, "nil")
                  /\ errs' = errs \cup {"threadLogin"}
    /\ pc' = "check"
    /\ UNCHANGED <<threads, folders, listing, idx, threadVars, mainSig, wg,
                   result, signals>>

EndLoop ==
    /\ pc = "loop" /\ idx = NumPartitions
    /\ pc' = "wait"
    /\ UNCHANGED <<threads, folders, listing, idx, threadVars, session,
                   mainSig, sig, errs, wg, result, signals>>

\* interrupted(), then bad(): the thread is started or the loop given up.
CheckInterrupt ==
    /\ pc = "check"
    /\ mainSig' = IF mainSig = "empty" THEN "empty" ELSE "none"
    /\ IF mainSig = "empty" /\ errs = {}
       THEN /\ wg' = wg + 1
            /\ tpc' = [tpc EXCEPT ![idx] = "next"]
            /\ left' = [left EXCEPT ![idx] = Partition(idx)]
            /\ idx' = idx + 1
            /\ pc' = "loop"
       ELSE pc' = "abort" /\ UNCHANGED <<wg, tpc, left, idx>>
    /\ UNCHANGED <<threads, folders, listing, begun, session, sig, errs,
                   result, signals>>

\* The special-case logout. Without a client it is a call on a nil interface,
\* from which the goroutine unwinds through its deferred calls.
Abort ==
    /\ pc = "abort"
    /\ pc' = "wait"
    /\ IF session[idx] = "nil"
       THEN /\ result' = "panic"
            /\ sig' = [sig EXCEPT ![idx] = "none"]
            /\ UNCHANGED <<session, errs>>
       ELSE Logout(idx, {"stopping"}) /\ UNCHANGED result
    /\ UNCHANGED <<threads, folders, listing, idx, threadVars, mainSig, wg,
                   signals>>

\* Mutant: mainOps logs out before the threads are waited for.
AllDone_Unwaited == TRUE

AllDone == wg = 0

\* The deferred calls, last one first: wg.Wait, mainOps.logout, then the errors
\* are joined and the interrupter dropped.
WaitAll ==
    /\ pc = "wait" /\ AllDone
    /\ pc' = "logout"
    /\ UNCHANGED <<threads, folders, listing, idx, threadVars, session,
                   mainSig, sig, errs, wg, result, signals>>

MainLogout ==
    /\ pc = "logout"
    /\ Logout(0, {})
    /\ pc' = "return"
    /\ UNCHANGED <<threads, folders, listing, idx, threadVars, mainSig, wg,
                   result, signals>>

Return ==
    /\ pc = "return"
    /\ pc' = "ended"
    /\ mainSig' = "none"
    /\ result' = IF result = "panic" THEN "panic"
                 ELSE IF errs = {} THEN "ok" ELSE "error"
    /\ UNCHANGED <<threads, folders, listing, idx, threadVars, session, sig,
                   errs, wg, signals>>

-----------------------------------------------------------------------------
(***************************************************************************)
(* The threads. They stop for an interrupt, not for each other's errors.   *)
(***************************************************************************)
\* Mutant: a thread does not ask for an interrupt between two folders.
HasInterrupt_Never(k) == FALSE

HasInterrupt(k) == sig[k] # "empty"

\* downloadMissingEmailsToFolder of the next folder polls before anything else.
BeginFolder(k) ==
    /\ tpc[k] = "next" /\ left[k] # {}
    /\ LET f == Min(left[k]) IN
         IF HasInterrupt(k)
         THEN /\ left' = [left EXCEPT ![k] = @ \ {f}]
              /\ errs' = errs \cup {"interrupt"}
              /\ sig' = [sig EXCEPT ![k] = "none"]
              /\ UNCHANGED <<tpc, begun>>
         ELSE /\ tpc' = [tpc EXCEPT ![k] = "download"]
              /\ begun' = [begun EXCEPT ![f] = @ + 1]
              /\ UNCHANGED <<left, errs, sig>>
    /\ UNCHANGED <<threads, folders, listing, pc, idx, session, mainSig, wg,
                   result, signals>>

\* Module FolderDownload shows that an interrupt its polls have consumed ends
\* the download with an error; one that comes too late may stay pending.
EndFolder(k) ==
    /\ tpc[k] = "download"
    /\ left' = [left EXCEPT ![k] = @ \ {Min(left[k])}]
    /\ tpc' = [tpc EXCEPT ![k] = "next"]
    /\ \/ UNCHANGED <<errs, sig>>
       \/ /\ "download" \in Faults
          /\ errs' = errs \cup {"download"} /\ UNCHANGED sig
       \/ /\ HasInterrupt(k)
          /\ errs' = errs \cup {"interrupt"}
          /\ sig' = [sig EXCEPT ![k] = "none"]
    /\ UNCHANGED <<threads, folders, listing, pc, idx, begun, session, mainSig,
                   wg, result, signals>>

\* Mutant: a thread leaves the wait group for every folder.
EndThread_Twice(k) ==
    /\ tpc[k] = "next" /\ left[k] = {}
    /\ tpc' = [tpc EXCEPT ![k] = "done"]
    /\ wg' = wg - 2
    /\ IF k > 0 THEN Logout(k, {}) ELSE UNCHANGED <<sig, session, errs>>
    /\ UNCHANGED <<threads, folders, listing, pc, idx, left, begun, mainSig,
                   result, signals>>

\* Mutant: a thread that is done forgets to leave the wait group.
EndThread_NotDone(k) ==
    /\ tpc[k] = "next" /\ left[k] = {}
    /\ tpc' = [tpc EXCEPT ![k] = "done"]
    /\ IF k > 0 THEN Logout(k, {}) ELSE UNCHANGED <<sig, session, errs>>
    /\ UNCHANGED <<threads, folders, listing, pc, idx, left, begun, mainSig,
                   wg, result, signals>>

\* Deferred: all threads but the first log out, then wg.Done().
EndThread(k) ==
    /\ tpc[k] = "next" /\ left[k] = {}
    /\ tpc' = [tpc EXCEPT ![k] = "done"]
    /\ wg' = wg - 1
    /\ IF k > 0 THEN Logout(k, {}) ELSE UNCHANGED <<sig, session, errs>>
    /\ UNCHANGED <<threads, folders, listing, pc, idx, left, begun, mainSig,
                   result, signals>>

-----------------------------------------------------------------------------
(***************************************************************************)
(* The user's interrupt goes to every registered interrupter; with none    *)
(* left it has its default effect and kills the process.                   *)
(***************************************************************************)
Registered == {k \in Thread : sig[k] # "none"}

Signal ==
    /\ "signal" \in Faults /\ signals < MaxSignals
    /\ pc \notin {"ended", "killed"}
    /\ signals' = signals + 1
    /\ IF mainSig = "none" /\ Registered = {}
       THEN /\ pc' = "killed"
            /\ tpc' = [k \in Thread |-> "done"]
            /\ UNCHANGED <<mainSig, sig>>
       ELSE /\ mainSig' = IF mainSig = "empty" THEN "full" ELSE mainSig
            /\ sig' = [k \in Thread |->
                         IF sig[k] = "empty" THEN "full" ELSE sig[k]]
            /\ UNCHANGED <<pc, tpc>>
    /\ UNCHANGED <<threads, folders, listing, idx, left, begun, session, errs,
                   wg, result>>

Main == \/ Authenticate \/ ListFolders \/ NextPartition \/ EndLoop
        \/ CheckInterrupt \/ Abort \/ WaitAll \/ MainLogout \/ Return
Worker(k) == BeginFolder(k) \/ EndFolder(k) \/ EndThread(k)

Next == Main \/ Signal \/ \E k \in Thread : Worker(k)

Spec == Init /\ [][Next]_vars

\* The scheduler runs what can run, and the server answers.
FairSpec == Spec /\ WF_vars(Main) /\ \A k \in Thread : WF_vars(Worker(k))

-----------------------------------------------------------------------------
(***************************************************************************)
(* Properties.                                                             *)
(***************************************************************************)

\* Whatever the number of threads, a run of DownloadFolder without an error has
\* downloaded every folder expandFolders has selected, and has not overlooked
\* that the folder list failed, unless its error was lost (partitionFolders, the
\* loops over its result, and the errors they join).
SuccessIsComplete ==
    pc = "ended" /\ result = "ok"
      => listing # "failed" /\ \A f \in 0..(folders - 1) : begun[f] = 1

\* No folder is downloaded twice, at the same time or in turn: two pipelines on
\* one oldmail file would tear its lines (partitionFolders).
OnePipelinePerFolder == \A f \in Folder : begun[f] <= 1

\* A download always has an open session below it. Thread 0 uses mainOps, which
\* DownloadFolder's deferred logout closes: only the order of the deferred
\* calls keeps it open.
DownloadsHaveSession ==
    \A k \in Thread : tpc[k] = "download" => session[k] = "up"

\* When DownloadFolder has ended, normally or by a panic, every session it
\* opened is closed, whichever of its three logouts was responsible.
SessionsClosed == pc = "ended" => \A k \in Thread : session[k] # "up"

\* Once the user has interrupted, no thread begins another folder, although a
\* thread's interrupter is registered later than DownloadFolder's and only one
\* of the two may hear of the interrupt.
NoFolderAfterInterrupt == [][signals > 0 => UNCHANGED begun]_vars

\* A single interrupt never kills the process: there is an interrupter from
\* before the login until the end.
FirstInterruptIsGraceful == pc = "killed" => signals >= 2

\* DownloadFolder ends.
Termination == <>(pc \in {"ended", "killed"})

\* What the test of three threads of which the third cannot log in expects: all
\* errors are returned together.
NoPanic == result # "panic"
=============================================================================
