----------------------------- MODULE FolderLock -----------------------------
(***************************************************************************)
(* lock: one process at a time works on a download folder. The lock on the *)
(* file cannot be waited for with a timeout, so a goroutine waits for it;  *)
(* when the timeout is first, another goroutine is left behind to release  *)
(* what the first one may still obtain.                                    *)
(***************************************************************************)
EXTENDS Naturals

CONSTANTS
    Process,   \* processes on the same folder: downloads and servers
    NoOne

ASSUME NoOneAssumption == NoOne \notin Process

VARIABLES
    owner,       \* who has the lock on the file
    pc,          \* each process' call of lock and what it does with the lock
    acquiring,   \* the goroutine that calls doLock
    resultChan,  \* of capacity 1: "empty", "unlock" or "error"
    releasing    \* the goroutine left behind

vars == <<owner, pc, acquiring, resultChan, releasing>>

TypeOK ==
    /\ owner \in Process \cup {NoOne}
    /\ pc \in [Process -> {"idle", "select", "working", "failed"}]
    /\ acquiring \in [Process -> {"none", "locking", "locked", "error", "done"}]
    /\ resultChan \in [Process -> {"empty", "unlock", "error"}]
    /\ releasing \in [Process -> {"none", "waiting", "done"}]

Init ==
    /\ owner = NoOne
    /\ pc = [p \in Process |-> "idle"]
    /\ acquiring = [p \in Process |-> "none"]
    /\ resultChan = [p \in Process |-> "empty"]
    /\ releasing = [p \in Process |-> "none"]

\* The path to the lock file is made first.
Lock(p) ==
    /\ pc[p] = "idle"
    /\ \/ /\ pc' = [pc EXCEPT ![p] = "select"]
          /\ acquiring' = [acquiring EXCEPT ![p] = "locking"]
       \/ pc' = [pc EXCEPT ![p] = "failed"] /\ UNCHANGED acquiring
    /\ UNCHANGED <<owner, resultChan, releasing>>

\* doLock: the lock, as soon as nobody has it, or an error.
DoLock(p) ==
    /\ acquiring[p] = "locking" /\ owner = NoOne
    /\ owner' = p
    /\ acquiring' = [acquiring EXCEPT ![p] = "locked"]
    /\ UNCHANGED <<pc, resultChan, releasing>>

FailLock(p) ==
    /\ acquiring[p] = "locking"
    /\ acquiring' = [acquiring EXCEPT ![p] = "error"]
    /\ UNCHANGED <<owner, pc, resultChan, releasing>>

SendResult(p) ==
    /\ acquiring[p] \in {"locked", "error"} /\ resultChan[p] = "empty"
    /\ resultChan' = [resultChan EXCEPT ![p] =
                        IF acquiring[p] = "locked" THEN "unlock" ELSE "error"]
    /\ acquiring' = [acquiring EXCEPT ![p] = "done"]
    /\ UNCHANGED <<owner, pc, releasing>>

\* Mutant: nobody is left behind.
TimeOut_Leaks(p) ==
    /\ pc[p] = "select"
    /\ pc' = [pc EXCEPT ![p] = "failed"]
    /\ UNCHANGED <<owner, acquiring, resultChan, releasing>>

\* Mutant: the caller waits for the goroutine before it gives up.
TimeOut_Waits(p) ==
    /\ pc[p] = "select" /\ acquiring[p] = "done"
    /\ pc' = [pc EXCEPT ![p] = "failed"]
    /\ releasing' = [releasing EXCEPT ![p] = "waiting"]
    /\ UNCHANGED <<owner, acquiring, resultChan>>

\* The select when the timeout is over, whether or not a result is there too.
TimeOut(p) ==
    /\ pc[p] = "select"
    /\ pc' = [pc EXCEPT ![p] = "failed"]
    /\ releasing' = [releasing EXCEPT ![p] = "waiting"]
    /\ UNCHANGED <<owner, acquiring, resultChan>>

\* Mutant: the caller only looks whether the error is one of the timeout.
ReceiveResult_NoError(p) ==
    /\ pc[p] = "select" /\ resultChan[p] # "empty"
    /\ resultChan' = [resultChan EXCEPT ![p] = "empty"]
    /\ pc' = [pc EXCEPT ![p] = "working"]
    /\ UNCHANGED <<owner, acquiring, releasing>>

\* The select when there is a result; download and serve go on only with a lock.
ReceiveResult(p) ==
    /\ pc[p] = "select" /\ resultChan[p] # "empty"
    /\ resultChan' = [resultChan EXCEPT ![p] = "empty"]
    /\ pc' = [pc EXCEPT ![p] =
                IF resultChan[p] = "unlock" THEN "working" ELSE "failed"]
    /\ UNCHANGED <<owner, acquiring, releasing>>

ReleaseLate(p) ==
    /\ releasing[p] = "waiting" /\ resultChan[p] # "empty"
    /\ owner' = IF resultChan[p] = "unlock" THEN NoOne ELSE owner
    /\ resultChan' = [resultChan EXCEPT ![p] = "empty"]
    /\ releasing' = [releasing EXCEPT ![p] = "done"]
    /\ UNCHANGED <<pc, acquiring>>

\* The system releases the lock of a process that is gone.
Gone(p) ==
    /\ owner' = IF owner = p THEN NoOne ELSE owner
    /\ pc' = [pc EXCEPT ![p] = "idle"]
    /\ acquiring' = [acquiring EXCEPT ![p] = "none"]
    /\ resultChan' = [resultChan EXCEPT ![p] = "empty"]
    /\ releasing' = [releasing EXCEPT ![p] = "none"]

\* The deferred unlock, after which the process ends.
Unlock(p) == pc[p] = "working" /\ Gone(p)

\* The process ends after an error or by a crash; it may be started again.
\* Nothing forces one that has got the error of lock to end at once.
End(p) == pc[p] # "idle" /\ Gone(p)

Local(p) == \/ DoLock(p) \/ FailLock(p) \/ SendResult(p) \/ TimeOut(p)
            \/ ReceiveResult(p) \/ ReleaseLate(p)

Next == \E p \in Process : Lock(p) \/ Local(p) \/ Unlock(p) \/ End(p)

Spec == Init /\ [][Next]_vars

-----------------------------------------------------------------------------
(***************************************************************************)
(* Properties.                                                             *)
(***************************************************************************)

\* Who works on the folder has its lock, so that no two processes do: a late
\* result is never both used by the caller and released by the goroutine left
\* behind (lock, and the callers' checks of its error).
WorkerOwnsLock == \A p \in Process : pc[p] = "working" => owner = p

\* A caller whose lock failed does not keep others out for ever, even if its
\* process lives on.
FailedCallerLetsGo ==
    \A p \in Process : pc[p] = "failed" /\ owner = p ~> owner # p \/ pc[p] # "failed"
=============================================================================
