------------------------ MODULE DownloadThreadsProofs -----------------------
(***************************************************************************)
(* Proofs about DownloadThreads, for every number of folders, threads and  *)
(* interrupts and every set of faults.                                     *)
(***************************************************************************)
EXTENDS DownloadThreads, FiniteSetTheorems, TLAPS

-----------------------------------------------------------------------------
(***************************************************************************)
(* The inductive invariant. Once the process is killed no step is left, so *)
(* that most of it need only hold of a process that lives.                 *)
(***************************************************************************)
Running == {k \in Thread : tpc[k] \in {"next", "download"}}

Lives == pc # "killed"

\* The loop starts the threads in order, and the wait group counts those that
\* have not ended.
LoopInv ==
    /\ pc \in {"login", "list"} => idx = 0 /\ folders = 0 /\ errs = {}
    /\ idx <= NumPartitions
    /\ pc \in {"check", "abort"} => idx < NumPartitions
    /\ Lives => /\ \A k \in Thread : tpc[k] = "idle" <=> k >= idx
                /\ wg = Cardinality(Running)
    /\ pc \in {"logout", "return", "ended", "killed"} => Running = {}

\* A session is open below every thread that runs, and no other is open but
\* mainOps until its logout, and that of the thread about to be started.
SessionInv ==
    /\ \A k \in Running : session[k] = "up"
    /\ pc \in {"list", "loop", "check"} => session[0] = "up"
    /\ pc = "check" => session[idx] = "up" \/ errs # {}
    /\ Lives => \A k \in Thread :
         session[k] = "up" =>
           \/ k \in Running
           \/ k = 0 /\ pc \notin {"return", "ended"}
           \/ k = idx /\ pc \in {"check", "abort"}

\* From the first interrupt on DownloadFolder's interrupter has heard of it, and
\* so has that of every thread that runs.
SignalInv ==
    /\ signals > 0 => mainSig # "empty" /\ \A k \in Running : sig[k] # "empty"
    /\ signals = 0 => mainSig = "empty" \/ pc = "ended"
    /\ FirstInterruptIsGraceful

\* A folder has been begun only by the thread it was dealt out to, and that
\* thread has it to do until then, or until it has ended the folder.
BegunInv ==
    /\ OnePipelinePerFolder
    /\ \A k \in Thread : left[k] \subseteq Partition(k)
    /\ \A f \in Folder :
         begun[f] # 0 => f < folders /\ f % NumPartitions < idx
    /\ \A k \in Thread : \A f \in left[k] :
         Lives /\ begun[f] # 0 => tpc[k] = "download" /\ f = Min(left[k])
    /\ \A k \in Thread :
         tpc[k] = "download" => left[k] # {} /\ begun[Min(left[k])] = 1

\* Without an error a folder that a thread no longer has to do has been begun,
\* and the loop has been through all partitions.
CompleteInv ==
    /\ Lives /\ errs = {} => \A k \in Thread :
         tpc[k] # "idle" => \A f \in Partition(k) \ left[k] : begun[f] = 1
    /\ Lives => \A k \in Thread : tpc[k] = "done" => left[k] = {}
    /\ listing = "failed" => "list" \in errs
    /\ pc \in {"wait", "logout", "return"} /\ errs = {} =>
         idx = NumPartitions \/ result = "panic"
    /\ pc # "ended" => result \in {"none", "panic"}
    /\ result = "ok" => pc = "ended" /\ errs = {} /\ idx = NumPartitions

-----------------------------------------------------------------------------
(***************************************************************************)
(* Lemmas about the least folder, the partitions and the wait group.       *)
(***************************************************************************)

\* There is a least number in every set of them that has any.
LEMMA MinIsLeast ==
  ASSUME NEW S \in SUBSET Nat, S # {}
  PROVE  Min(S) \in S /\ \A y \in S : Min(S) <= y
  <1> DEFINE Less == {p \in Nat \X Nat : p[1] < p[2]}
  <1>1. IsWellFoundedOn(Less, Nat)
    BY NatLessThanWellFounded DEF OpToRel
  <1>2. \A y, x \in Nat : <<y, x>> \in Less <=> y < x
    OBVIOUS
  <1> HIDE DEF Less
  <1>3. PICK x \in S : \A y \in S : ~ (<<y, x>> \in Less)
    BY <1>1, WFMin
  <1>4. \A y \in S : x <= y
    <2> SUFFICES ASSUME NEW y \in S PROVE x <= y
      OBVIOUS
    <2>1. x \in Nat /\ y \in Nat /\ ~(y < x)
      BY <1>2, <1>3
    <2> QED
      BY <2>1
  <1> QED
    BY <1>4 DEF Min

\* partitionFolders makes no more partitions than folders, and at least one when
\* there is a folder.
LEMMA PartitionsBound ==
  ASSUME TypeOK
  PROVE  /\ NumPartitions \in 0..folders /\ folders \in 0..MaxFolders
         /\ folders > 0 => NumPartitions > 0
  BY BoundsAssumption DEF TypeOK, NumPartitions

\* A folder is dealt out to one thread, whose index is that of a partition.
LEMMA PartitionOwner ==
  ASSUME TypeOK, NEW f \in 0..(folders - 1)
  PROVE  /\ f \in Folder /\ f % NumPartitions \in 0..(NumPartitions - 1)
         /\ f \in Partition(f % NumPartitions)
  <1>1. /\ NumPartitions \in Nat \ {0} /\ folders \in 0..MaxFolders
        /\ f \in Nat
    BY PartitionsBound
  <1>2. f % NumPartitions \in 0..(NumPartitions - 1)
    BY <1>1
  <1> QED
    BY <1>1, <1>2, BoundsAssumption DEF Folder, Partition

\* The folders of a partition are selected folders.
LEMMA PartitionType ==
  ASSUME TypeOK, NEW k \in Thread
  PROVE  Partition(k) \subseteq Folder /\ Partition(k) \subseteq Nat
  BY BoundsAssumption, PartitionsBound DEF Partition, Folder

\* A thread begins the least folder it still has to do.
LEMMA LeastLeft ==
  ASSUME TypeOK, NEW k \in Thread, left[k] # {}
  PROVE  Min(left[k]) \in left[k] /\ Min(left[k]) \in Folder
  <1>1. left[k] \in SUBSET Folder /\ Folder \subseteq Nat
    BY BoundsAssumption DEF TypeOK, Folder
  <1> QED
    BY <1>1, MinIsLeast

\* Threads can be counted, and they are no more than there are folders.
LEMMA ThreadCount ==
  ASSUME NEW S \in SUBSET Thread
  PROVE  /\ IsFiniteSet(S) /\ Cardinality(S) \in 0..MaxFolders
         /\ Cardinality(S) = 0 <=> S = {}
  <1>1. IsFiniteSet(Thread) /\ Cardinality(Thread) = MaxFolders
    BY BoundsAssumption, FS_Interval DEF Thread
  <1>2. IsFiniteSet(S) /\ Cardinality(S) <= Cardinality(Thread)
    BY <1>1, FS_Subset
  <1>3. Cardinality(S) \in Nat
    BY <1>2, FS_CardinalityType
  <1>4. Cardinality(S) = 0 <=> S = {}
    BY <1>2, FS_EmptySet
  <1> QED
    BY <1>1, <1>2, <1>3, <1>4, BoundsAssumption

\* What a step of a thread, or its start, does to the set of threads that run.
LEMMA RunningStep ==
  ASSUME TypeOK, NEW k \in Thread
  PROVE  /\ BeginFolder(k) \/ EndFolder(k) => Running' = Running /\ k \in Running
         /\ EndThread(k) => Running' = Running \ {k} /\ k \in Running
         /\ tpc' = [tpc EXCEPT ![k] = "next"] => Running' = Running \cup {k}
  <1> USE DEF TypeOK, Running
  <1>1. BeginFolder(k) => Running' = Running /\ k \in Running
    BY DEF BeginFolder
  <1>2. EndFolder(k) => Running' = Running /\ k \in Running
    BY DEF EndFolder
  <1>3. EndThread(k) => Running' = Running \ {k} /\ k \in Running
    BY DEF EndThread
  <1>4. tpc' = [tpc EXCEPT ![k] = "next"] => Running' = Running \cup {k}
    OBVIOUS
  <1> QED
    BY <1>1, <1>2, <1>3, <1>4

-----------------------------------------------------------------------------
(***************************************************************************)
(* The types and the loop.                                                 *)
(***************************************************************************)
TypeInv == TypeOK /\ LoopInv

\* Before the login there is no thread, no session and no folder.
LEMMA TypeInvInit == Init => TypeInv
  <1> SUFFICES ASSUME Init PROVE TypeInv
    OBVIOUS
  <1>1. TypeOK
    BY BoundsAssumption DEF Init, TypeOK, FaultKinds
  <1>2. Running = {} /\ \A k \in Thread : k >= 0
    BY BoundsAssumption DEF Init, Running, Thread
  <1>3. Cardinality(Running) = 0
    BY <1>2, FS_EmptySet
  <1>4. NumPartitions = 0
    BY DEF Init, NumPartitions
  <1> QED
    BY <1>1, <1>2, <1>3, <1>4 DEF Init, TypeInv, LoopInv, Lives

\* The loop starts at most as many threads as there are folders, and a thread
\* leaves the wait group once.
LEMMA TypeInvNext == TypeInv /\ [Next]_vars => TypeInv'
  <1> SUFFICES ASSUME TypeInv, [Next]_vars PROVE TypeInv'
    OBVIOUS
  <1> USE BoundsAssumption
  <1>0. TypeOK /\ LoopInv /\ FaultKinds = FaultKinds
    BY DEF TypeInv
  <1>1. /\ NumPartitions \in 0..folders /\ folders \in 0..MaxFolders
        /\ folders > 0 => NumPartitions > 0
    BY <1>0, PartitionsBound
  <1>2. ASSUME UNCHANGED <<threads, folders>> PROVE UNCHANGED NumPartitions
    BY <1>2 DEF NumPartitions
  <1>3. ASSUME UNCHANGED tpc PROVE UNCHANGED Running
    BY <1>3 DEF Running
  <1>4. CASE Authenticate
    <2>1. TypeOK'
      BY <1>0, <1>4 DEF TypeOK, Authenticate, Register, SetSession, threadVars,
             FaultKinds
    <2>2. Running = {}
      BY <1>0, <1>4 DEF LoopInv, Lives, Running, Thread, Authenticate
    <2>3. LoopInv'
      BY <1>0, <1>2, <1>3, <1>4, <2>2
         DEF LoopInv, Lives, Authenticate, threadVars
    <2> QED
      BY <2>1, <2>3 DEF TypeInv
  <1>5. CASE ListFolders
    <2>1. TypeOK'
      BY <1>0, <1>5 DEF TypeOK, ListFolders, threadVars, FaultKinds
    <2>2. NumPartitions' \in 0..folders'
      BY <2>1 DEF TypeOK, NumPartitions
    <2>3. LoopInv'
      BY <1>0, <1>3, <1>5, <2>2 DEF LoopInv, Lives, ListFolders, threadVars
    <2> QED
      BY <2>1, <2>3 DEF TypeInv
  <1>6. CASE NextPartition
    <2>1. TypeOK'
      BY <1>0, <1>6 DEF TypeOK, NextPartition, Register, SetSession,
             threadVars, FaultKinds
    <2>2. LoopInv'
      BY <1>0, <1>2, <1>3, <1>6 DEF LoopInv, Lives, NextPartition, threadVars
    <2> QED
      BY <2>1, <2>2 DEF TypeInv
  <1>7. CASE EndLoop
    <2>1. TypeOK'
      BY <1>0, <1>7 DEF TypeOK, EndLoop, threadVars
    <2>2. LoopInv'
      BY <1>0, <1>2, <1>3, <1>7 DEF LoopInv, Lives, EndLoop, threadVars
    <2> QED
      BY <2>1, <2>2 DEF TypeInv
  <1>8. CASE CheckInterrupt
    <2>1. CASE mainSig = "empty" /\ errs = {}
      <3>1. /\ pc = "check" /\ pc' = "loop" /\ idx \in Thread
            /\ wg' = wg + 1 /\ idx' = idx + 1
            /\ tpc' = [tpc EXCEPT ![idx] = "next"]
            /\ left' = [left EXCEPT ![idx] = Partition(idx)]
            /\ mainSig' = "empty"
            /\ UNCHANGED <<threads, folders, listing, begun, session, sig,
                           errs, result, signals>>
        BY <1>0, <1>1, <1>8, <2>1 DEF CheckInterrupt, LoopInv, TypeOK, Thread
      <3>2. /\ idx < NumPartitions /\ tpc[idx] = "idle"
            /\ wg = Cardinality(Running)
        BY <1>0, <3>1 DEF LoopInv, Lives, Thread
      <3>3. Running' = Running \cup {idx} /\ idx \notin Running
        BY <1>0, <3>1, <3>2, RunningStep DEF Running
      <3>4. wg' = Cardinality(Running')
        <4>1. IsFiniteSet(Running)
          BY ThreadCount DEF Running
        <4> QED
          BY <3>1, <3>2, <3>3, <4>1, FS_AddElement
      <3>5. wg' \in 0..MaxFolders
        BY <3>4, ThreadCount DEF Running
      <3>6. left' \in [Thread -> SUBSET Folder]
        BY <1>0, <3>1, PartitionType DEF TypeOK
      <3>7. TypeOK'
        BY <1>0, <1>1, <3>1, <3>2, <3>5, <3>6 DEF TypeOK
      <3>8. \A k \in Thread : tpc'[k] = "idle" <=> k >= idx'
        BY <1>0, <3>1, <3>2 DEF LoopInv, Lives, TypeOK, Thread
      <3>9. LoopInv'
        BY <1>0, <1>1, <1>2, <3>1, <3>2, <3>4, <3>8
           DEF LoopInv, Lives, TypeOK
      <3> QED
        BY <3>7, <3>9 DEF TypeInv
    <2>2. CASE ~(mainSig = "empty" /\ errs = {})
      <3>1. TypeOK'
        BY <1>0, <1>8, <2>2 DEF TypeOK, CheckInterrupt
      <3>2. LoopInv'
        BY <1>0, <1>2, <1>3, <1>8, <2>2 DEF LoopInv, Lives, CheckInterrupt
      <3> QED
        BY <3>1, <3>2 DEF TypeInv
    <2> QED
      BY <2>1, <2>2
  <1>9. CASE Abort
    <2>1. TypeOK'
      <3>1. /\ sig' \in [Thread -> {"none", "empty", "full"}]
            /\ session' \in [Thread -> {"none", "nil", "up", "closed"}]
            /\ errs' \subseteq FaultKinds \cup {"interrupt", "stopping"}
        <4>1. CASE session[idx] = "nil"
          BY <1>0, <1>9, <4>1 DEF TypeOK, Abort
        <4>2. CASE session[idx] # "nil"
          <5>1. Logout(idx, {"stopping"})
            BY <1>9, <4>2 DEF Abort
          <5> QED
            BY <1>0, <5>1 DEF TypeOK, Logout, SetSession, FaultKinds
        <4> QED
          BY <4>1, <4>2
      <3>2. result' \in {"none", "ok", "error", "panic"}
        BY <1>0, <1>9 DEF TypeOK, Abort
      <3> QED
        BY <1>0, <1>9, <3>1, <3>2 DEF TypeOK, Abort, threadVars
    <2>2. LoopInv'
      BY <1>0, <1>2, <1>3, <1>9 DEF LoopInv, Lives, Abort, threadVars
    <2> QED
      BY <2>1, <2>2 DEF TypeInv
  <1>10. CASE WaitAll
    <2>1. TypeOK'
      BY <1>0, <1>10 DEF TypeOK, WaitAll, threadVars
    <2>2. Running = {}
      BY <1>0, <1>10, ThreadCount DEF Running, LoopInv, Lives, WaitAll, AllDone
    <2>3. LoopInv'
      BY <1>0, <1>2, <1>3, <1>10, <2>2 DEF LoopInv, Lives, WaitAll, threadVars
    <2> QED
      BY <2>1, <2>3 DEF TypeInv
  <1>11. CASE MainLogout
    <2>1. TypeOK'
      BY <1>0, <1>11 DEF TypeOK, MainLogout, Logout, SetSession, threadVars,
             FaultKinds
    <2>2. LoopInv'
      BY <1>0, <1>2, <1>3, <1>11 DEF LoopInv, Lives, MainLogout, threadVars
    <2> QED
      BY <2>1, <2>2 DEF TypeInv
  <1>12. CASE Return
    <2>1. TypeOK'
      BY <1>0, <1>12 DEF TypeOK, Return, threadVars
    <2>2. LoopInv'
      BY <1>0, <1>2, <1>3, <1>12 DEF LoopInv, Lives, Return, threadVars
    <2> QED
      BY <2>1, <2>2 DEF TypeInv
  <1>13. ASSUME NEW k \in Thread, BeginFolder(k) PROVE TypeInv'
    <2>1. left[k] # {} /\ Min(left[k]) \in Folder
      BY <1>0, <1>13, LeastLeft DEF BeginFolder
    <2>2. TypeOK'
      BY <1>0, <1>13, <2>1 DEF TypeOK, BeginFolder
    <2>3. UNCHANGED Running
      BY <1>0, <1>13, RunningStep
    <2>4. \A j \in Thread : tpc'[j] = "idle" <=> tpc[j] = "idle"
      BY <1>0, <1>13 DEF TypeOK, BeginFolder
    <2>5. pc \notin {"login", "list"}
      BY <1>0, <1>13 DEF LoopInv, Lives, Thread, BeginFolder
    <2>6. LoopInv'
      BY <1>0, <1>2, <1>13, <2>3, <2>4, <2>5 DEF LoopInv, Lives, BeginFolder
    <2> QED
      BY <2>2, <2>6 DEF TypeInv
  <1>14. ASSUME NEW k \in Thread, EndFolder(k) PROVE TypeInv'
    <2>1. TypeOK'
      <3>1. /\ left' \in [Thread -> SUBSET Folder]
            /\ tpc' \in [Thread -> {"idle", "next", "download", "done"}]
        BY <1>0, <1>14 DEF TypeOK, EndFolder
      <3>2. errs' \subseteq FaultKinds \cup {"interrupt", "stopping"}
        BY <1>0, <1>14 DEF TypeOK, EndFolder, FaultKinds
      <3>3. sig' \in [Thread -> {"none", "empty", "full"}]
        BY <1>0, <1>14 DEF TypeOK, EndFolder
      <3> QED
        BY <1>0, <1>14, <3>1, <3>2, <3>3 DEF TypeOK, EndFolder
    <2>2. UNCHANGED Running
      BY <1>0, <1>14, RunningStep
    <2>3. \A j \in Thread : tpc'[j] = "idle" <=> tpc[j] = "idle"
      BY <1>0, <1>14 DEF TypeOK, EndFolder
    <2>4. pc \notin {"login", "list"}
      BY <1>0, <1>14 DEF LoopInv, Lives, Thread, EndFolder
    <2>5. LoopInv'
      BY <1>0, <1>2, <1>14, <2>2, <2>3, <2>4 DEF LoopInv, Lives, EndFolder
    <2> QED
      BY <2>1, <2>5 DEF TypeInv
  <1>15. ASSUME NEW k \in Thread, EndThread(k) PROVE TypeInv'
    <2>1. /\ Running' = Running \ {k} /\ k \in Running
          /\ tpc' = [tpc EXCEPT ![k] = "done"] /\ wg' = wg - 1
          /\ UNCHANGED <<threads, folders, listing, pc, idx, left, begun,
                         mainSig, result, signals>>
      BY <1>0, <1>15, RunningStep DEF EndThread
    <2>2. Lives /\ wg = Cardinality(Running)
      BY <1>0, <2>1 DEF LoopInv, Lives
    <2>3. wg' = Cardinality(Running')
      <3>1. IsFiniteSet(Running)
        BY ThreadCount DEF Running
      <3> QED
        BY <2>1, <2>2, <3>1, FS_RemoveElement
    <2>4. wg' \in 0..MaxFolders
      BY <2>3, ThreadCount DEF Running
    <2>5. TypeOK'
      <3>1. /\ sig' \in [Thread -> {"none", "empty", "full"}]
            /\ session' \in [Thread -> {"none", "nil", "up", "closed"}]
            /\ errs' \subseteq FaultKinds \cup {"interrupt", "stopping"}
        BY <1>0, <1>15 DEF TypeOK, EndThread, Logout, SetSession, FaultKinds
      <3> QED
        BY <1>0, <2>1, <2>4, <3>1 DEF TypeOK
    <2>6. \A j \in Thread : tpc'[j] = "idle" <=> tpc[j] = "idle"
      BY <1>0, <2>1 DEF TypeOK, Running
    <2>7. pc \notin {"login", "list"}
      BY <1>0, <2>1 DEF LoopInv, Lives, Running, Thread
    <2>8. LoopInv'
      BY <1>0, <1>2, <2>1, <2>2, <2>3, <2>6, <2>7 DEF LoopInv, Lives
    <2> QED
      BY <2>5, <2>8 DEF TypeInv
  <1>16. CASE Signal
    <2>1. TypeOK'
      BY <1>0, <1>16 DEF TypeOK, Signal
    <2>2. CASE mainSig = "none" /\ Registered = {}
      <3>1. pc' = "killed" /\ Running' = {} /\ UNCHANGED <<threads, folders, idx>>
        BY <1>16, <2>2 DEF Signal, Running
      <3> QED
        BY <1>0, <1>2, <2>1, <3>1 DEF TypeInv, LoopInv, Lives
    <2>3. CASE ~(mainSig = "none" /\ Registered = {})
      BY <1>0, <1>2, <1>3, <1>16, <2>1, <2>3
         DEF TypeInv, LoopInv, Lives, Signal
    <2> QED
      BY <2>2, <2>3
  <1>17. CASE UNCHANGED vars
    <2>1. TypeOK'
      BY <1>0, <1>17 DEF TypeOK, vars, threadVars
    <2>2. LoopInv'
      BY <1>0, <1>2, <1>3, <1>17 DEF LoopInv, Lives, vars, threadVars
    <2> QED
      BY <2>1, <2>2 DEF TypeInv
  <1> QED
    BY <1>4, <1>5, <1>6, <1>7, <1>8, <1>9, <1>10, <1>11, <1>12, <1>13, <1>14,
       <1>15, <1>16, <1>17 DEF Next, Main, Worker

\* The types are what the module says, for any number of folders and threads.
THEOREM TypeCorrect == Spec => []TypeOK
  <1>1. TypeInv => TypeOK
    BY DEF TypeInv
  <1> QED
    BY <1>1, TypeInvInit, TypeInvNext, PTL DEF Spec

\* The loop goes over the partitions and no further, and the group is waited for only
\* while a thread is in it that has a folder to begin or to end, or to leave.
WaitsForThreads ==
    /\ pc = "loop" => idx \in 0..NumPartitions
    /\ pc = "wait" => AllDone \/ \E k \in Thread : tpc[k] \in {"next", "download"}

\* DownloadFolder is not left waiting by its threads, whatever the numbers of folders
\* and threads and wherever the loop was given up (wg.Add, wg.Done, wg.Wait).
THEOREM ThreadsNeverStuck == Spec => []WaitsForThreads
  <1>1. TypeInv => WaitsForThreads
    <2> SUFFICES ASSUME TypeInv PROVE WaitsForThreads
      OBVIOUS
    <2>1. pc = "loop" => idx \in 0..NumPartitions
      BY PartitionsBound DEF TypeInv, TypeOK, LoopInv
    <2>2. pc = "wait" => AllDone \/ Running # {}
      BY FS_EmptySet DEF TypeInv, LoopInv, Lives, AllDone
    <2> QED
      BY <2>1, <2>2 DEF WaitsForThreads, Running
  <1> QED
    BY <1>1, TypeInvInit, TypeInvNext, PTL DEF Spec

-----------------------------------------------------------------------------
(***************************************************************************)
(* The sessions.                                                           *)
(***************************************************************************)

\* No session is open before the login.
LEMMA SessionInvInit == Init => SessionInv
  BY DEF Init, SessionInv, Running

\* A logout closes one session and touches no other.
LEMMA LogoutCloses ==
  ASSUME TypeOK, NEW k \in Thread, NEW added, Logout(k, added)
  PROVE  /\ session'[k] = "closed"
         /\ \A j \in Thread \ {k} : session'[j] = session[j]
         /\ errs \cup added \subseteq errs'
  BY DEF TypeOK, Logout, SetSession

\* A thread is started only with a session, and its own is closed only when it
\* has ended; mainOps, which thread 0 borrows, is closed by a given-up loop when
\* no thread was started, and else after all have been waited for.
LEMMA SessionInvNext == TypeInv /\ SessionInv /\ [Next]_vars => SessionInv'
  <1> SUFFICES ASSUME TypeInv, SessionInv, [Next]_vars PROVE SessionInv'
    OBVIOUS
  <1>0. TypeOK /\ LoopInv
    BY DEF TypeInv
  <1>1. /\ NumPartitions \in 0..MaxFolders /\ 0 \in Thread
        /\ \A k \in Thread : k \in Nat
        /\ idx \in Nat /\ Running \subseteq Thread
        /\ idx < NumPartitions => idx \in Thread
    BY <1>0, PartitionsBound, BoundsAssumption
       DEF Thread, TypeOK, Running
  <1>2. ASSUME UNCHANGED tpc PROVE UNCHANGED Running
    BY <1>2 DEF Running
  <1>3. Lives => \A k \in Running : k < idx
    BY <1>0, <1>1 DEF LoopInv, Running
  <1>4. CASE Authenticate
    <2>1. Running = {} /\ UNCHANGED Running
      BY <1>1, <1>2, <1>3, <1>4 DEF Authenticate, Lives, threadVars, LoopInv,
         TypeInv
    <2>2. \A k \in Thread \ {0} : session'[k] = session[k]
      BY <1>0, <1>4 DEF TypeOK, Authenticate, SetSession
    <2>3. \/ pc' = "list" /\ session'[0] = "up"
          \/ pc' = "return" /\ session'[0] = "nil"
      BY <1>0, <1>1, <1>4 DEF TypeOK, Authenticate, SetSession
    <2>4. pc = "login"
      BY <1>4 DEF Authenticate
    <2> QED
      BY <1>0, <1>1, <2>1, <2>2, <2>3, <2>4 DEF SessionInv, Lives
  <1>5. CASE ListFolders
    BY <1>2, <1>5 DEF SessionInv, Lives, ListFolders, threadVars
  <1>6. CASE NextPartition
    <2>1. /\ pc = "loop" /\ pc' = "check" /\ idx \in Thread
          /\ UNCHANGED <<idx, Running>>
      BY <1>1, <1>2, <1>6 DEF NextPartition, threadVars
    <2>2. \A k \in Thread : k # idx => session'[k] = session[k]
      BY <1>0, <1>6 DEF TypeOK, NextPartition, SetSession
    <2>3. CASE idx = 0
      BY <1>6, <2>1, <2>3 DEF NextPartition, SessionInv, Lives
    <2>4. CASE idx # 0
      <3>1. session'[idx] = "up" \/ errs' # {}
        BY <1>0, <1>6, <2>1, <2>4 DEF TypeOK, NextPartition, SetSession
      <3>2. session'[0] = "up"
        BY <1>1, <2>1, <2>2, <2>4 DEF SessionInv
      <3>3. \A k \in Running' : session'[k] = "up"
        BY <1>1, <1>3, <2>1, <2>2 DEF SessionInv, Lives
      <3>4. \A k \in Thread : session'[k] = "up" =>
              k \in Running' \/ k = 0 \/ k = idx'
        BY <2>1, <2>2 DEF SessionInv, Lives
      <3> QED
        BY <2>1, <3>1, <3>2, <3>3, <3>4 DEF SessionInv, Lives
    <2> QED
      BY <2>3, <2>4
  <1>7. CASE EndLoop
    BY <1>2, <1>7 DEF SessionInv, Lives, EndLoop, threadVars
  <1>8. CASE CheckInterrupt
    <2>1. CASE mainSig = "empty" /\ errs = {}
      <3>1. /\ pc = "check" /\ pc' = "loop" /\ idx \in Thread
            /\ tpc' = [tpc EXCEPT ![idx] = "next"]
            /\ UNCHANGED <<session, errs>>
        BY <1>0, <1>1, <1>8, <2>1 DEF CheckInterrupt, LoopInv
      <3>2. Running' = Running \cup {idx}
        BY <1>0, <3>1, RunningStep
      <3>3. session[idx] = "up" /\ session[0] = "up"
        BY <2>1, <3>1 DEF SessionInv
      <3> QED
        BY <3>1, <3>2, <3>3 DEF SessionInv, Lives
    <2>2. CASE ~(mainSig = "empty" /\ errs = {})
      BY <1>2, <1>8, <2>2 DEF SessionInv, Lives, CheckInterrupt
    <2> QED
      BY <2>1, <2>2
  <1>9. CASE Abort
    <2>1. /\ pc = "abort" /\ pc' = "wait" /\ idx \in Thread
          /\ UNCHANGED <<idx, Running>>
      BY <1>0, <1>1, <1>2, <1>9 DEF Abort, LoopInv, threadVars
    <2>2. /\ session'[idx] # "up"
          /\ \A k \in Thread \ {idx} : session'[k] = session[k]
      <3>1. CASE session[idx] = "nil"
        BY <1>9, <3>1 DEF Abort
      <3>2. CASE session[idx] # "nil"
        BY <1>0, <1>9, <2>1, <3>2, LogoutCloses DEF Abort
      <3> QED
        BY <3>1, <3>2
    <2>3. idx \notin Running /\ Running \subseteq Thread
      BY <1>1, <1>3, <2>1 DEF Lives, Running
    <2> QED
      BY <2>1, <2>2, <2>3 DEF SessionInv, Lives
  <1>10. CASE WaitAll
    BY <1>2, <1>10 DEF SessionInv, Lives, WaitAll, threadVars
  <1>11. CASE MainLogout
    <2>1. /\ pc = "logout" /\ pc' = "return" /\ Running' = {} /\ Running = {}
          /\ Logout(0, {})
      BY <1>0, <1>2, <1>11 DEF MainLogout, LoopInv, threadVars
    <2>2. /\ session'[0] = "closed"
          /\ \A k \in Thread \ {0} : session'[k] = session[k]
      BY <1>0, <1>1, <2>1, LogoutCloses
    <2> QED
      BY <2>1, <2>2 DEF SessionInv, Lives
  <1>12. CASE Return
    BY <1>2, <1>12 DEF SessionInv, Lives, Return, threadVars
  <1>13. ASSUME NEW k \in Thread, BeginFolder(k) \/ EndFolder(k)
         PROVE  SessionInv'
    <2>1. UNCHANGED <<Running, session, pc, idx>>
      BY <1>0, <1>13, RunningStep DEF BeginFolder, EndFolder
    <2>2. errs \subseteq errs'
      BY <1>13 DEF BeginFolder, EndFolder
    <2> QED
      BY <2>1, <2>2 DEF SessionInv, Lives
  <1>14. ASSUME NEW k \in Thread, EndThread(k) PROVE SessionInv'
    <2>1. /\ Running' = Running \ {k} /\ k \in Running /\ UNCHANGED <<pc, idx>>
      BY <1>0, <1>14, RunningStep DEF EndThread
    <2>2. /\ errs \subseteq errs'
          /\ \A j \in Thread \ {k} : session'[j] = session[j]
          /\ session'[k] = IF k > 0 THEN "closed" ELSE session[k]
      <3>1. CASE k > 0
        BY <1>0, <1>14, <3>1, LogoutCloses DEF EndThread
      <3>2. CASE ~(k > 0)
        BY <1>14, <3>2 DEF EndThread
      <3> QED
        BY <3>1, <3>2
    <2>3. Lives /\ pc \notin {"return", "ended"} /\ k < idx
      BY <1>0, <1>3, <2>1 DEF LoopInv, Lives
    <2>4. \A j \in Running' : session'[j] = "up"
      BY <2>1, <2>2 DEF SessionInv, Running
    <2>5. pc \in {"list", "loop", "check"} => session'[0] = "up"
      BY <1>1, <2>2 DEF SessionInv
    <2>6. pc = "check" => session'[idx] = "up" \/ errs' # {}
      BY <1>0, <1>1, <2>2, <2>3 DEF SessionInv, LoopInv
    <2>7. \A j \in Thread : session'[j] = "up" =>
            \/ j \in Running' \/ j = 0
            \/ j = idx /\ pc \in {"check", "abort"}
      <3> SUFFICES ASSUME NEW j \in Thread, session'[j] = "up"
                   PROVE  \/ j \in Running' \/ j = 0
                          \/ j = idx /\ pc \in {"check", "abort"}
        OBVIOUS
      <3>1. CASE j = k
        BY <1>1, <2>2, <3>1
      <3>2. CASE j # k
        <4>1. session[j] = "up" /\ (j \in Running => j \in Running')
          BY <2>1, <2>2, <3>2
        <4> QED
          BY <2>3, <4>1 DEF SessionInv
      <3> QED
        BY <3>1, <3>2
    <2> QED
      BY <2>1, <2>3, <2>4, <2>5, <2>6, <2>7 DEF SessionInv, Lives
  <1>15. CASE Signal
    <2>1. CASE mainSig = "none" /\ Registered = {}
      BY <1>15, <2>1 DEF Signal, SessionInv, Lives, Running
    <2>2. CASE ~(mainSig = "none" /\ Registered = {})
      BY <1>2, <1>15, <2>2 DEF Signal, SessionInv, Lives
    <2> QED
      BY <2>1, <2>2
  <1>16. CASE UNCHANGED vars
    BY <1>2, <1>16 DEF vars, threadVars, SessionInv, Lives
  <1> QED
    BY <1>4, <1>5, <1>6, <1>7, <1>8, <1>9, <1>10, <1>11, <1>12, <1>13, <1>14,
       <1>15, <1>16 DEF Next, Main, Worker

\* A download always has an open session below it, although thread 0 borrows one
\* that DownloadFolder's deferred logout closes.
THEOREM DownloadHasSession == Spec => []DownloadsHaveSession
  <1>1. SessionInv => DownloadsHaveSession
    BY DEF SessionInv, Running, DownloadsHaveSession
  <1> QED
    BY <1>1, TypeInvInit, TypeInvNext, SessionInvInit, SessionInvNext, PTL
       DEF Spec

\* When DownloadFolder has ended, every session it opened is closed.
THEOREM AllSessionsClosed == Spec => []SessionsClosed
  <1>1. TypeInv /\ SessionInv => SessionsClosed
    BY DEF TypeInv, LoopInv, SessionInv, SessionsClosed, Lives
  <1> QED
    BY <1>1, TypeInvInit, TypeInvNext, SessionInvInit, SessionInvNext, PTL
       DEF Spec

-----------------------------------------------------------------------------
(***************************************************************************)
(* The interrupts.                                                         *)
(***************************************************************************)

\* DownloadFolder's interrupter is registered before anything else is done.
LEMMA SignalInvInit == Init => SignalInv
  BY BoundsAssumption DEF Init, SignalInv, FirstInterruptIsGraceful

\* An interrupt fills every registered interrupter, and an interrupter that has
\* been polled or dropped is not empty either; a thread is started only when
\* DownloadFolder's is empty, that is, before the first interrupt.
LEMMA SignalInvNext == TypeInv /\ SignalInv /\ [Next]_vars => SignalInv'
  <1> SUFFICES ASSUME TypeInv, SignalInv, [Next]_vars PROVE SignalInv'
    OBVIOUS
  <1>0. TypeOK /\ LoopInv /\ signals \in Nat /\ Running \subseteq Thread
    BY BoundsAssumption DEF TypeInv, TypeOK, Running
  <1>1. ASSUME UNCHANGED tpc PROVE UNCHANGED Running
    BY <1>1 DEF Running
  <1>2. \A k \in Running : Lives => k < idx
    BY <1>0, BoundsAssumption DEF LoopInv, Running, Thread, TypeOK
  <1>3. ASSUME UNCHANGED <<signals, mainSig>>, pc' # "killed",
               pc' = "ended" <=> pc = "ended", Running' \subseteq Running,
               \A k \in Running' : sig'[k] = "empty" => sig[k] = "empty"
        PROVE  SignalInv'
    BY <1>3 DEF SignalInv, FirstInterruptIsGraceful
  <1>4. CASE Authenticate
    <2>1. Running = {} /\ UNCHANGED Running
      BY <1>0, <1>1, <1>2, <1>4 DEF Authenticate, Lives, LoopInv, threadVars,
             Running, Thread
    <2> QED
      BY <1>3, <1>4, <2>1 DEF Authenticate
  <1>5. CASE ListFolders \/ EndLoop \/ WaitAll
    BY <1>1, <1>3, <1>5 DEF ListFolders, EndLoop, WaitAll, threadVars
  <1>6. CASE NextPartition
    <2>1. /\ pc = "loop" /\ pc' = "check" /\ UNCHANGED <<Running, signals, mainSig>>
          /\ \A k \in Thread : k # idx => sig'[k] = sig[k]
      BY <1>0, <1>1, <1>6 DEF NextPartition, Register, TypeOK, threadVars
    <2>2. idx \notin Running
      BY <1>0, <1>2, <2>1 DEF Lives, TypeOK
    <2> QED
      BY <1>0, <1>3, <2>1, <2>2
  <1>7. CASE CheckInterrupt
    <2>1. CASE mainSig = "empty" /\ errs = {}
      <3>1. signals = 0 /\ UNCHANGED <<signals, mainSig>> /\ pc' = "loop"
        BY <1>0, <1>7, <2>1 DEF CheckInterrupt, SignalInv
      <3> QED
        BY <2>1, <3>1 DEF SignalInv, FirstInterruptIsGraceful
    <2>2. CASE ~(mainSig = "empty" /\ errs = {})
      <3>1. /\ pc = "check" /\ pc' = "abort"
            /\ UNCHANGED <<signals, Running, sig>>
            /\ mainSig' = IF mainSig = "empty" THEN "empty" ELSE "none"
        BY <1>1, <1>7, <2>2 DEF CheckInterrupt
      <3> QED
        BY <3>1 DEF SignalInv, FirstInterruptIsGraceful
    <2> QED
      BY <2>1, <2>2
  <1>8. CASE Abort \/ MainLogout
    <2>1. /\ UNCHANGED <<Running, signals, mainSig>>
          /\ pc \in {"abort", "logout"} /\ pc' \in {"wait", "return"}
      BY <1>1, <1>8 DEF Abort, MainLogout, threadVars
    <2>2. \A k \in Thread : sig'[k] = sig[k] \/ sig'[k] = "none"
      BY <1>0, <1>8 DEF Abort, MainLogout, Logout, TypeOK
    <2> QED
      BY <1>0, <1>3, <2>1, <2>2
  <1>9. CASE Return
    BY <1>1, <1>9 DEF Return, SignalInv, FirstInterruptIsGraceful, threadVars
  <1>10. ASSUME NEW k \in Thread, Worker(k) PROVE SignalInv'
    <2>1. Running' \subseteq Running /\ k \in Running
      BY <1>0, <1>10, RunningStep DEF Worker
    <2>2. /\ UNCHANGED <<signals, mainSig, pc>> /\ pc # "killed"
      BY <1>0, <1>10, <2>1 DEF Worker, BeginFolder, EndFolder, EndThread,
             LoopInv
    <2>3. \A j \in Thread : sig'[j] = sig[j] \/ sig'[j] = "none"
      <3>1. UNCHANGED sig \/ sig' = [sig EXCEPT ![k] = "none"]
        BY <1>10 DEF Worker, BeginFolder, EndFolder, EndThread, Logout
      <3> QED
        BY <1>0, <3>1 DEF TypeOK
    <2> QED
      BY <1>0, <1>3, <2>1, <2>2, <2>3
  <1>11. CASE Signal
    <2>1. signals' = signals + 1 /\ pc \notin {"ended", "killed"}
      BY <1>11 DEF Signal
    <2>2. CASE mainSig = "none" /\ Registered = {}
      <3>1. signals > 0
        BY <1>0, <2>1, <2>2 DEF SignalInv
      <3>2. UNCHANGED mainSig /\ Running' = {}
        BY <1>11, <2>2 DEF Signal, Running
      <3> QED
        BY <1>0, <2>1, <2>2, <3>1, <3>2 DEF SignalInv, FirstInterruptIsGraceful
    <2>3. CASE ~(mainSig = "none" /\ Registered = {})
      <3>1. /\ mainSig' # "empty" /\ pc' # "killed" /\ UNCHANGED Running
        BY <1>1, <1>11, <2>1, <2>3 DEF Signal
      <3>2. \A k \in Thread : sig'[k] # "empty"
        BY <1>11, <2>3 DEF Signal
      <3> QED
        BY <1>0, <2>1, <3>1, <3>2 DEF SignalInv, FirstInterruptIsGraceful
    <2> QED
      BY <2>2, <2>3
  <1>12. CASE UNCHANGED vars
    BY <1>1, <1>12 DEF vars, threadVars, SignalInv, FirstInterruptIsGraceful
  <1> QED
    BY <1>4, <1>5, <1>6, <1>7, <1>8, <1>9, <1>10, <1>11, <1>12 DEF Next, Main

\* A single interrupt never kills the process.
THEOREM FirstIsGraceful == Spec => []FirstInterruptIsGraceful
  <1>1. SignalInv => FirstInterruptIsGraceful
    BY DEF SignalInv
  <1> QED
    BY <1>1, TypeInvInit, TypeInvNext, SignalInvInit, SignalInvNext, PTL
       DEF Spec

\* Once the user has interrupted, no thread begins another folder.
THEOREM NothingBegunAfterInterrupt == Spec => NoFolderAfterInterrupt
  <1>1. ASSUME TypeInv, SignalInv, [Next]_vars
        PROVE  [signals > 0 => UNCHANGED begun]_vars
    <2> SUFFICES ASSUME signals > 0, ~UNCHANGED begun PROVE FALSE
      OBVIOUS
    <2>1. PICK k \in Thread : BeginFolder(k)
      BY <1>1 DEF Next, Main, Worker, Authenticate, ListFolders,
             NextPartition, EndLoop, CheckInterrupt, Abort, WaitAll,
             MainLogout, Return, EndFolder, EndThread, Signal, vars, threadVars
    <2>2. k \in Running /\ sig[k] = "empty"
      BY <2>1 DEF BeginFolder, HasInterrupt, Running
    <2> QED
      BY <1>1, <2>2 DEF SignalInv
  <1> QED
    BY <1>1, TypeInvInit, TypeInvNext, SignalInvInit, SignalInvNext, PTL
       DEF Spec, NoFolderAfterInterrupt

-----------------------------------------------------------------------------
(***************************************************************************)
(* The folders.                                                            *)
(***************************************************************************)

\* No folder has been begun before the first thread.
LEMMA BegunInvInit == Init => BegunInv
  BY DEF Init, BegunInv, OnePipelinePerFolder

\* Each folder is in one partition only, so that a thread that begins one takes
\* it from nobody else, and it is begun for the first time.
LEMMA BegunInvNext == TypeInv /\ BegunInv /\ [Next]_vars => BegunInv'
  <1> SUFFICES ASSUME TypeInv, BegunInv, [Next]_vars PROVE BegunInv'
    OBVIOUS
  <1>0. /\ TypeOK /\ LoopInv /\ idx \in Nat /\ idx <= NumPartitions
        /\ NumPartitions \in 0..folders /\ folders \in Nat
        /\ Thread \subseteq Nat /\ Folder \subseteq Nat
        /\ begun \in [Folder -> Nat]
    BY PartitionsBound, BoundsAssumption
       DEF TypeInv, LoopInv, TypeOK, Thread, Folder
  <1>1. ASSUME UNCHANGED <<threads, folders>>
        PROVE  UNCHANGED NumPartitions /\ \A k \in Thread : UNCHANGED Partition(k)
    BY <1>1 DEF NumPartitions, Partition
  <1>2. ASSUME UNCHANGED <<threads, folders, idx, tpc, left, begun>>,
               pc = "killed" => pc' = "killed"
        PROVE  BegunInv'
    BY <1>1, <1>2 DEF BegunInv, OnePipelinePerFolder, Lives
  <1>3. CASE ListFolders
    <2>1. /\ folders = 0 /\ idx = 0 /\ UNCHANGED <<idx, tpc, left, begun>>
      BY <1>0, <1>3 DEF ListFolders, LoopInv, threadVars
    <2>2. \A k \in Thread : left[k] = {} /\ tpc[k] # "download"
      BY <2>1 DEF BegunInv, Partition
    <2>3. \A f \in Folder : begun[f] = 0
      BY <1>0, <2>1 DEF BegunInv
    <2> QED
      BY <2>1, <2>2, <2>3 DEF BegunInv, OnePipelinePerFolder
  <1>4. CASE CheckInterrupt
    <2>1. CASE mainSig = "empty" /\ errs = {}
      <3>1. /\ pc = "check" /\ idx \in Thread /\ idx' = idx + 1
            /\ tpc' = [tpc EXCEPT ![idx] = "next"]
            /\ left' = [left EXCEPT ![idx] = Partition(idx)]
            /\ UNCHANGED <<threads, folders, begun>>
        BY <1>0, <1>4, <2>1, PartitionsBound, BoundsAssumption
           DEF CheckInterrupt, LoopInv, Thread
      <3>2. \A k \in Thread : k # idx => tpc'[k] = tpc[k] /\ left'[k] = left[k]
        BY <1>0, <3>1 DEF TypeOK
      <3>3. tpc'[idx] = "next" /\ left'[idx] = Partition(idx)
        BY <1>0, <3>1 DEF TypeOK
      <3>4. \A f \in Partition(idx) : begun[f] = 0
        <4> SUFFICES ASSUME NEW f \in Partition(idx) PROVE begun[f] = 0
          OBVIOUS
        <4>1. f \in Folder /\ f % NumPartitions = idx
          BY <1>0, <3>1, PartitionType DEF Partition
        <4> QED
          BY <1>0, <4>1 DEF BegunInv
      <3>5. \A k \in Thread : left'[k] \subseteq Partition(k)'
        BY <1>1, <3>1, <3>2, <3>3 DEF BegunInv
      <3>6. \A f \in Folder :
              begun'[f] # 0 => f < folders' /\ (f % NumPartitions < idx)'
        <4> SUFFICES ASSUME NEW f \in Folder, begun[f] # 0
                     PROVE  f < folders /\ f % NumPartitions < idx + 1
          BY <1>1, <3>1
        <4>1. f \in 0..(folders - 1) /\ f % NumPartitions < idx
          BY <1>0 DEF BegunInv
        <4>2. f % NumPartitions \in Nat
          BY <1>0, <4>1, PartitionOwner
        <4> QED
          BY <1>0, <4>1, <4>2
      <3>7. \A k \in Thread : \A f \in left'[k] :
              Lives' /\ begun'[f] # 0 =>
                tpc'[k] = "download" /\ f = Min(left'[k])
        BY <3>1, <3>2, <3>3, <3>4 DEF BegunInv, Lives
      <3>8. \A k \in Thread : tpc'[k] = "download" =>
              left'[k] # {} /\ begun'[Min(left'[k])] = 1
        BY <3>1, <3>2, <3>3 DEF BegunInv
      <3>9. OnePipelinePerFolder'
        BY <3>1 DEF BegunInv, OnePipelinePerFolder
      <3> QED
        BY <3>5, <3>6, <3>7, <3>8, <3>9 DEF BegunInv
    <2>2. CASE ~(mainSig = "empty" /\ errs = {})
      BY <1>2, <1>4, <2>2 DEF CheckInterrupt
    <2> QED
      BY <2>1, <2>2
  <1>5. ASSUME NEW k \in Thread, BeginFolder(k) PROVE BegunInv'
    <2> DEFINE f == Min(left[k])
    <2>1. /\ tpc[k] = "next" /\ Lives /\ f \in left[k] /\ f \in Folder
          /\ UNCHANGED <<threads, folders, idx, pc>>
      <3>1. tpc[k] = "next" /\ left[k] # {}
            /\ UNCHANGED <<threads, folders, idx, pc>>
        BY <1>5 DEF BeginFolder
      <3>2. Lives
        BY <1>0, <3>1 DEF LoopInv, Lives, Running
      <3> QED
        BY <1>0, <3>1, <3>2, LeastLeft
    <2>2. CASE HasInterrupt(k)
      <3>1. /\ left' = [left EXCEPT ![k] = @ \ {f}] /\ UNCHANGED <<tpc, begun>>
        BY <1>5, <2>2 DEF BeginFolder
      <3>2. /\ left'[k] \subseteq left[k]
            /\ \A j \in Thread : j # k => left'[j] = left[j]
        BY <1>0, <3>1 DEF TypeOK
      <3>3. \A g \in left[k] : begun[g] = 0
        BY <2>1 DEF BegunInv
      <3>4. \A j \in Thread : \A g \in left'[j] :
              begun[g] # 0 => tpc[j] = "download" /\ g = Min(left'[j])
        BY <2>1, <3>2, <3>3 DEF BegunInv
      <3>5. \A j \in Thread : tpc[j] = "download" =>
              left'[j] # {} /\ begun[Min(left'[j])] = 1
        BY <2>1, <3>2 DEF BegunInv
      <3>6. \A j \in Thread : left'[j] \subseteq Partition(j)'
        BY <1>1, <2>1, <3>2 DEF BegunInv
      <3> QED
        BY <1>1, <2>1, <3>1, <3>4, <3>5, <3>6
           DEF BegunInv, OnePipelinePerFolder, Lives
    <2>3. CASE ~HasInterrupt(k)
      <3>1. /\ tpc' = [tpc EXCEPT ![k] = "download"]
            /\ begun' = [begun EXCEPT ![f] = @ + 1] /\ UNCHANGED left
        BY <1>5, <2>3 DEF BeginFolder
      <3>2. begun[f] = 0
        BY <2>1 DEF BegunInv
      <3>3. /\ begun'[f] = 1
            /\ \A g \in Folder : g # f => begun'[g] = begun[g]
        BY <1>0, <2>1, <3>1, <3>2
      <3>4. /\ tpc'[k] = "download"
            /\ \A j \in Thread : j # k => tpc'[j] = tpc[j]
        BY <1>0, <3>1 DEF TypeOK
      <3>5. OnePipelinePerFolder'
        BY <3>3 DEF BegunInv, OnePipelinePerFolder
      <3>6. f \in Partition(k) /\ k < idx
        BY <1>0, <2>1 DEF BegunInv, LoopInv, Lives
      <3>7. f < folders /\ f % NumPartitions < idx
        BY <1>0, <2>1, <3>6 DEF Partition
      <3>8. \A g \in Folder :
              begun'[g] # 0 => g < folders' /\ (g % NumPartitions < idx)'
        BY <1>1, <2>1, <3>3, <3>7 DEF BegunInv
      <3>9. \A j \in Thread : left[j] \subseteq Folder
        BY <1>0 DEF TypeOK
      <3>10. \A j \in Thread : j # k => f \notin left[j]
        BY <3>6 DEF BegunInv, Partition
      <3>11. \A j \in Thread : \A g \in left[j] :
               begun'[g] # 0 => tpc'[j] = "download" /\ g = Min(left[j])
        <4> SUFFICES ASSUME NEW j \in Thread, NEW g \in left[j], begun'[g] # 0
                     PROVE  tpc'[j] = "download" /\ g = Min(left[j])
          OBVIOUS
        <4>1. CASE j = k
          <5>1. begun[g] = 0
            BY <2>1, <4>1 DEF BegunInv
          <5> QED
            BY <3>3, <3>4, <3>9, <4>1, <5>1
        <4>2. CASE j # k
          <5>1. g # f
            BY <3>10, <4>2
          <5>2. begun[g] # 0
            BY <3>3, <3>9, <5>1
          <5> QED
            BY <2>1, <3>4, <4>2, <5>2 DEF BegunInv
        <4> QED
          BY <4>1, <4>2
      <3>12. \A j \in Thread : tpc'[j] = "download" =>
               left[j] # {} /\ begun'[Min(left[j])] = 1
        <4> SUFFICES ASSUME NEW j \in Thread, tpc'[j] = "download"
                     PROVE  left[j] # {} /\ begun'[Min(left[j])] = 1
          OBVIOUS
        <4>1. CASE j = k
          BY <2>1, <3>3, <4>1
        <4>2. CASE j # k
          <5>1. left[j] # {} /\ begun[Min(left[j])] = 1
            BY <3>4, <4>2 DEF BegunInv
          <5>2. Min(left[j]) \in left[j] /\ Min(left[j]) \in Folder
            BY <1>0, <5>1, LeastLeft
          <5>3. Min(left[j]) # f
            BY <3>10, <4>2, <5>2
          <5> QED
            BY <3>3, <5>1, <5>2, <5>3
        <4> QED
          BY <4>1, <4>2
      <3>13. \A j \in Thread : left[j] \subseteq Partition(j)'
        BY <1>1, <2>1 DEF BegunInv
      <3> QED
        BY <3>1, <3>5, <3>8, <3>11, <3>12, <3>13 DEF BegunInv
    <2> QED
      BY <2>2, <2>3
  <1>6. ASSUME NEW k \in Thread, EndFolder(k) PROVE BegunInv'
    <2> DEFINE f == Min(left[k])
    <2>1. /\ tpc[k] = "download" /\ Lives
          /\ left' = [left EXCEPT ![k] = @ \ {f}]
          /\ tpc' = [tpc EXCEPT ![k] = "next"]
          /\ UNCHANGED <<threads, folders, idx, pc, begun>>
      BY <1>0, <1>6 DEF EndFolder, LoopInv, Lives, Running
    <2>2. /\ left'[k] = left[k] \ {f} /\ tpc'[k] = "next"
          /\ \A j \in Thread : j # k => left'[j] = left[j] /\ tpc'[j] = tpc[j]
      BY <1>0, <2>1 DEF TypeOK
    <2>3. \A g \in left'[k] : begun[g] = 0
      BY <2>1, <2>2 DEF BegunInv
    <2>4. \A j \in Thread : \A g \in left'[j] :
            begun[g] # 0 => tpc'[j] = "download" /\ g = Min(left'[j])
      BY <2>1, <2>2, <2>3 DEF BegunInv
    <2>5. \A j \in Thread : tpc'[j] = "download" =>
            left'[j] # {} /\ begun[Min(left'[j])] = 1
      BY <2>2 DEF BegunInv
    <2>6. \A j \in Thread : left'[j] \subseteq Partition(j)'
      BY <1>1, <2>1, <2>2 DEF BegunInv
    <2> QED
      BY <1>1, <2>1, <2>4, <2>5, <2>6 DEF BegunInv, OnePipelinePerFolder
  <1>7. ASSUME NEW k \in Thread, EndThread(k) PROVE BegunInv'
    <2>1. /\ tpc[k] = "next" /\ left[k] = {}
          /\ tpc' = [tpc EXCEPT ![k] = "done"]
          /\ UNCHANGED <<threads, folders, idx, pc, begun, left>>
      BY <1>7 DEF EndThread
    <2>2. /\ tpc'[k] = "done" /\ \A j \in Thread : j # k => tpc'[j] = tpc[j]
      BY <1>0, <2>1 DEF TypeOK
    <2> QED
      BY <1>1, <2>1, <2>2 DEF BegunInv, OnePipelinePerFolder, Lives
  <1>8. CASE Signal
    <2>1. CASE mainSig = "none" /\ Registered = {}
      <3>1. /\ pc' = "killed" /\ \A k \in Thread : tpc'[k] = "done"
            /\ UNCHANGED <<threads, folders, idx, begun, left>>
        BY <1>8, <2>1 DEF Signal
      <3> QED
        BY <1>1, <3>1 DEF BegunInv, OnePipelinePerFolder, Lives
    <2>2. CASE ~(mainSig = "none" /\ Registered = {})
      BY <1>2, <1>8, <2>2 DEF Signal
    <2> QED
      BY <2>1, <2>2
  <1>9. CASE \/ Authenticate \/ NextPartition \/ EndLoop \/ Abort \/ WaitAll
             \/ MainLogout \/ Return \/ UNCHANGED vars
    BY <1>2, <1>9 DEF Authenticate, NextPartition, EndLoop, Abort, WaitAll,
       MainLogout, Return, vars, threadVars
  <1> QED
    BY <1>3, <1>4, <1>5, <1>6, <1>7, <1>8, <1>9 DEF Next, Main, Worker

\* No folder is downloaded twice, at the same time or in turn.
THEOREM OnePipeline == Spec => []OnePipelinePerFolder
  <1>1. BegunInv => OnePipelinePerFolder
    BY DEF BegunInv
  <1> QED
    BY <1>1, TypeInvInit, TypeInvNext, BegunInvInit, BegunInvNext, PTL
       DEF Spec

-----------------------------------------------------------------------------
(***************************************************************************)
(* What a run without an error has done.                                   *)
(***************************************************************************)

\* Nothing has been listed, begun or returned before the first run.
LEMMA CompleteInvInit == Init => CompleteInv
  BY DEF Init, CompleteInv

\* A thread passes over a folder only for an interrupt, which it reports; the
\* loop ends early only with an error, or by unwinding from a call on a nil
\* client.
LEMMA CompleteInvNext ==
  TypeInv /\ BegunInv /\ CompleteInv /\ [Next]_vars => CompleteInv'
  <1> SUFFICES ASSUME TypeInv, BegunInv, CompleteInv, [Next]_vars
               PROVE  CompleteInv'
    OBVIOUS
  <1>0. /\ TypeOK /\ LoopInv /\ idx \in Nat /\ NumPartitions \in Nat
        /\ Thread \subseteq Nat /\ begun \in [Folder -> Nat]
        /\ \A k \in Thread : Partition(k) \subseteq Folder
    BY PartitionsBound, PartitionType, BoundsAssumption
       DEF TypeInv, TypeOK, Thread
  <1>1. ASSUME UNCHANGED <<threads, folders>>
        PROVE  UNCHANGED NumPartitions /\ \A k \in Thread : UNCHANGED Partition(k)
    BY <1>1 DEF NumPartitions, Partition
  <1>2. ASSUME UNCHANGED <<threads, folders, tpc, left, begun>>,
               errs \subseteq errs', pc # "killed", pc' # "killed"
        PROVE  /\ Lives' /\ errs' = {} => \A k \in Thread : tpc'[k] # "idle" =>
                    \A f \in Partition(k)' \ left'[k] : begun'[f] = 1
               /\ Lives' => \A k \in Thread : tpc'[k] = "done" => left'[k] = {}
    BY <1>1, <1>2 DEF CompleteInv, Lives
  <1>3. CASE ListFolders
    <2>1. /\ pc = "list" /\ pc' = "loop" /\ idx = 0
          /\ UNCHANGED <<tpc, left, idx, result>>
      BY <1>0, <1>3 DEF ListFolders, LoopInv, threadVars
    <2>2. \A k \in Thread : tpc[k] = "idle"
      BY <1>0, <2>1 DEF LoopInv, Lives
    <2>3. listing' = "failed" => "list" \in errs'
      BY <1>3 DEF ListFolders
    <2>4. result \in {"none", "panic"}
      BY <2>1 DEF CompleteInv
    <2> QED
      BY <2>1, <2>2, <2>3, <2>4 DEF CompleteInv
  <1>4. CASE Authenticate \/ NextPartition
    <2>1. /\ UNCHANGED <<threads, folders, tpc, left, begun, idx, result, listing>>
          /\ pc \in {"login", "loop"} /\ pc' \in {"list", "return", "check"}
          /\ errs \subseteq errs' /\ (pc' = "return" => errs' # {})
      BY <1>4 DEF Authenticate, NextPartition, threadVars
    <2> QED
      BY <1>2, <2>1 DEF CompleteInv
  <1>5. CASE EndLoop
    <2>1. /\ UNCHANGED <<threads, folders, tpc, left, begun, idx, result, listing,
                         errs>>
          /\ pc = "loop" /\ pc' = "wait" /\ idx = NumPartitions
      BY <1>5 DEF EndLoop, threadVars
    <2> QED
      BY <1>1, <1>2, <2>1 DEF CompleteInv
  <1>6. CASE CheckInterrupt
    <2>1. CASE mainSig = "empty" /\ errs = {}
      <3>1. /\ pc = "check" /\ pc' = "loop" /\ idx \in Thread
            /\ tpc' = [tpc EXCEPT ![idx] = "next"]
            /\ left' = [left EXCEPT ![idx] = Partition(idx)]
            /\ UNCHANGED <<threads, folders, begun, errs, result, listing>>
        BY <1>0, <1>6, <2>1, PartitionsBound, BoundsAssumption
           DEF CheckInterrupt, LoopInv, Thread
      <3>2. /\ tpc'[idx] = "next" /\ left'[idx] = Partition(idx)
            /\ \A k \in Thread :
                 k # idx => tpc'[k] = tpc[k] /\ left'[k] = left[k]
        BY <1>0, <3>1 DEF TypeOK
      <3>3. Lives' /\ errs' = {} => \A k \in Thread : tpc'[k] # "idle" =>
              \A f \in Partition(k)' \ left'[k] : begun'[f] = 1
        BY <1>1, <3>1, <3>2 DEF CompleteInv, Lives
      <3>4. Lives' => \A k \in Thread : tpc'[k] = "done" => left'[k] = {}
        BY <3>1, <3>2 DEF CompleteInv, Lives
      <3> QED
        BY <3>1, <3>3, <3>4 DEF CompleteInv
    <2>2. CASE ~(mainSig = "empty" /\ errs = {})
      <3>1. /\ UNCHANGED <<threads, folders, tpc, left, begun, idx, result,
                           listing, errs>>
            /\ pc = "check" /\ pc' = "abort"
        BY <1>6, <2>2 DEF CheckInterrupt
      <3> QED
        BY <1>2, <3>1 DEF CompleteInv
    <2> QED
      BY <2>1, <2>2
  <1>7. CASE Abort
    <2>1. /\ UNCHANGED <<threads, folders, tpc, left, begun, idx, listing>>
          /\ pc = "abort" /\ pc' = "wait" /\ errs \subseteq errs'
          /\ \/ result' = "panic"
             \/ errs' # {} /\ UNCHANGED result
      BY <1>7 DEF Abort, Logout, threadVars
    <2> QED
      BY <1>2, <2>1 DEF CompleteInv
  <1>8. CASE WaitAll \/ MainLogout
    <2>1. /\ UNCHANGED <<threads, folders, tpc, left, begun, idx, result, listing>>
          /\ pc \in {"wait", "logout"} /\ pc' \in {"logout", "return"}
          /\ errs \subseteq errs'
      BY <1>8 DEF WaitAll, MainLogout, Logout, threadVars
    <2> QED
      BY <1>1, <1>2, <2>1 DEF CompleteInv
  <1>9. CASE Return
    <2>1. /\ UNCHANGED <<threads, folders, tpc, left, begun, idx, listing, errs>>
          /\ pc = "return" /\ pc' = "ended"
          /\ result' = "ok" => errs = {} /\ result # "panic"
      BY <1>9 DEF Return, threadVars
    <2>2. result' = "ok" => idx = NumPartitions
      BY <2>1 DEF CompleteInv
    <2> QED
      BY <1>1, <1>2, <2>1, <2>2 DEF CompleteInv
  <1>10. ASSUME NEW k \in Thread, Worker(k) PROVE CompleteInv'
    <2>1. k \in Running
      BY <1>0, <1>10, RunningStep DEF Worker
    <2>2. /\ Lives /\ pc \notin {"logout", "return", "ended"}
          /\ UNCHANGED <<threads, folders, pc, idx, result, listing>>
          /\ errs \subseteq errs'
      BY <1>0, <1>10, <2>1
         DEF LoopInv, Lives, Worker, BeginFolder, EndFolder, EndThread, Logout
    <2>3. result \in {"none", "panic"}
      BY <2>2 DEF CompleteInv
    <2>4. /\ \A j \in Thread : j # k => left'[j] = left[j] /\ tpc'[j] = tpc[j]
          /\ \A f \in Folder : begun[f] = 1 => begun'[f] = 1
          /\ tpc[k] # "idle"
          /\ tpc'[k] = "done" => left'[k] = {}
      <3>1. CASE BeginFolder(k)
        <4>1. /\ tpc[k] = "next" /\ left[k] # {} /\ Min(left[k]) \in left[k]
              /\ \/ /\ UNCHANGED <<tpc, begun>>
                    /\ left' = [left EXCEPT ![k] = @ \ {Min(left[k])}]
                 \/ /\ tpc' = [tpc EXCEPT ![k] = "download"] /\ UNCHANGED left
                    /\ begun' = [begun EXCEPT ![Min(left[k])] = @ + 1]
          BY <1>0, <3>1, LeastLeft DEF BeginFolder
        <4>2. begun[Min(left[k])] = 0
          BY <2>2, <4>1 DEF BegunInv
        <4> QED
          BY <1>0, <4>1, <4>2 DEF TypeOK
      <3>2. CASE EndFolder(k)
        BY <1>0, <3>2 DEF EndFolder, TypeOK
      <3>3. CASE EndThread(k)
        BY <1>0, <3>3 DEF EndThread, TypeOK
      <3> QED
        BY <1>10, <3>1, <3>2, <3>3 DEF Worker
    <2>5. \/ errs' # {}
          \/ \A f \in left[k] \ left'[k] : begun'[f] = 1
      <3>1. CASE BeginFolder(k)
        BY <1>0, <3>1 DEF BeginFolder, TypeOK
      <3>2. CASE EndFolder(k)
        <4>1. /\ tpc[k] = "download" /\ UNCHANGED begun
              /\ left'[k] = left[k] \ {Min(left[k])}
          BY <1>0, <3>2 DEF EndFolder, TypeOK
        <4> QED
          BY <4>1 DEF BegunInv
      <3>3. CASE EndThread(k)
        BY <3>3 DEF EndThread
      <3> QED
        BY <1>10, <3>1, <3>2, <3>3 DEF Worker
    <2>6. errs' = {} => \A j \in Thread : tpc'[j] # "idle" =>
            \A f \in Partition(j)' \ left'[j] : begun'[f] = 1
      <3> SUFFICES ASSUME errs' = {}, NEW j \in Thread, tpc'[j] # "idle",
                          NEW f \in Partition(j) \ left'[j]
                   PROVE  begun'[f] = 1
        BY <1>1, <2>2
      <3>1. f \in left[j] \/ begun[f] = 1
        BY <2>2, <2>4 DEF CompleteInv
      <3>2. f \in Folder
        BY <1>0
      <3>3. CASE j = k
        BY <2>4, <2>5, <3>1, <3>2, <3>3
      <3>4. CASE j # k
        BY <2>4, <3>1, <3>2, <3>4
      <3> QED
        BY <3>3, <3>4
    <2>7. \A j \in Thread : tpc'[j] = "done" => left'[j] = {}
      BY <2>2, <2>4 DEF CompleteInv
    <2>8. pc = "wait" /\ errs' = {} => idx = NumPartitions \/ result = "panic"
      BY <2>2 DEF CompleteInv
    <2>9. UNCHANGED NumPartitions
      BY <1>1, <2>2
    <2>10. listing' = "failed" => "list" \in errs'
      BY <2>2 DEF CompleteInv
    <2> QED
      BY <2>2, <2>3, <2>6, <2>7, <2>8, <2>9, <2>10 DEF CompleteInv, Lives
  <1>11. CASE Signal
    <2>1. /\ pc \notin {"ended", "killed"}
          /\ UNCHANGED <<threads, folders, idx, left, begun, errs, result, listing>>
      BY <1>11 DEF Signal
    <2>2. result \in {"none", "panic"}
      BY <2>1 DEF CompleteInv
    <2>3. CASE mainSig = "none" /\ Registered = {}
      <3>1. pc' = "killed"
        BY <1>11, <2>3 DEF Signal
      <3> QED
        BY <2>1, <2>2, <3>1 DEF CompleteInv, Lives
    <2>4. CASE ~(mainSig = "none" /\ Registered = {})
      <3>1. UNCHANGED <<pc, tpc>>
        BY <1>11, <2>4 DEF Signal
      <3> QED
        BY <1>1, <1>2, <2>1, <3>1 DEF CompleteInv
    <2> QED
      BY <2>3, <2>4
  <1>12. CASE UNCHANGED vars
    <2>1. UNCHANGED <<threads, folders, tpc, left, begun, errs, pc, idx, result,
                      listing>>
      BY <1>12 DEF vars, threadVars
    <2> QED
      BY <1>1, <2>1 DEF CompleteInv, Lives
  <1> QED
    BY <1>3, <1>4, <1>5, <1>6, <1>7, <1>8, <1>9, <1>10, <1>11, <1>12
       DEF Next, Main

\* A run of DownloadFolder without an error has begun and ended the download of
\* every selected folder, and has not overlooked a failed folder list.
THEOREM DownloadComplete == Spec => []SuccessIsComplete
  <1>1. TypeInv /\ CompleteInv => SuccessIsComplete
    <2> SUFFICES ASSUME TypeInv, CompleteInv, pc = "ended", result = "ok"
                 PROVE  /\ listing # "failed"
                        /\ \A f \in 0..(folders - 1) : begun[f] = 1
      BY DEF SuccessIsComplete
    <2>1. TypeOK /\ LoopInv /\ errs = {} /\ idx = NumPartitions /\ Lives
      BY DEF TypeInv, CompleteInv, Lives
    <2>2. listing # "failed"
      BY <2>1 DEF CompleteInv
    <2>3. ASSUME NEW f \in 0..(folders - 1) PROVE begun[f] = 1
      <3> DEFINE k == f % NumPartitions
      <3>1. k \in 0..(NumPartitions - 1) /\ f \in Partition(k)
        BY <2>1, PartitionOwner
      <3>2. k \in Thread /\ k < idx
        <4>1. NumPartitions \in 0..folders /\ folders \in 0..MaxFolders
          BY <2>1, PartitionsBound
        <4> QED
          BY <2>1, <3>1, <4>1, BoundsAssumption DEF Thread
      <3>3. tpc[k] # "idle" /\ k \notin Running
        BY <2>1, <3>2, BoundsAssumption DEF LoopInv, Lives, Thread, TypeOK
      <3>4. tpc[k] = "done"
        BY <2>1, <3>2, <3>3 DEF TypeOK, Running
      <3>5. left[k] = {}
        BY <2>1, <3>2, <3>4 DEF CompleteInv
      <3> QED
        BY <2>1, <3>1, <3>2, <3>3, <3>5 DEF CompleteInv
    <2> QED
      BY <2>2, <2>3
  <1> QED
    BY <1>1, TypeInvInit, TypeInvNext, BegunInvInit, BegunInvNext,
       CompleteInvInit, CompleteInvNext, PTL DEF Spec
=============================================================================
