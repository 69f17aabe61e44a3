------------------------ MODULE FolderDownloadProofs ------------------------
(***************************************************************************)
(* Proofs about FolderDownload, for every number of messages, UIDVALIDITY  *)
(* values and runs, every buffer capacity and every set of faults.         *)
(***************************************************************************)
EXTENDS FolderDownload, TLAPS

-----------------------------------------------------------------------------
(***************************************************************************)
(* The control state: where each goroutine can be, given where the others  *)
(* are, and what the wait group counts. TypeOK alone is not inductive,     *)
(* since nothing in it keeps wg from falling below 0.                      *)
(***************************************************************************)
SetupLabels == {"idle", "begin", "touch", "read", "select", "check", "list",
                "retrieve"}

Labels ==
    /\ pc["main"] \in SetupLabels \cup {"deliver", "open", "wait", "returned"}
    /\ pc["fetch"] \in {"idle", "fetching", "once", "done"}
    /\ pc["translate"] \in {"idle", "loop", "poll", "recv", "send", "caught",
                            "once", "closed"}
    /\ pc["deliver"] \in {"idle", "receive", "send", "close", "closed"}
    /\ pc["oldmail"] \in {"idle", "receive", "done"}

\* Before the pipeline is set up there is nothing in it.
SetupInv ==
    /\ pc["main"] \in SetupLabels =>
         /\ pc["fetch"] = "idle"
         /\ dmsg = NoUid /\ dchan = <<>> /\ errCounts = {}
    /\ pc["fetch"] = "idle" =>
         /\ pc["translate"] = "idle" /\ pc["deliver"] = "idle"
         /\ already = "armed"
    /\ pc["deliver"] = "idle" => pc["oldmail"] = "idle"
    /\ pc["main"] = "deliver" => pc["fetch"] # "idle" /\ pc["deliver"] = "idle"
    /\ pc["main"] = "open" =>
         pc["deliver"] # "idle" /\ pc["oldmail"] = "idle"
    /\ pc["main"] = "wait" => pc["oldmail"] # "idle"

One(b) == IF b THEN 1 ELSE 0

\* The wait group counts fetch and translate as one, deliver and oldmail.
WgInv ==
    wg = One(pc["fetch"] # "idle" /\ already = "armed")
           + One(pc["deliver"] \in {"receive", "send"})
           + One(pc["oldmail"] = "receive")

\* What a goroutine carries from one step to the next.
CarryInv ==
    /\ pc["translate"] = "send" => tmsg \in Uid
    /\ pc["deliver"] = "send" => dmsg \in Uid
    /\ pc["main"] \in {"check", "list", "retrieve"} \/ pc["fetch"] # "idle"
         => mbox \in 1..MaxValidity

\* A goroutine ends only after the one before it has closed its channel.
OrderInv ==
    /\ pc["deliver"] \in {"close", "closed"} => pc["translate"] = "closed"
    /\ pc["oldmail"] = "done" => pc["deliver"] = "closed"

ControlInv == Labels /\ SetupInv /\ WgInv /\ CarryInv /\ OrderInv

TypeInv == TypeOK /\ ControlInv

\* A process that has not been started, and its empty disk, are well-typed.
LEMMA TypeInvInit == Init => TypeInv
  <1> SUFFICES ASSUME Init PROVE TypeInv
    OBVIOUS
  <1> USE BoundsAssumption, BufferAssumption
  <1>1. TypeOK
    <2>1. TypeDisk
      BY DEF Init, TypeDisk, Message
    <2>2. TypeServer
      BY DEF Init, TypeServer, Uid
    <2>3. TypeProcess
      BY DEF Init, Quiescent, TypeProcess
    <2>4. TypeLocals
      BY DEF Init, Quiescent, TypeLocals
    <2>5. TypePipe
      BY DEF Init, Quiescent, TypePipe, NoUid
    <2> QED
      BY <2>1, <2>2, <2>3, <2>4, <2>5 DEF TypeOK
  <1>2. ControlInv
    BY DEF Init, Quiescent, ControlInv, Labels, SetupInv, WgInv, CarryInv,
           OrderInv, SetupLabels, Goroutines, One, NoUid
  <1> QED
    BY <1>1, <1>2 DEF TypeInv

\* What deliverMessage does to the copies of one message.
LEMMA OneMoreCopy ==
  ASSUME NEW S, NEW copies \in [S -> Nat], NEW m \in S
  PROVE  [copies EXCEPT ![m] = @ + 1] \in [S -> Nat]
  OBVIOUS

\* Every step of main, of the pipeline's goroutines and of the environment keeps
\* the types, and with them the count of the wait group: streamingRetrieval,
\* streamingDelivery and streamingOldmailWriteout each add one, and once.call
\* and the two wg.Done() take away no more than that.
LEMMA TypeInvNext == TypeInv /\ [Next]_vars => TypeInv'
  <1> SUFFICES ASSUME TypeInv, [Next]_vars PROVE TypeInv'
    OBVIOUS
  <1> USE BoundsAssumption, BufferAssumption
      DEF TypeInv, TypeOK, TypeDisk, TypeServer, TypeProcess, TypeLocals,
          TypePipe, ControlInv, Labels, SetupInv, WgInv, CarryInv, OrderInv,
          SetupLabels, One, Uid, Goroutines, NoUid, Stages, diskVars,
          serverVars, stillVars, runVars, localVars, selVars, chanVars,
          pipeVars
  <1>1. CASE Begin
    <2>1. TypeOK'
      BY <1>1 DEF Begin, Poll, Interrupted, Return, Goto, Message
    <2>2. ControlInv'
      BY <1>1 DEF Begin, Poll, Interrupted, Return, Goto
    <2> QED
      BY <2>1, <2>2
  <1>2. CASE TouchOldmail
    <2>1. TypeOK'
      BY <1>2 DEF TouchOldmail, Return, Goto, Message
    <2>2. ControlInv'
      BY <1>2 DEF TouchOldmail, Return, Goto
    <2> QED
      BY <2>1, <2>2
  <1>3. CASE ReadOldmail
    <2>1. TypeOK'
      BY <1>3 DEF ReadOldmail, Return, Goto, Message
    <2>2. ControlInv'
      BY <1>3 DEF ReadOldmail, Return, Goto
    <2> QED
      BY <2>1, <2>2
  <1>4. CASE SelectFolder
    <2>1. TypeDisk'
      BY <1>4 DEF SelectFolder, Return, Goto, Message
    <2>2. TypeServer'
      BY <1>4 DEF SelectFolder, Return, Goto
    <2>3. TypeProcess'
      BY <1>4 DEF SelectFolder, Return, Goto
    <2>4. TypeLocals'
      <3>1. mbox' \in 0..MaxValidity
        BY <1>4 DEF SelectFolder
      <3>3. view' \subseteq Uid
        BY <1>4 DEF SelectFolder
      <3>2. result' \in {"none", "ok", "error"}
        BY <1>4 DEF SelectFolder, Return
      <3> QED
        BY <1>4, <3>1, <3>2, <3>3 DEF SelectFolder
    <2>5. TypePipe'
      BY <1>4 DEF SelectFolder, Return, Goto
    <2>6. Labels'
      BY <1>4 DEF SelectFolder, Return, Goto
    <2>7. SetupInv'
      BY <1>4 DEF SelectFolder, Return, Goto
    <2>8. WgInv'
      BY <1>4 DEF SelectFolder, Return, Goto
    <2>9. CarryInv'
      BY <1>4 DEF SelectFolder, Return, Goto
    <2>10. OrderInv'
      BY <1>4 DEF SelectFolder, Return, Goto
    <2> QED
      BY <2>1, <2>2, <2>3, <2>4, <2>5, <2>6, <2>7, <2>8, <2>9, <2>10
  <1>5. CASE CheckInterrupt
    <2>1. TypeOK'
      BY <1>5 DEF CheckInterrupt, Poll, Interrupted, Return, Goto, Message
    <2>2. ControlInv'
      BY <1>5 DEF CheckInterrupt, Poll, Interrupted, Return, Goto
    <2> QED
      BY <2>1, <2>2
  <1>6. CASE ListMessages
    <2>1. TypeDisk'
      BY <1>6 DEF ListMessages, DetermineMissing, MissingUIDs, Return, Goto,
             Message
    <2>2. TypeServer'
      BY <1>6 DEF ListMessages, DetermineMissing, MissingUIDs, Return, Goto
    <2>3. TypeProcess'
      BY <1>6 DEF ListMessages, DetermineMissing, MissingUIDs, Return, Goto
    <2>4. TypeLocals'
      BY <1>6 DEF ListMessages, DetermineMissing, MissingUIDs, Return, Goto
    <2>5. TypePipe'
      BY <1>6 DEF ListMessages, DetermineMissing, MissingUIDs, Return, Goto
    <2>6. Labels'
      BY <1>6 DEF ListMessages, DetermineMissing, MissingUIDs, Return, Goto
    <2>7. SetupInv'
      BY <1>6 DEF ListMessages, DetermineMissing, MissingUIDs, Return, Goto
    <2>8. WgInv'
      BY <1>6 DEF ListMessages, DetermineMissing, MissingUIDs, Return, Goto
    <2>9. CarryInv'
      BY <1>6 DEF ListMessages, DetermineMissing, MissingUIDs, Return, Goto
    <2>10. OrderInv'
      BY <1>6 DEF ListMessages, DetermineMissing, MissingUIDs, Return, Goto
    <2> QED
      BY <2>1, <2>2, <2>3, <2>4, <2>5, <2>6, <2>7, <2>8, <2>9, <2>10
  <1>7. CASE StreamingRetrieval
    <2>1. TypeOK'
      BY <1>7 DEF StreamingRetrieval
    <2>2. Labels'
      BY <1>7 DEF StreamingRetrieval
    <2>3. SetupInv'
      BY <1>7 DEF StreamingRetrieval
    <2>4. WgInv'
      BY <1>7 DEF StreamingRetrieval
    <2>5. CarryInv'
      BY <1>7 DEF StreamingRetrieval
    <2>6. OrderInv'
      BY <1>7 DEF StreamingRetrieval
    <2> QED
      BY <2>1, <2>2, <2>3, <2>4, <2>5, <2>6
  <1>8. CASE StreamingDelivery
    <2>1. TypeOK'
      BY <1>8 DEF StreamingDelivery, Message
    <2>2. ControlInv'
      BY <1>8 DEF StreamingDelivery
    <2> QED
      BY <2>1, <2>2
  <1>9. CASE StreamingOldmailWriteout
    <2>1. TypeDisk'
      BY <1>9 DEF StreamingOldmailWriteout, Return, Goto, Message
    <2>2. TypeServer'
      BY <1>9 DEF StreamingOldmailWriteout, Return, Goto
    <2>3. TypeProcess'
      BY <1>9 DEF StreamingOldmailWriteout, Return, Goto
    <2>4. TypeLocals'
      BY <1>9 DEF StreamingOldmailWriteout, Return, Goto
    <2>5. TypePipe'
      BY <1>9 DEF StreamingOldmailWriteout, Return, Goto
    <2>6. Labels'
      BY <1>9 DEF StreamingOldmailWriteout, Return, Goto
    <2>7. SetupInv' /\ WgInv'
      <3>1. CASE /\ wg' = wg + 1
                 /\ pc' = [pc EXCEPT !["main"] = "wait", !["oldmail"] = "receive"]
        <4>1. SetupInv'
          BY <1>9, <3>1 DEF StreamingOldmailWriteout
        <4>2. WgInv'
          BY <1>9, <3>1 DEF StreamingOldmailWriteout
        <4> QED
          BY <4>1, <4>2
      <3>2. CASE Return("error") /\ UNCHANGED wg
        <4>1. SetupInv'
          BY <1>9, <3>2 DEF StreamingOldmailWriteout, Return, Goto
        <4>2. WgInv'
          BY <1>9, <3>2 DEF StreamingOldmailWriteout, Return, Goto
        <4> QED
          BY <4>1, <4>2
      <3> QED
        BY <1>9, <3>1, <3>2 DEF StreamingOldmailWriteout
    <2>8. CarryInv'
      BY <1>9 DEF StreamingOldmailWriteout, Return, Goto
    <2>9. OrderInv'
      BY <1>9 DEF StreamingOldmailWriteout, Return, Goto
    <2> QED
      BY <2>1, <2>2, <2>3, <2>4, <2>5, <2>6, <2>7, <2>8, <2>9
  <1>10. CASE WaitAll
    <2>1. TypeOK'
      BY <1>10 DEF WaitAll, Return, AllDone, Goto, Message
    <2>2. ControlInv'
      BY <1>10 DEF WaitAll, Return, AllDone, Goto
    <2> QED
      BY <2>1, <2>2
  <1>11. CASE FetchDone
    <2>1. TypeOK'
      BY <1>11 DEF FetchDone, CallOnce, Goto, Message
    <2>2. ControlInv'
      BY <1>11 DEF FetchDone, CallOnce, Goto
    <2> QED
      BY <2>1, <2>2
  <1>12. CASE EndFetch
    <2>1. TypeDisk'
      BY <1>12 DEF EndFetch, Fetching, Started, Count, Goto, Message
    <2>2. TypeServer'
      BY <1>12 DEF EndFetch, Fetching, Started, Count, Goto
    <2>3. TypeProcess'
      BY <1>12 DEF EndFetch, Fetching, Started, Count, Goto
    <2>4. TypeLocals'
      BY <1>12 DEF EndFetch, Fetching, Started, Count, Goto
    <2>5. TypePipe'
      BY <1>12 DEF EndFetch, Fetching, Started, Count, Goto
    <2>6. Labels'
      BY <1>12 DEF EndFetch, Fetching, Started, Count, Goto
    <2>7. SetupInv'
      BY <1>12 DEF EndFetch, Fetching, Started, Count, Goto
    <2>8. WgInv'
      BY <1>12 DEF EndFetch, Fetching, Started, Count, Goto
    <2>9. CarryInv'
      BY <1>12 DEF EndFetch, Fetching, Started, Count, Goto
    <2>10. OrderInv'
      BY <1>12 DEF EndFetch, Fetching, Started, Count, Goto
    <2> QED
      BY <2>1, <2>2, <2>3, <2>4, <2>5, <2>6, <2>7, <2>8, <2>9, <2>10
  <1>13. CASE CheckCalled
    <2>1. TypeOK'
      BY <1>13 DEF CheckCalled, Goto, Message
    <2>2. ControlInv'
      BY <1>13 DEF CheckCalled, Goto
    <2> QED
      BY <2>1, <2>2
  <1>14. CASE PollInterrupt
    <2>1. TypeOK'
      BY <1>14 DEF PollInterrupt, Poll, Interrupted, Goto
    <2>2. ControlInv'
      BY <1>14 DEF PollInterrupt, Poll, Interrupted, Goto
    <2> QED
      BY <2>1, <2>2
  <1>15. CASE ReportInterrupt
    <2>1. TypeOK'
      BY <1>15 DEF ReportInterrupt, Count, Goto
    <2>2. ControlInv'
      BY <1>15 DEF ReportInterrupt, Count, Goto
    <2> QED
      BY <2>1, <2>2
  <1>16. CASE TranslateOnce
    <2>1. TypeOK'
      BY <1>16 DEF TranslateOnce, CallOnce, Goto
    <2>2. ControlInv'
      BY <1>16 DEF TranslateOnce, CallOnce, Goto
    <2> QED
      BY <2>1, <2>2
  <1>17. CASE ReceiveNil
    <2>1. TypeOK'
      BY <1>17 DEF ReceiveNil, OrgClosed, Goto
    <2>2. ControlInv'
      BY <1>17 DEF ReceiveNil, OrgClosed, Goto
    <2> QED
      BY <2>1, <2>2
  <1>18. CASE SendTranslated
    <2>1. TypeOK'
      BY <1>18 DEF SendTranslated, Goto
    <2>2. ControlInv'
      BY <1>18 DEF SendTranslated, Goto
    <2> QED
      BY <2>1, <2>2
  <1>19. CASE DeliverMessage
    <2>1. TypeDisk'
      <3>1. <<mbox, Head(tchan)>> \in Message
        BY <1>19 DEF DeliverMessage, Delivering, Started, Message
      <3>2. stored' = [stored EXCEPT ![<<mbox, Head(tchan)>>] = @ + 1]
        BY <1>19 DEF DeliverMessage
      <3>3. stored' \in [Message -> Nat]
        BY <3>1, <3>2, OneMoreCopy
      <3> QED
        BY <1>19, <3>3 DEF DeliverMessage
    <2>2. TypeServer'
      BY <1>19 DEF DeliverMessage, Delivering, Started, Goto
    <2>3. TypeProcess'
      BY <1>19 DEF DeliverMessage, Delivering, Started, Goto
    <2>4. TypeLocals'
      BY <1>19 DEF DeliverMessage, Delivering, Started, Goto
    <2>5. TypePipe'
      BY <1>19 DEF DeliverMessage, Delivering, Started, Goto
    <2>6. Labels'
      BY <1>19 DEF DeliverMessage, Delivering, Started, Goto
    <2>7. SetupInv'
      BY <1>19 DEF DeliverMessage, Delivering, Started, Goto
    <2>8. WgInv'
      BY <1>19 DEF DeliverMessage, Delivering, Started, Goto
    <2>9. CarryInv'
      BY <1>19 DEF DeliverMessage, Delivering, Started, Goto
    <2>10. OrderInv'
      BY <1>19 DEF DeliverMessage, Delivering, Started, Goto
    <2> QED
      BY <2>1, <2>2, <2>3, <2>4, <2>5, <2>6, <2>7, <2>8, <2>9, <2>10
  <1>20. CASE FailDelivery
    <2>1. TypeOK'
      BY <1>20 DEF FailDelivery, Delivering, Started, Count
    <2>2. ControlInv'
      BY <1>20 DEF FailDelivery, Delivering, Started, Count
    <2> QED
      BY <2>1, <2>2
  <1>21. CASE SendDelivered
    <2>1. TypeOK'
      BY <1>21 DEF SendDelivered, Goto, Message
    <2>2. ControlInv'
      BY <1>21 DEF SendDelivered, Goto
    <2> QED
      BY <2>1, <2>2
  <1>22. CASE DeliverDone
    <2>1. TypeOK'
      BY <1>22 DEF DeliverDone, Delivering, Started, Goto, Message
    <2>2. ControlInv'
      BY <1>22 DEF DeliverDone, Delivering, Started, Goto
    <2> QED
      BY <2>1, <2>2
  <1>23. CASE CloseDelivered
    <2>1. TypeOK'
      BY <1>23 DEF CloseDelivered, Goto, Message
    <2>2. ControlInv'
      BY <1>23 DEF CloseDelivered, Goto
    <2> QED
      BY <2>1, <2>2
  <1>24. CASE WriteOldmail
    <2>1. TypeDisk'
      <3>1. <<mbox, Head(dchan)>> \in Message
        BY <1>24 DEF WriteOldmail, Remembering, Started, Message
      <3> QED
        BY <1>24, <3>1 DEF WriteOldmail
    <2>2. TypeServer'
      BY <1>24 DEF WriteOldmail, Remembering, Started
    <2>3. TypeProcess'
      BY <1>24 DEF WriteOldmail, Remembering, Started
    <2>4. TypeLocals'
      BY <1>24 DEF WriteOldmail, Remembering, Started
    <2>5. TypePipe'
      BY <1>24 DEF WriteOldmail, Remembering, Started
    <2>6. Labels'
      BY <1>24 DEF WriteOldmail, Remembering, Started
    <2>7. SetupInv'
      BY <1>24 DEF WriteOldmail, Remembering, Started
    <2>8. WgInv'
      BY <1>24 DEF WriteOldmail, Remembering, Started
    <2>9. CarryInv'
      BY <1>24 DEF WriteOldmail, Remembering, Started
    <2>10. OrderInv'
      BY <1>24 DEF WriteOldmail, Remembering, Started
    <2> QED
      BY <2>1, <2>2, <2>3, <2>4, <2>5, <2>6, <2>7, <2>8, <2>9, <2>10
  <1>25. CASE FailWrite
    <2>1. TypeDisk'
      <3>1. <<mbox, Head(dchan)>> \in Message
        BY <1>25 DEF FailWrite, Remembering, Started, Message
      <3> QED
        BY <1>25, <3>1 DEF FailWrite
    <2>2. TypeServer'
      BY <1>25 DEF FailWrite
    <2>3. TypeProcess' /\ TypeLocals'
      BY <1>25 DEF FailWrite
    <2>4. TypePipe'
      BY <1>25 DEF FailWrite, Remembering, Count
    <2>5. ControlInv'
      BY <1>25 DEF FailWrite, Remembering, Started, Count
    <2> QED
      BY <2>1, <2>2, <2>3, <2>4, <2>5
  <1>26. CASE SkipOldmail
    <2>1. TypeOK'
      BY <1>26 DEF SkipOldmail, Remembering, Started
    <2>2. ControlInv'
      BY <1>26 DEF SkipOldmail, Remembering, Started
    <2> QED
      BY <2>1, <2>2
  <1>27. CASE OldmailDone
    <2>1. TypeDisk'
      BY <1>27 DEF OldmailDone, Remembering, Started, Count, Goto, Message
    <2>2. TypeServer'
      BY <1>27 DEF OldmailDone, Remembering, Started, Count, Goto
    <2>3. TypeProcess'
      BY <1>27 DEF OldmailDone, Remembering, Started, Count, Goto
    <2>4. TypeLocals'
      BY <1>27 DEF OldmailDone, Remembering, Started, Count, Goto
    <2>5. TypePipe'
      <3>1. wg' \in 0..3
        BY <1>27 DEF OldmailDone, Remembering, Started
      <3>2. errCounts' \subseteq Stages
        BY <1>27 DEF OldmailDone, Count
      <3> QED
        BY <1>27, <3>1, <3>2 DEF OldmailDone
    <2>6. Labels'
      BY <1>27 DEF OldmailDone, Remembering, Started, Count, Goto
    <2>7. SetupInv'
      BY <1>27 DEF OldmailDone, Remembering, Started, Count, Goto
    <2>8. WgInv'
      BY <1>27 DEF OldmailDone, Remembering, Started, Count, Goto
    <2>9. CarryInv'
      BY <1>27 DEF OldmailDone, Remembering, Started, Count, Goto
    <2>10. OrderInv'
      BY <1>27 DEF OldmailDone, Remembering, Started, Count, Goto
    <2> QED
      BY <2>1, <2>2, <2>3, <2>4, <2>5, <2>6, <2>7, <2>8, <2>9, <2>10
  <1>28. CASE StartRun
    <2>1. TypeOK'
      BY <1>28 DEF StartRun, Goto, Message
    <2>2. ControlInv'
      BY <1>28 DEF StartRun, Goto
    <2> QED
      BY <2>1, <2>2
  <1>29. CASE ExitProcess
    <2>1. TypeOK'
      BY <1>29 DEF ExitProcess, EndProcess, Message
    <2>2. ControlInv'
      BY <1>29 DEF ExitProcess, EndProcess
    <2> QED
      BY <2>1, <2>2
  <1>30. CASE Crash
    <2>1. TypeOK'
      BY <1>30 DEF Crash, EndProcess, Message
    <2>2. ControlInv'
      BY <1>30 DEF Crash, EndProcess
    <2> QED
      BY <2>1, <2>2
  <1>31. CASE Signal
    <2>1. TypeOK'
      BY <1>31 DEF Signal, Message
    <2>2. ControlInv'
      BY <1>31 DEF Signal
    <2> QED
      BY <2>1, <2>2
  <1>32. CASE Arrive
    <2>1. TypeOK'
      BY <1>32 DEF Arrive, Message
    <2>2. ControlInv'
      BY <1>32 DEF Arrive
    <2> QED
      BY <2>1, <2>2
  <1>33. CASE Renumber
    <2>1. TypeOK'
      BY <1>33 DEF Renumber, Message
    <2>2. ControlInv'
      BY <1>33 DEF Renumber
    <2> QED
      BY <2>1, <2>2
  <1>34. ASSUME NEW u \in Uid, FetchMessage(u) PROVE TypeInv'
    <2>1. TypeOK'
      BY <1>34 DEF FetchMessage, Fetching, Started, Goto, Message
    <2>2. ControlInv'
      BY <1>34 DEF FetchMessage, Fetching, Started, Goto
    <2> QED
      BY <2>1, <2>2
  <1>35. ASSUME NEW u \in Uid, Expunge(u) PROVE TypeInv'
    <2>1. TypeOK'
      BY <1>35 DEF Expunge, Goto, Message
    <2>2. ControlInv'
      BY <1>35 DEF Expunge, Goto
    <2> QED
      BY <2>1, <2>2
  <1>36. CASE UNCHANGED vars
    BY <1>36 DEF vars
  <1> QED
    BY <1>1, <1>2, <1>3, <1>4, <1>5, <1>6, <1>7, <1>8, <1>9, <1>10, <1>11,
           <1>12, <1>13, <1>14, <1>15, <1>16, <1>17, <1>18, <1>19, <1>20,
           <1>21, <1>22, <1>23, <1>24, <1>25, <1>26, <1>27, <1>28, <1>29,
           <1>30, <1>31, <1>32, <1>33, <1>34, <1>35, <1>36 DEF Next, Main,
           Server, Translate, Deliver, Oldmail, Environment

\* The typing and control invariant of downloadMissingEmailsToFolder's pipeline.
THEOREM TypeInvariant == Spec => []TypeInv
  <1> QED
    BY TypeInvInit, TypeInvNext, PTL DEF Spec

\* The type invariant of the download of a folder (download.go and its stages).
THEOREM TypeCorrect == Spec => []TypeOK
  <1>1. TypeInv => TypeOK
    BY DEF TypeInv
  <1> QED
    BY <1>1, TypeInvariant, PTL

-----------------------------------------------------------------------------
(***************************************************************************)
(* What is remembered is stored: so is what waits for its line, in the     *)
(* channel to oldmail and in the hands of deliver.                         *)
(***************************************************************************)
QueuedStored == \A i \in 1..Len(dchan) : stored[<<mbox, dchan[i]>>] >= 1
HeldStored == pc["deliver"] = "send" => stored[<<mbox, dmsg>>] >= 1
StoredInv == RememberedStored /\ QueuedStored /\ HeldStored

\* The steps that touch neither the disk nor what waits for its line.
LEMMA StoredFrame ==
  ASSUME StoredInv, UNCHANGED <<stored, oldmail, openLine, mbox, dchan, dmsg>>,
         pc'["deliver"] = "send" => pc["deliver"] = "send"
  PROVE  StoredInv'
  BY DEF StoredInv, RememberedStored, QueuedStored, HeldStored, Remembered

\* Nothing is remembered, queued or held before the first run.
LEMMA StoredInvInit == Init => StoredInv
  BY DEF Init, Quiescent, StoredInv, RememberedStored, QueuedStored,
         HeldStored, Remembered, Goroutines

\* deliverMessage stores a message before streamingDelivery hands it on, nobody
\* removes a stored message, and streamingOldmailWriteout writes only lines of
\* messages that were handed on: no step breaks the invariant.
LEMMA StoredInvNext == TypeInv /\ StoredInv /\ [Next]_vars => StoredInv'
  <1> SUFFICES ASSUME TypeInv, StoredInv, [Next]_vars PROVE StoredInv'
    OBVIOUS
  <1> USE BoundsAssumption, BufferAssumption
      DEF TypeInv, TypeOK, TypeProcess, Goroutines, diskVars, serverVars,
          stillVars, runVars, localVars, selVars, chanVars, pipeVars
  <1>1. CASE TouchOldmail
    <2>1. Remembered' \subseteq Remembered
      BY <1>1 DEF TouchOldmail, Remembered
    <2> QED
      BY <1>1, <2>1 DEF TouchOldmail, Return, Goto, StoredInv,
             RememberedStored, QueuedStored, HeldStored
  <1>2. CASE SelectFolder
    <2>1. dchan = <<>> /\ pc["deliver"] # "send"
      BY <1>2 DEF SelectFolder, ControlInv, SetupInv, SetupLabels
    <2> QED
      BY <1>2, <2>1 DEF SelectFolder, Return, Goto, StoredInv,
             RememberedStored, QueuedStored, HeldStored, Remembered
  <1>3. CASE DeliverMessage
    <2> DEFINE m == <<mbox, Head(tchan)>>
    <2>1. m \in Message /\ m[1] = mbox
      BY <1>3 DEF DeliverMessage, Delivering, Started, Message, TypePipe,
             ControlInv, CarryInv, SetupInv
    <2>2. stored' \in [Message -> Nat] /\ stored'[m] >= 1
      BY <1>3, <2>1 DEF DeliverMessage, TypeDisk
    <2>3. \A n \in Message : stored[n] >= 1 => stored'[n] >= 1
      BY <1>3, <2>1 DEF DeliverMessage, TypeDisk
    <2>4. RememberedStored'
      BY <1>3, <2>3 DEF DeliverMessage, StoredInv, RememberedStored,
             Remembered, TypeDisk
    <2>5. QueuedStored'
      <3>1. mbox \in 1..MaxValidity
        BY <1>3 DEF DeliverMessage, Delivering, Started, ControlInv, CarryInv,
               SetupInv
      <3>2. \A i \in 1..Len(dchan) : <<mbox, dchan[i]>> \in Message
        BY <3>1 DEF TypePipe, Message
      <3> QED
        BY <1>3, <2>3, <3>2 DEF DeliverMessage, StoredInv, QueuedStored
    <2>6. HeldStored'
      BY <1>3, <2>2 DEF DeliverMessage, HeldStored
    <2> QED
      BY <2>4, <2>5, <2>6 DEF StoredInv
  <1>4. CASE SendDelivered
    <2>1. \A i \in 1..Len(dchan') :
            dchan'[i] = dmsg \/ \E j \in 1..Len(dchan) : dchan'[i] = dchan[j]
      BY <1>4 DEF SendDelivered, TypePipe
    <2>2. QueuedStored'
      BY <1>4, <2>1 DEF SendDelivered, StoredInv, QueuedStored, HeldStored
    <2> QED
      BY <1>4, <2>2 DEF SendDelivered, Goto, StoredInv, RememberedStored,
             HeldStored, Remembered
  <1>5. ASSUME dchan # <<>>, dchan' = Tail(dchan), UNCHANGED <<stored, mbox, dmsg>>,
               pc'["deliver"] = pc["deliver"],
               Remembered' \subseteq Remembered \cup {<<mbox, Head(dchan)>>}
        PROVE  StoredInv'
    <2>1. \A i \in 1..Len(dchan') : \E j \in 1..Len(dchan) : dchan'[i] = dchan[j]
      <3> TAKE i \in 1..Len(dchan')
      <3>1. i + 1 \in 1..Len(dchan) /\ dchan'[i] = dchan[i + 1]
        BY <1>5 DEF TypePipe
      <3> QED
        BY <3>1
    <2>2. stored[<<mbox, Head(dchan)>>] >= 1
      BY <1>5 DEF StoredInv, QueuedStored, TypePipe
    <2> QED
      BY <1>5, <2>1, <2>2 DEF StoredInv, RememberedStored, QueuedStored,
             HeldStored
  <1>6. CASE WriteOldmail
    BY <1>5, <1>6 DEF WriteOldmail, Remembered
  <1>7. CASE FailWrite
    BY <1>5, <1>7 DEF FailWrite, Remembered
  <1>8. CASE SkipOldmail
    BY <1>5, <1>8 DEF SkipOldmail, Remembered
  <1>9. CASE ExitProcess \/ Crash
    BY <1>9 DEF ExitProcess, Crash, EndProcess, StoredInv, RememberedStored,
           QueuedStored, HeldStored, Remembered
  <1>10. CASE \/ Begin \/ ReadOldmail \/ CheckInterrupt \/ ListMessages
              \/ StreamingRetrieval \/ StreamingDelivery
              \/ StreamingOldmailWriteout \/ WaitAll
    BY <1>10, StoredFrame DEF Begin, ReadOldmail, CheckInterrupt, ListMessages,
           DetermineMissing, StreamingRetrieval, StreamingDelivery,
           StreamingOldmailWriteout, WaitAll, Return, Goto
  <1>11. CASE FetchDone \/ EndFetch \/ \E u \in Uid : FetchMessage(u)
    BY <1>11, StoredFrame DEF FetchDone, EndFetch, FetchMessage, Goto
  <1>12. CASE Translate
    BY <1>12, StoredFrame DEF Translate, CheckCalled, PollInterrupt,
           ReportInterrupt, TranslateOnce, ReceiveNil, SendTranslated, Goto
  <1>13. CASE FailDelivery \/ DeliverDone \/ CloseDelivered \/ OldmailDone
    BY <1>13, StoredFrame DEF FailDelivery, DeliverDone, CloseDelivered,
           OldmailDone, Goto
  <1>14. CASE \/ StartRun \/ Signal \/ Arrive \/ Renumber
              \/ \E u \in Uid : Expunge(u)
    BY <1>14, StoredFrame DEF StartRun, Signal, Arrive, Renumber, Expunge, Goto
  <1>15. CASE UNCHANGED vars
    BY <1>15, StoredFrame DEF vars
  <1> QED
    BY <1>1, <1>2, <1>3, <1>4, <1>6, <1>7, <1>8, <1>9, <1>10, <1>11, <1>12,
       <1>13, <1>14, <1>15 DEF Next, Main, Server, Deliver, Oldmail, Environment

\* What the oldmail file claims to have, the maildir has: the order in which
\* streamingDelivery and streamingOldmailWriteout work on a message survives
\* crashes, failed writes and restarts.
THEOREM RememberedIsStored == Spec => []RememberedStored
  <1>1. StoredInv => RememberedStored
    BY DEF StoredInv
  <1> QED
    BY <1>1, StoredInvInit, StoredInvNext, TypeInvariant, PTL DEF Spec

-----------------------------------------------------------------------------
(***************************************************************************)
(* One UIDVALIDITY: while the pipeline runs, all that is remembered has    *)
(* the UIDVALIDITY of the selected folder, for determineMissingUIDs has    *)
(* compared them before the pipeline was set up.                           *)
(***************************************************************************)
SelectedValidity ==
    pc["main"] = "retrieve" \/ pc["fetch"] # "idle"
      => \A m \in Remembered : m[1] = mbox
ValidityInv == OneValidity /\ SelectedValidity

\* An empty oldmail file mixes no UIDVALIDITY values.
LEMMA ValidityInvInit == Init => ValidityInv
  BY DEF Init, Quiescent, ValidityInv, OneValidity, SelectedValidity,
         Remembered, Goroutines

\* determineMissingUIDs lets the pipeline start only if the remembered messages
\* have the selected folder's UIDVALIDITY, with which each line is written.
LEMMA ValidityInvNext == TypeInv /\ ValidityInv /\ [Next]_vars => ValidityInv'
  <1> SUFFICES ASSUME TypeInv, ValidityInv, [Next]_vars PROVE ValidityInv'
    OBVIOUS
  <1> USE DEF TypeInv, TypeOK, TypeProcess, Goroutines, diskVars, serverVars,
          stillVars, runVars, localVars, selVars, chanVars, pipeVars
  <1>1. ASSUME UNCHANGED <<oldmail, openLine, mbox>>,
               pc'["main"] = "retrieve" \/ pc'["fetch"] # "idle"
                 => pc["main"] = "retrieve" \/ pc["fetch"] # "idle"
        PROVE  ValidityInv'
    BY <1>1 DEF ValidityInv, OneValidity, SelectedValidity, Remembered
  <1>2. ASSUME pc["fetch"] # "idle", pc'["fetch"] = pc["fetch"],
               UNCHANGED mbox,
               Remembered' \subseteq Remembered \cup {<<mbox, Head(dchan)>>}
        PROVE  ValidityInv'
    BY <1>2 DEF ValidityInv, OneValidity, SelectedValidity
  <1>3. CASE TouchOldmail
    <2>1. Remembered' \subseteq Remembered
      BY <1>3 DEF TouchOldmail, Remembered
    <2>2. pc'["main"] # "retrieve" /\ pc'["fetch"] = "idle"
      BY <1>3 DEF TouchOldmail, Return, Goto, ControlInv, SetupInv, SetupLabels
    <2> QED
      BY <2>1, <2>2 DEF ValidityInv, OneValidity, SelectedValidity
  <1>4. CASE SelectFolder
    <2>1. pc'["main"] # "retrieve" /\ pc'["fetch"] = "idle"
      BY <1>4 DEF SelectFolder, Return, Goto, ControlInv, SetupInv, SetupLabels
    <2> QED
      BY <1>4, <2>1 DEF SelectFolder, ValidityInv, OneValidity,
             SelectedValidity, Remembered
  <1>5. CASE ListMessages
    <2>1. ASSUME NEW uids, DetermineMissing(uids)
          PROVE  pc'["main"] = "retrieve" => \A m \in Remembered : m[1] = mbox
      BY <2>1 DEF DetermineMissing, ValidityAgrees, MissingUIDs, Return, Goto
    <2>2. pc'["main"] = "retrieve" => \A m \in Remembered : m[1] = mbox
      BY <1>5, <2>1 DEF ListMessages, Return, Goto
    <2>3. pc'["fetch"] = pc["fetch"]
      BY <1>5 DEF ListMessages, DetermineMissing, Return, Goto
    <2> QED
      BY <1>5, <2>2, <2>3 DEF ListMessages, ValidityInv, OneValidity,
             SelectedValidity, Remembered
  <1>6. CASE WriteOldmail
    BY <1>2, <1>6 DEF WriteOldmail, Remembering, Started, Remembered,
           ControlInv, SetupInv
  <1>7. CASE FailWrite
    BY <1>2, <1>7 DEF FailWrite, Remembering, Started, Remembered,
           ControlInv, SetupInv
  <1>8. CASE ExitProcess \/ Crash
    <2>1. pc'["main"] # "retrieve" /\ pc'["fetch"] = "idle"
      BY <1>8 DEF ExitProcess, Crash, EndProcess
    <2> QED
      BY <1>8, <2>1 DEF ExitProcess, Crash, ValidityInv, OneValidity,
             SelectedValidity, Remembered
  <1>9. CASE \/ Begin \/ ReadOldmail \/ CheckInterrupt
             \/ StreamingRetrieval \/ StreamingDelivery
             \/ StreamingOldmailWriteout \/ WaitAll
    BY <1>1, <1>9 DEF Begin, ReadOldmail, CheckInterrupt, StreamingRetrieval,
           StreamingDelivery, StreamingOldmailWriteout, WaitAll, Return, Goto
  <1>10. CASE FetchDone \/ EndFetch \/ \E u \in Uid : FetchMessage(u)
    BY <1>1, <1>10 DEF FetchDone, EndFetch, FetchMessage, Fetching, Goto
  <1>11. CASE Translate
    BY <1>1, <1>11 DEF Translate, CheckCalled, PollInterrupt, ReportInterrupt,
           TranslateOnce, ReceiveNil, SendTranslated, Goto
  <1>12. CASE Deliver \/ SkipOldmail \/ OldmailDone
    BY <1>1, <1>12 DEF Deliver, DeliverMessage, FailDelivery, SendDelivered,
           DeliverDone, CloseDelivered, SkipOldmail, OldmailDone, Goto
  <1>13. CASE \/ StartRun \/ Signal \/ Arrive \/ Renumber
              \/ \E u \in Uid : Expunge(u)
    BY <1>1, <1>13 DEF StartRun, Signal, Arrive, Renumber, Expunge, Goto
  <1>14. CASE UNCHANGED vars
    BY <1>1, <1>14 DEF vars
  <1> QED
    BY <1>3, <1>4, <1>5, <1>6, <1>7, <1>8, <1>9, <1>10, <1>11, <1>12, <1>13,
       <1>14 DEF Next, Main, Server, Oldmail, Environment

\* The oldmail file never mixes two UIDVALIDITY values, because
\* determineMissingUIDs compares all of it with the selected folder's.
THEOREM ValidityIsOne == Spec => []OneValidity
  <1>1. ValidityInv => OneValidity
    BY DEF ValidityInv
  <1> QED
    BY <1>1, ValidityInvInit, ValidityInvNext, TypeInvariant, PTL DEF Spec

-----------------------------------------------------------------------------
(***************************************************************************)
(* The end of a run: when main has returned from a pipeline that was       *)
(* started, every goroutine that writes has ended; and an interrupt that   *)
(* was polled is on its way into the result.                               *)
(***************************************************************************)
ReturnedInv ==
    pc["main"] = "returned" /\ pc["oldmail"] # "idle"
      => pc["deliver"] \in {"close", "closed"} /\ pc["oldmail"] = "done"

InterruptInv ==
    /\ sig = "none" /\ pc["main"] # "idle"
         => IF pc["main"] = "returned" THEN result = "error"
            ELSE pc["translate"] = "caught" \/ "fetch" \in errCounts
    /\ pc["main"] = "returned" /\ result # "error"
         => pc["translate"] \in {"idle", "closed"}

EndInv == ReturnedInv /\ InterruptInv

\* No run has returned before the first one.
LEMMA EndInvInit == Init => EndInv
  BY DEF Init, Quiescent, EndInv, ReturnedInv, InterruptInv, Goroutines

\* main returns after wg.Wait() or where no pipeline works, and translate counts
\* an error for the interrupt it has consumed: no step breaks the invariant.
LEMMA EndInvNext == TypeInv /\ EndInv /\ [Next]_vars => EndInv'
  <1> SUFFICES ASSUME TypeInv, EndInv, [Next]_vars PROVE EndInv'
    OBVIOUS
  <1> USE DEF TypeInv, TypeOK, TypeProcess, Goroutines, diskVars, serverVars,
          stillVars, runVars, localVars, selVars, chanVars, pipeVars, EndInv,
          ReturnedInv, InterruptInv, ControlInv, Labels, SetupInv, SetupLabels
  <1>1. CASE Begin
    BY <1>1 DEF Begin, Poll, Interrupted, Return, Goto
  <1>2. CASE TouchOldmail
    BY <1>2 DEF TouchOldmail, Return, Goto
  <1>3. CASE ReadOldmail
    BY <1>3 DEF ReadOldmail, Return, Goto
  <1>4. CASE SelectFolder
    BY <1>4 DEF SelectFolder, Return, Goto
  <1>5. CASE CheckInterrupt
    BY <1>5 DEF CheckInterrupt, Poll, Interrupted, Return, Goto
  <1>6. CASE ListMessages
    BY <1>6 DEF ListMessages, DetermineMissing, Return, Goto
  <1>7. CASE StreamingRetrieval
    BY <1>7 DEF StreamingRetrieval
  <1>8. CASE StreamingDelivery
    BY <1>8 DEF StreamingDelivery
  <1>9. CASE StreamingOldmailWriteout
    BY <1>9 DEF StreamingOldmailWriteout, Return, Goto
  <1>10. CASE WaitAll
    <2>1. pc["deliver"] \in {"close", "closed"} /\ pc["oldmail"] = "done"
      BY <1>10 DEF WaitAll, AllDone, WgInv, One
    <2>2. pc["translate"] = "closed"
      BY <2>1 DEF OrderInv
    <2> QED
      BY <1>10, <2>1, <2>2 DEF WaitAll, PipelineErrors, Return, Goto
  <1>11. CASE FetchDone \/ EndFetch \/ \E u \in Uid : FetchMessage(u)
    BY <1>11 DEF FetchDone, EndFetch, FetchMessage, Count, Goto
  <1>12. CASE CheckCalled \/ TranslateOnce \/ ReceiveNil \/ SendTranslated
    BY <1>12 DEF CheckCalled, TranslateOnce, ReceiveNil, SendTranslated, Goto
  <1>13. CASE PollInterrupt
    BY <1>13 DEF PollInterrupt, Poll, Interrupted, Goto
  <1>14. CASE ReportInterrupt
    BY <1>14 DEF ReportInterrupt, Count, Goto
  <1>15. CASE Deliver
    BY <1>15 DEF Deliver, DeliverMessage, FailDelivery, SendDelivered,
           DeliverDone, CloseDelivered, Delivering, Started, Count, Goto
  <1>16. CASE Oldmail
    BY <1>16 DEF Oldmail, WriteOldmail, FailWrite, SkipOldmail, OldmailDone,
           Remembering, Started, Count, Goto
  <1>17. CASE ExitProcess \/ Crash
    BY <1>17 DEF ExitProcess, Crash, EndProcess
  <1>18. CASE \/ StartRun \/ Signal \/ Arrive \/ Renumber
              \/ \E u \in Uid : Expunge(u)
    BY <1>18 DEF StartRun, Signal, Arrive, Renumber, Expunge, Goto
  <1>19. CASE UNCHANGED vars
    BY <1>19 DEF vars
  <1> QED
    BY <1>1, <1>2, <1>3, <1>4, <1>5, <1>6, <1>7, <1>8, <1>9, <1>10, <1>11,
       <1>12, <1>13, <1>14, <1>15, <1>16, <1>17, <1>18, <1>19
       DEF Next, Main, Server, Translate, Environment

\* An interrupt that some poll of the run has consumed is reported by
\* downloadMissingEmailsToFolder as an error.
THEOREM InterruptIsReported == Spec => []InterruptReported
  <1>1. EndInv => InterruptReported
    BY DEF EndInv, InterruptInv, InterruptReported
  <1> QED
    BY <1>1, EndInvInit, EndInvNext, TypeInvariant, PTL DEF Spec

\* No goroutine of the pipeline writes to the disk after
\* downloadMissingEmailsToFolder has returned.
THEOREM ReturnedIsQuiet == Spec => QuietAfterReturn
  <1>1. ASSUME TypeInv, EndInv, [Next]_vars, pc["main"] = "returned"
        PROVE  UNCHANGED diskVars
    <2>1. ~DeliverMessage /\ ~WriteOldmail /\ ~FailWrite
      BY <1>1 DEF EndInv, ReturnedInv, DeliverMessage, WriteOldmail, FailWrite,
             Delivering, Remembering, Started
    <2>2. CASE Main \/ Server \/ FetchDone
      BY <1>1, <2>2 DEF Main, Begin, TouchOldmail, ReadOldmail, SelectFolder,
             CheckInterrupt, ListMessages, StreamingRetrieval,
             StreamingDelivery, StreamingOldmailWriteout, WaitAll, Server,
             EndFetch, FetchMessage, FetchDone
    <2>3. CASE Translate
      BY <2>3 DEF Translate, CheckCalled, PollInterrupt, ReportInterrupt,
             TranslateOnce, ReceiveNil, SendTranslated
    <2>4. CASE Deliver \/ Oldmail
      BY <2>1, <2>4 DEF Deliver, FailDelivery, SendDelivered, DeliverDone,
             CloseDelivered, Oldmail, SkipOldmail, OldmailDone
    <2>5. CASE Environment
      BY <2>5 DEF Environment, StartRun, ExitProcess, Crash, Signal, Arrive,
             Renumber, Expunge
    <2>6. CASE UNCHANGED vars
      BY <2>6 DEF vars
    <2> QED
      BY <1>1, <2>2, <2>3, <2>4, <2>5, <2>6 DEF Next
  <1> QED
    BY <1>1, EndInvInit, EndInvNext, TypeInvariant, PTL
       DEF Spec, QuietAfterReturn
=============================================================================
