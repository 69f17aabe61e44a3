------------------------ MODULE FolderPipelineProofs ------------------------
(***************************************************************************)
(* Where the messages of FolderDownload are, and what a run has done when  *)
(* it returns. PipeInv says that a message on its way is in one place at a *)
(* time: missing and not yet sent, held by translate, in one channel, held *)
(* by deliver, or in the other. On it rest the proofs that interrupts are  *)
(* heeded, that a spoiled folder is reported, that success is complete,    *)
(* that a duplicate is paid for by a failure and what is remembered not    *)
(* stored again, that the pipeline is never stuck, and that it implements  *)
(* Backup.                                                                 *)
(***************************************************************************)
EXTENDS FolderDownloadProofs, SequencesExt, SequenceTheorems

-----------------------------------------------------------------------------
(***************************************************************************)
(* Sequences whose elements are told apart by their position: what a       *)
(* channel holds.                                                          *)
(***************************************************************************)

\* Nothing is in an empty channel.
LEMMA EmptyChannel == ToSet(<<>>) = {} /\ IsInjective(<<>>)
  BY DEF ToSet, IsInjective

\* A send adds one element, which is new to the channel.
LEMMA SendToChannel ==
  ASSUME NEW S, NEW s \in Seq(S), NEW e \in S
  PROVE  /\ ToSet(Append(s, e)) = ToSet(s) \cup {e}
         /\ IsInjective(s) /\ e \notin ToSet(s) => IsInjective(Append(s, e))
  <1>1. DOMAIN s = 1..Len(s) /\ DOMAIN Append(s, e) = 1..(Len(s) + 1)
    OBVIOUS
  <1>2. \A i \in 1..Len(s) : Append(s, e)[i] = s[i]
    OBVIOUS
  <1>3. Append(s, e)[Len(s) + 1] = e /\ Len(s) \in Nat
    OBVIOUS
  <1>4. \A i \in 1..(Len(s) + 1) : i \in 1..Len(s) \/ i = Len(s) + 1
    BY <1>3
  <1>5. ToSet(Append(s, e)) = ToSet(s) \cup {e}
    <2>1. ToSet(Append(s, e)) \subseteq ToSet(s) \cup {e}
      BY <1>1, <1>2, <1>3, <1>4 DEF ToSet
    <2>2. ToSet(s) \subseteq ToSet(Append(s, e))
      <3> SUFFICES ASSUME NEW i \in 1..Len(s) PROVE s[i] \in ToSet(Append(s, e))
        BY <1>1 DEF ToSet
      <3>1. i \in DOMAIN Append(s, e) /\ Append(s, e)[i] = s[i]
        BY <1>1, <1>2
      <3> QED
        BY <3>1 DEF ToSet
    <2>3. e \in ToSet(Append(s, e))
      BY <1>1, <1>3 DEF ToSet
    <2> QED
      BY <2>1, <2>2, <2>3
  <1>6. IsInjective(s) /\ e \notin ToSet(s) => IsInjective(Append(s, e))
    BY <1>1, <1>2, <1>3, <1>4 DEF ToSet, IsInjective
  <1> QED
    BY <1>5, <1>6

\* A receive takes the oldest element out of the channel.
LEMMA ReceiveFromChannel ==
  ASSUME NEW S, NEW s \in Seq(S), s # <<>>, IsInjective(s)
  PROVE  /\ Head(s) \in ToSet(s)
         /\ ToSet(Tail(s)) = ToSet(s) \ {Head(s)}
         /\ IsInjective(Tail(s))
  <1>1. DOMAIN s = 1..Len(s) /\ DOMAIN Tail(s) = 1..(Len(s) - 1)
    OBVIOUS
  <1>2. Len(s) \in Nat \ {0} /\ Head(s) = s[1]
    OBVIOUS
  <1>3. \A i \in 1..(Len(s) - 1) : Tail(s)[i] = s[i + 1] /\ i + 1 \in 1..Len(s)
    BY <1>2
  <1>4. \A i \in 1..Len(s) : i = 1 \/ i - 1 \in 1..(Len(s) - 1)
    BY <1>2
  <1>5. ToSet(Tail(s)) \subseteq ToSet(s) \ {Head(s)}
    <2> SUFFICES ASSUME NEW i \in 1..(Len(s) - 1)
                 PROVE  Tail(s)[i] \in ToSet(s) \ {Head(s)}
      BY <1>1 DEF ToSet
    <2>1. Tail(s)[i] = s[i + 1] /\ i + 1 \in 1..Len(s) /\ i + 1 # 1
      BY <1>2, <1>3
    <2>2. 1 \in 1..Len(s)
      BY <1>2
    <2> QED
      BY <1>1, <1>2, <2>1, <2>2 DEF ToSet, IsInjective
  <1>6. ToSet(s) \ {Head(s)} \subseteq ToSet(Tail(s))
    <2> SUFFICES ASSUME NEW i \in 1..Len(s), s[i] # Head(s)
                 PROVE  s[i] \in ToSet(Tail(s))
      BY <1>1 DEF ToSet
    <2>1. i - 1 \in 1..(Len(s) - 1) /\ (i - 1) + 1 = i
      BY <1>2, <1>4
    <2>2. Tail(s)[i - 1] = s[i]
      BY <1>3, <2>1
    <2> QED
      BY <1>1, <2>1, <2>2 DEF ToSet
  <1>7. IsInjective(Tail(s))
    <2> SUFFICES ASSUME NEW i \in 1..(Len(s) - 1), NEW j \in 1..(Len(s) - 1),
                        Tail(s)[i] = Tail(s)[j]
                 PROVE  i = j
      BY <1>1 DEF IsInjective
    <2>1. s[i + 1] = s[j + 1] /\ i + 1 \in 1..Len(s) /\ j + 1 \in 1..Len(s)
      BY <1>3
    <2>2. i + 1 = j + 1
      BY <1>1, <2>1 DEF IsInjective
    <2> QED
      BY <1>2, <2>2
  <1>8. Head(s) \in ToSet(s)
    BY <1>1, <1>2 DEF ToSet
  <1> QED
    BY <1>5, <1>6, <1>7, <1>8

-----------------------------------------------------------------------------
(***************************************************************************)
(* A process that is not running has no state; a goroutine that has not    *)
(* been started or has ended has left nothing in its hands or its channel. *)
(***************************************************************************)
IdleInv == pc["main"] = "idle" => Quiescent

DrainInv ==
    /\ pc["main"] \in SetupLabels \ {"retrieve"} => missing = {}
    /\ pc["fetch"] = "idle" => sent = {} /\ tchan = <<>> /\ errCounts = {}
    /\ pc["deliver"] = "idle" => dchan = <<>>
    /\ tmsg = NoUid <=> pc["translate"] # "send"
    /\ dmsg = NoUid <=> pc["deliver"] # "send"
    /\ pc["deliver"] \in {"close", "closed"} => tchan = <<>>
    /\ pc["oldmail"] = "done" => dchan = <<>>

\* The program has not been started.
LEMMA IdleInvInit == Init => IdleInv /\ DrainInv
  BY DEF Init, Quiescent, IdleInv, DrainInv, Goroutines, SetupLabels, NoUid

\* Only ExitProcess and Crash end the process, and while it is not running only
\* the mail server changes.
LEMMA IdleInvNext == TypeInv /\ IdleInv /\ [Next]_vars => IdleInv'
  <1> SUFFICES ASSUME TypeInv, IdleInv, [Next]_vars, pc'["main"] = "idle"
               PROVE  Quiescent'
    BY DEF IdleInv
  <1> USE DEF TypeInv, TypeOK, TypeProcess, Goroutines, diskVars, serverVars,
          stillVars, runVars, localVars, selVars, chanVars, pipeVars
  <1>1. CASE Main
    BY <1>1 DEF Main, Begin, TouchOldmail, ReadOldmail, SelectFolder,
           CheckInterrupt, ListMessages, DetermineMissing, StreamingRetrieval,
           StreamingDelivery, StreamingOldmailWriteout, WaitAll, Return, Goto
  <1>2. CASE FetchDone \/ Server \/ Translate \/ Deliver \/ Oldmail
    <2>1. pc["main"] = "idle"
      BY <1>2 DEF FetchDone, Server, EndFetch, FetchMessage, Translate,
             CheckCalled, PollInterrupt, ReportInterrupt, TranslateOnce,
             ReceiveNil, SendTranslated, Deliver, DeliverMessage, FailDelivery,
             SendDelivered, DeliverDone, CloseDelivered, Oldmail, WriteOldmail,
             FailWrite, SkipOldmail, OldmailDone, Goto
    <2>2. \A g \in Goroutines : pc[g] = "idle"
      BY <2>1 DEF IdleInv, Quiescent
    <2> QED
      BY <1>2, <2>2 DEF FetchDone, Server, EndFetch, FetchMessage, Translate,
             CheckCalled, PollInterrupt, ReportInterrupt, TranslateOnce,
             ReceiveNil, SendTranslated, Deliver, DeliverMessage, FailDelivery,
             SendDelivered, DeliverDone, CloseDelivered, Oldmail, WriteOldmail,
             FailWrite, SkipOldmail, OldmailDone, Fetching, Delivering,
             Remembering
  <1>3. CASE StartRun
    BY <1>3 DEF StartRun, Goto
  <1>4. CASE ExitProcess \/ Crash
    BY <1>4 DEF ExitProcess, Crash, EndProcess, Quiescent
  <1>5. CASE Signal \/ Arrive \/ Renumber \/ \E u \in Uid : Expunge(u)
    BY <1>5 DEF Signal, Arrive, Renumber, Expunge, IdleInv, Quiescent
  <1>6. CASE UNCHANGED vars
    BY <1>6 DEF vars, IdleInv, Quiescent
  <1> QED
    BY <1>1, <1>2, <1>3, <1>4, <1>5, <1>6 DEF Next, Environment

\* The oldest message in a channel is one.
LEMMA HeadIsUid ==
  ASSUME NEW s \in Seq(Uid), s # <<>>
  PROVE  Head(s) \in Uid /\ Head(s) # NoUid /\ Tail(s) \in Seq(Uid)
  <1>1. Head(s) \in Uid
    OBVIOUS
  <1> QED
    BY <1>1, BoundsAssumption DEF Uid, NoUid

\* translate and deliver hand on what they hold before they do anything else,
\* deliver ends with its channel empty after translate has closed it, and so
\* does oldmail.
LEMMA DrainInvNext == TypeInv /\ IdleInv /\ DrainInv /\ [Next]_vars => DrainInv'
  <1> SUFFICES ASSUME TypeInv, IdleInv, DrainInv, [Next]_vars PROVE DrainInv'
    OBVIOUS
  <1> USE DEF TypeInv, TypeOK, TypeProcess, TypePipe, Goroutines, Uid, NoUid,
          ControlInv, Labels, SetupInv, SetupLabels, CarryInv, OrderInv,
          DrainInv, diskVars, serverVars, stillVars, runVars, localVars,
          selVars, chanVars, pipeVars
  <1>0. ASSUME UNCHANGED <<missing, pipeVars>>,
               \A g \in Goroutines \ {"main"} : pc'[g] = pc[g],
               pc'["main"] \in SetupLabels \ {"retrieve"}
                 => pc["main"] \in SetupLabels \ {"retrieve"}
        PROVE  DrainInv'
    BY <1>0
  <1>1. CASE Begin
    BY <1>0, <1>1 DEF Begin, Return, Goto
  <1>22. CASE TouchOldmail \/ ReadOldmail
    BY <1>0, <1>22 DEF TouchOldmail, ReadOldmail, Return, Goto
  <1>23. CASE CheckInterrupt
    BY <1>0, <1>23 DEF CheckInterrupt, Return, Goto
  <1>24. CASE WaitAll
    <2>1. pc' = [pc EXCEPT !["main"] = "returned"]
      BY <1>24 DEF WaitAll, Return, Goto
    <2> QED
      BY <1>0, <1>24, <2>1 DEF WaitAll
  <1>2. CASE SelectFolder
    BY <1>2 DEF SelectFolder, Return, Goto
  <1>3. CASE ListMessages
    BY <1>3 DEF ListMessages, DetermineMissing, Return, Goto
  <1>4. CASE StreamingRetrieval
    BY <1>4 DEF StreamingRetrieval
  <1>5. CASE StreamingDelivery
    BY <1>5 DEF StreamingDelivery
  <1>6. CASE StreamingOldmailWriteout
    BY <1>6 DEF StreamingOldmailWriteout, Return, Goto
  <1>7. CASE FetchDone \/ EndFetch
    BY <1>7 DEF FetchDone, EndFetch, Fetching, Count, Goto
  <1>8. ASSUME NEW u \in Uid, FetchMessage(u) PROVE DrainInv'
    BY <1>8 DEF FetchMessage, Fetching, Started, Goto
  <1>9. CASE \/ CheckCalled \/ PollInterrupt \/ ReportInterrupt
             \/ TranslateOnce \/ ReceiveNil
    BY <1>9 DEF CheckCalled, PollInterrupt, ReportInterrupt, TranslateOnce,
           ReceiveNil, Count, Goto
  <1>10. CASE SendTranslated
    BY <1>10 DEF SendTranslated, Goto
  <1>11. CASE DeliverMessage
    <2>1. Head(tchan) \in Uid /\ Head(tchan) # NoUid
      BY <1>11, HeadIsUid DEF DeliverMessage
    <2>2. pc' = [pc EXCEPT !["deliver"] = "send"]
      BY <1>11 DEF DeliverMessage, Goto
    <2>3. pc["deliver"] = "receive" /\ pc["fetch"] # "idle"
      BY <1>11 DEF DeliverMessage, Delivering, Started
    <2>4. dmsg' = Head(tchan) /\ pc'["deliver"] = "send"
      BY <1>11, <2>2 DEF DeliverMessage
    <2>5. \A g \in Goroutines \ {"deliver"} : pc'[g] = pc[g]
      BY <2>2
    <2>6. UNCHANGED <<missing, sent, tmsg, dchan, errCounts>>
      BY <1>11 DEF DeliverMessage
    <2> QED
      BY <2>1, <2>3, <2>4, <2>5, <2>6
  <1>12. CASE FailDelivery
    BY <1>12 DEF FailDelivery, Delivering, Started, Count
  <1>13. CASE SendDelivered
    BY <1>13 DEF SendDelivered, Goto
  <1>14. CASE DeliverDone \/ CloseDelivered
    BY <1>14 DEF DeliverDone, CloseDelivered, Delivering, Started, Goto
  <1>15. CASE WriteOldmail \/ SkipOldmail
    BY <1>15 DEF WriteOldmail, SkipOldmail, Remembering, Started
  <1>16. CASE FailWrite
    BY <1>16 DEF FailWrite, Remembering, Started, Count
  <1>17. CASE OldmailDone
    BY <1>17 DEF OldmailDone, Remembering, Started, Count, Goto
  <1>18. CASE StartRun
    BY <1>18 DEF StartRun, Goto, IdleInv, Quiescent
  <1>19. CASE ExitProcess \/ Crash
    BY <1>19 DEF ExitProcess, Crash, EndProcess
  <1>20. CASE Signal \/ Arrive \/ Renumber \/ \E u \in Uid : Expunge(u)
    BY <1>0, <1>20 DEF Signal, Arrive, Renumber, Expunge
  <1>21. CASE UNCHANGED vars
    BY <1>21 DEF vars
  <1> QED
    BY <1>1, <1>2, <1>3, <1>4, <1>5, <1>6, <1>7, <1>8, <1>9, <1>10, <1>11,
       <1>12, <1>13, <1>14, <1>15, <1>16, <1>17, <1>18, <1>19, <1>20, <1>21,
       <1>22, <1>23, <1>24
       DEF Next, Main, Server, Translate, Deliver, Oldmail, Environment

-----------------------------------------------------------------------------
(***************************************************************************)
(* Where the messages of a run are. A message is in one place at a time:   *)
(* missing but not sent by the server, with translate, in the channel to   *)
(* deliver, with deliver, in the channel to oldmail. What is in one of     *)
(* them is not remembered.                                                 *)
(***************************************************************************)
ToStore == (missing \ sent) \cup ({tmsg} \ {NoUid}) \cup ToSet(tchan)

\* Stored by this run, the line still to be written.
ToWrite == ({dmsg} \ {NoUid}) \cup ToSet(dchan)

FlowInv ==
    /\ IsInjective(tchan) /\ IsInjective(dchan)
    /\ tmsg \notin ToSet(tchan) /\ dmsg \notin ToSet(dchan)
    /\ tmsg # NoUid => tmsg \in sent
    /\ ToSet(tchan) \subseteq sent /\ sent \subseteq missing
    /\ ToWrite \subseteq sent
    /\ ToStore \cap ToWrite = {}
    /\ \A u \in ToStore \cup ToWrite : <<mbox, u>> \notin Remembered

\* Nothing is on its way before the first run.
LEMMA FlowInvInit == Init => FlowInv
  BY EmptyChannel DEF Init, Quiescent, FlowInv, ToStore, ToWrite, NoUid

\* While nothing moves, nothing that is on its way is remembered.
LEMMA FlowFrame ==
  ASSUME FlowInv, UNCHANGED <<mbox, missing, sent, tmsg, tchan, dmsg, dchan>>,
         Remembered' \subseteq Remembered
  PROVE  FlowInv'
  BY DEF FlowInv, ToStore, ToWrite

\* Before a run has determined what is missing, and after it has ended, nothing
\* is on its way.
LEMMA FlowEmpty ==
  ASSUME missing = {}, sent = {}, tmsg = NoUid, tchan = <<>>, dmsg = NoUid,
         dchan = <<>>
  PROVE  FlowInv /\ ToStore = {} /\ ToWrite = {}
  BY EmptyChannel DEF FlowInv, ToStore, ToWrite, NoUid

\* In the early steps of main nothing is on its way.
LEMMA SetupEmpty ==
  ASSUME TypeInv, DrainInv, pc["main"] \in SetupLabels \ {"retrieve"}
  PROVE  /\ missing = {} /\ sent = {} /\ tmsg = NoUid /\ tchan = <<>>
         /\ dmsg = NoUid /\ dchan = <<>>
  BY DEF TypeInv, ControlInv, SetupInv, DrainInv

\* A message the server sends, or translate hands on, or deliver hands on,
\* stays to be stored, or to be written.
LEMMA HandOver ==
  ASSUME TypeInv, DrainInv, FlowInv,
         \/ \E u \in Uid : FetchMessage(u)
         \/ SendTranslated \/ SendDelivered
  PROVE  /\ ToStore' = ToStore /\ ToWrite' = ToWrite
         /\ IsInjective(tchan') /\ IsInjective(dchan')
  <1>0. tchan \in Seq(Uid) /\ dchan \in Seq(Uid)
    BY DEF TypeInv, TypeOK, TypePipe
  <1>1. ASSUME NEW u \in Uid, FetchMessage(u)
        PROVE  ToStore' = ToStore /\ UNCHANGED <<tchan, dmsg, dchan>>
    <2>1. UNCHANGED <<missing, tchan, dmsg, dchan>>
      BY <1>1 DEF FetchMessage, localVars, selVars
    <2>2. u \in missing \ sent /\ sent' = sent \cup {u} /\ tmsg' = u
      BY <1>1 DEF FetchMessage
    <2>3. tmsg = NoUid
      BY <1>1 DEF FetchMessage, DrainInv
    <2> QED
      BY <2>1, <2>2, <2>3, BoundsAssumption DEF ToStore, Uid, NoUid
  <1>2. CASE SendTranslated
    <2>1. UNCHANGED <<missing, sent, dmsg, dchan>>
      BY <1>2 DEF SendTranslated, stillVars, localVars, selVars
    <2>2. tmsg \in Uid /\ tmsg # NoUid
      BY <1>2 DEF SendTranslated, DrainInv, TypeInv, ControlInv, CarryInv
    <2>3. tmsg' = NoUid /\ ToSet(tchan') = ToSet(tchan) \cup {tmsg}
             /\ IsInjective(tchan')
      BY <1>0, <1>2, <2>2, SendToChannel DEF SendTranslated, FlowInv
    <2> QED
      BY <2>1, <2>2, <2>3 DEF ToStore, ToWrite, FlowInv
  <1>3. CASE SendDelivered
    <2>1. UNCHANGED <<missing, sent, tmsg, tchan>>
      BY <1>3 DEF SendDelivered, stillVars, localVars, selVars
    <2>2. dmsg \in Uid /\ dmsg # NoUid
      BY <1>3 DEF SendDelivered, DrainInv, TypeInv, ControlInv, CarryInv
    <2>3. dmsg' = NoUid /\ ToSet(dchan') = ToSet(dchan) \cup {dmsg}
             /\ IsInjective(dchan')
      BY <1>0, <1>3, <2>2, SendToChannel DEF SendDelivered, FlowInv
    <2> QED
      BY <2>1, <2>2, <2>3 DEF ToStore, ToWrite, FlowInv
  <1> QED
    BY <1>1, <1>2, <1>3 DEF ToWrite, FlowInv

\* What deliver receives is no longer to be stored, and is to be written if it
\* was stored.
LEMMA Delivery ==
  ASSUME TypeInv, DrainInv, FlowInv, DeliverMessage \/ FailDelivery
  PROVE  /\ Head(tchan) \in ToStore /\ Head(tchan) \in Uid
         /\ ToStore' = ToStore \ {Head(tchan)}
         /\ DeliverMessage => ToWrite' = ToWrite \cup {Head(tchan)}
         /\ FailDelivery => ToWrite' = ToWrite
         /\ ToSet(tchan') \subseteq ToSet(tchan) /\ IsInjective(tchan')
  <1>0. tchan \in Seq(Uid) /\ tchan # <<>> /\ tchan' = Tail(tchan)
    BY DEF TypeInv, TypeOK, TypePipe, DeliverMessage, FailDelivery
  <1>1. UNCHANGED <<missing, sent, tmsg, dchan>>
    BY DEF DeliverMessage, FailDelivery, stillVars, localVars, selVars
  <1>2. Head(tchan) \in Uid /\ Head(tchan) # NoUid
    BY <1>0, HeadIsUid
  <1>3. /\ Head(tchan) \in ToSet(tchan)
        /\ ToSet(tchan') = ToSet(tchan) \ {Head(tchan)}
        /\ IsInjective(tchan')
    BY <1>0, ReceiveFromChannel DEF FlowInv
  <1>4. ToStore' = ToStore \ {Head(tchan)} /\ Head(tchan) \in ToStore
    BY <1>1, <1>3 DEF FlowInv, ToStore
  <1>5. DeliverMessage => dmsg = NoUid /\ dmsg' = Head(tchan)
    BY DEF DeliverMessage, Delivering, DrainInv
  <1>6. FailDelivery => dmsg' = dmsg
    BY DEF FailDelivery
  <1> QED
    BY <1>1, <1>2, <1>3, <1>4, <1>5, <1>6 DEF ToWrite

\* What oldmail receives is no longer to be written.
LEMMA Writeout ==
  ASSUME TypeInv, FlowInv, WriteOldmail \/ FailWrite \/ SkipOldmail
  PROVE  /\ Head(dchan) \in ToWrite /\ Head(dchan) \in Uid
         /\ ToWrite' = ToWrite \ {Head(dchan)} /\ ToStore' = ToStore
         /\ ToSet(dchan') \subseteq ToSet(dchan) /\ IsInjective(dchan')
  <1>0. dchan \in Seq(Uid) /\ dchan # <<>> /\ dchan' = Tail(dchan)
    BY DEF TypeInv, TypeOK, TypePipe, WriteOldmail, FailWrite, SkipOldmail
  <1>1. UNCHANGED <<missing, sent, tmsg, tchan, dmsg>>
    BY DEF WriteOldmail, FailWrite, SkipOldmail, stillVars, localVars, selVars
  <1>2. Head(dchan) \in Uid
    BY <1>0, HeadIsUid
  <1>3. /\ Head(dchan) \in ToSet(dchan)
        /\ ToSet(dchan') = ToSet(dchan) \ {Head(dchan)}
        /\ IsInjective(dchan')
    BY <1>0, ReceiveFromChannel DEF FlowInv
  <1> QED
    BY <1>1, <1>2, <1>3 DEF ToStore, ToWrite, FlowInv

\* Every hand-over takes the message out of one place and puts it into the
\* next; oldmail's takes it out of the last one, whether or not its line was
\* written.
LEMMA FlowInvNext == TypeInv /\ DrainInv /\ FlowInv /\ [Next]_vars => FlowInv'
  <1> SUFFICES ASSUME TypeInv, DrainInv, FlowInv, [Next]_vars PROVE FlowInv'
    OBVIOUS
  <1>0. tchan \in Seq(Uid) /\ dchan \in Seq(Uid)
    BY DEF TypeInv, TypeOK, TypePipe
  <1>1. CASE SelectFolder
    <2>1. missing = {} /\ sent = {} /\ tmsg = NoUid /\ tchan = <<>>
             /\ dmsg = NoUid /\ dchan = <<>>
      BY <1>1, SetupEmpty DEF SelectFolder, SetupLabels
    <2>2. UNCHANGED <<missing, sent, tmsg, tchan, dmsg, dchan>>
      BY <1>1 DEF SelectFolder, pipeVars, chanVars
    <2> QED
      BY <2>1, <2>2, EmptyChannel DEF FlowInv, ToStore, ToWrite, NoUid
  <1>2. CASE ListMessages
    <2>1. missing = {} /\ sent = {} /\ tmsg = NoUid /\ tchan = <<>>
             /\ dmsg = NoUid /\ dchan = <<>>
      BY <1>2, SetupEmpty DEF ListMessages, SetupLabels
    <2>2. UNCHANGED <<mbox, oldmail, openLine, sent, tmsg, tchan, dmsg, dchan>>
      BY <1>2 DEF ListMessages, pipeVars, chanVars, diskVars
    <2>3. missing' = {} \/ \E uids : missing' = MissingUIDs(uids)
      BY <1>2, <2>1 DEF ListMessages, DetermineMissing
    <2>4. \A u \in missing' : <<mbox, u>> \notin Remembered
      BY <2>3 DEF MissingUIDs
    <2> QED
      BY <2>1, <2>2, <2>4, EmptyChannel
         DEF FlowInv, ToStore, ToWrite, Remembered, NoUid
  <1>3. ASSUME NEW u \in Uid, FetchMessage(u) PROVE FlowInv'
    <2>1. UNCHANGED <<mbox, oldmail, openLine, missing, tchan, dmsg, dchan>>
      BY <1>3 DEF FetchMessage, diskVars, localVars, selVars
    <2>2. u \in missing \ sent /\ sent' = sent \cup {u} /\ tmsg' = u
      BY <1>3 DEF FetchMessage
    <2>3. ToStore' = ToStore /\ ToWrite' = ToWrite
      BY <1>3, HandOver
    <2> QED
      BY <2>1, <2>2, <2>3 DEF FlowInv, ToStore, Remembered
  <1>4. CASE SendTranslated \/ SendDelivered
    <2>1. UNCHANGED <<mbox, oldmail, openLine, missing, sent>>
      BY <1>4 DEF SendTranslated, SendDelivered, diskVars, stillVars,
             localVars, selVars
    <2>2. /\ ToStore' = ToStore /\ ToWrite' = ToWrite
          /\ IsInjective(tchan') /\ IsInjective(dchan')
      BY <1>4, HandOver
    <2>3. \/ tmsg' = NoUid /\ dmsg' = dmsg /\ dchan' = dchan
          \/ dmsg' = NoUid /\ tmsg' = tmsg /\ tchan' = tchan
      BY <1>4 DEF SendTranslated, SendDelivered
    <2>4. NoUid \notin Uid /\ NoUid \notin sent
      BY BoundsAssumption DEF TypeInv, TypeOK, TypePipe, Uid, NoUid
    <2>5. NoUid \notin ToStore \cup ToWrite
      BY <2>4 DEF FlowInv, ToStore, ToWrite, TypeInv, TypeOK, TypeLocals
    <2>6. ToSet(tchan') \subseteq sent
      <3>1. ToSet(tchan') \subseteq ToSet(tchan) \cup ({tmsg} \ {NoUid})
        <4>1. CASE SendTranslated
          <5>1. tmsg \in Uid /\ tmsg # NoUid
            BY <4>1 DEF SendTranslated, DrainInv, TypeInv, ControlInv, CarryInv
          <5> QED
            BY <1>0, <4>1, <5>1, SendToChannel DEF SendTranslated
        <4>2. CASE SendDelivered
          BY <4>2 DEF SendDelivered
        <4> QED
          BY <1>4, <4>1, <4>2
      <3> QED
        BY <3>1 DEF FlowInv
    <2>7. tmsg' \notin ToSet(tchan') /\ dmsg' \notin ToSet(dchan')
      BY <2>2, <2>3, <2>5 DEF FlowInv, ToStore, ToWrite
    <2> QED
      BY <2>1, <2>2, <2>3, <2>6, <2>7 DEF FlowInv, Remembered
  <1>5. CASE DeliverMessage \/ FailDelivery
    <2>1. UNCHANGED <<mbox, oldmail, openLine, missing, sent, tmsg, dchan>>
      BY <1>5 DEF DeliverMessage, FailDelivery, diskVars, stillVars, localVars,
             selVars
    <2>2. /\ Head(tchan) \in ToStore
          /\ ToStore' = ToStore \ {Head(tchan)}
          /\ ToWrite' \subseteq ToWrite \cup {Head(tchan)}
          /\ ToSet(tchan') \subseteq ToSet(tchan) /\ IsInjective(tchan')
      BY <1>5, Delivery
    <2>3. Head(tchan) \in ToSet(tchan)
      BY <1>0, <1>5, ReceiveFromChannel DEF DeliverMessage, FailDelivery, FlowInv
    <2>4. dmsg' = dmsg \/ dmsg' = Head(tchan)
      BY <1>5 DEF DeliverMessage, FailDelivery
    <2> QED
      BY <2>1, <2>2, <2>3, <2>4 DEF FlowInv, ToWrite, Remembered
  <1>8. CASE WriteOldmail \/ FailWrite \/ SkipOldmail
    <2>1. UNCHANGED <<mbox, missing, sent, tmsg, tchan, dmsg>>
      BY <1>8 DEF WriteOldmail, FailWrite, SkipOldmail, stillVars, localVars,
             selVars
    <2>2. /\ Head(dchan) \in ToWrite
          /\ ToWrite' = ToWrite \ {Head(dchan)} /\ ToStore' = ToStore
          /\ ToSet(dchan') \subseteq ToSet(dchan) /\ IsInjective(dchan')
      BY <1>8, Writeout
    <2>3. Remembered' \subseteq Remembered \cup {<<mbox, Head(dchan)>>}
      BY <1>8 DEF WriteOldmail, FailWrite, SkipOldmail, Remembered, diskVars
    <2>4. \A u \in ToStore' \cup ToWrite' : u # Head(dchan)
      BY <2>2 DEF FlowInv
    <2>5. \A u \in ToStore' \cup ToWrite' : <<mbox, u>> \notin Remembered'
      BY <2>2, <2>3, <2>4 DEF FlowInv
    <2> QED
      BY <2>1, <2>2, <2>5 DEF FlowInv
  <1>9. CASE ExitProcess \/ Crash
    <2>1. /\ missing' = {} /\ sent' = {} /\ tmsg' = NoUid /\ tchan' = <<>>
          /\ dmsg' = NoUid /\ dchan' = <<>>
      BY <1>9 DEF ExitProcess, Crash, EndProcess
    <2> QED
      BY <2>1, EmptyChannel DEF FlowInv, ToStore, ToWrite, NoUid
  <1>10. CASE Begin \/ TouchOldmail
    BY <1>10, FlowFrame DEF Begin, TouchOldmail, Remembered, selVars, pipeVars,
           chanVars
  <1>11. CASE \/ ReadOldmail \/ CheckInterrupt \/ StreamingRetrieval
              \/ StreamingDelivery \/ StreamingOldmailWriteout \/ WaitAll
    BY <1>11, FlowFrame DEF ReadOldmail, CheckInterrupt, StreamingRetrieval,
           StreamingDelivery, StreamingOldmailWriteout, WaitAll, Remembered,
           diskVars, stillVars, localVars, selVars, pipeVars, chanVars
  <1>12. CASE \/ FetchDone \/ EndFetch \/ CheckCalled \/ PollInterrupt
              \/ ReportInterrupt \/ TranslateOnce \/ ReceiveNil
    BY <1>12, FlowFrame DEF FetchDone, EndFetch, CheckCalled, PollInterrupt,
           ReportInterrupt, TranslateOnce, ReceiveNil, Remembered, diskVars,
           stillVars, localVars, selVars, pipeVars, chanVars
  <1>13. CASE DeliverDone \/ CloseDelivered \/ OldmailDone
    BY <1>13, FlowFrame DEF DeliverDone, CloseDelivered, OldmailDone,
           Remembered, diskVars, stillVars, localVars, selVars, pipeVars,
           chanVars
  <1>14. CASE \/ StartRun \/ Signal \/ Arrive \/ Renumber
              \/ \E u \in Uid : Expunge(u)
    BY <1>14, FlowFrame DEF StartRun, Signal, Arrive, Renumber, Expunge,
           Remembered, diskVars, localVars, selVars, pipeVars, chanVars
  <1>15. CASE UNCHANGED vars
    BY <1>15, FlowFrame DEF vars, Remembered, diskVars, localVars, selVars,
           pipeVars, chanVars
  <1> QED
    BY <1>1, <1>2, <1>3, <1>4, <1>5, <1>8, <1>9, <1>10, <1>11, <1>12,
       <1>13, <1>14, <1>15
       DEF Next, Main, Server, Translate, Deliver, Oldmail, Environment

-----------------------------------------------------------------------------
(***************************************************************************)
(* The oldmail file: it is touched once, before anything is written to it, *)
(* and only its last line can lack a newline.                              *)
(***************************************************************************)
DiskInv ==
    /\ folder # "ready" => oldmail = {} /\ openLine = {} /\ lines = "whole"
    /\ pc["main"] = "touch" => folder = "partial"
    /\ pc["main"] \in {"select", "check", "list", "retrieve"}
         => folder = "ready" /\ lines = "whole"
    /\ pc["fetch"] # "idle" => folder = "ready"
    /\ openLine \cap oldmail = {}
    /\ \A m, n \in openLine : m = n

\* There is no oldmail file before the first run.
LEMMA DiskInvInit == Init => DiskInv
  BY DEF Init, Quiescent, DiskInv, Goroutines

\* touch empties the oldmail file only where initMaildir has just made the
\* folder, readOldmail lets no unreadable file through, and what is written is
\* not there yet.
LEMMA DiskInvNext ==
    TypeInv /\ IdleInv /\ FlowInv /\ DiskInv /\ [Next]_vars => DiskInv'
  <1> SUFFICES ASSUME TypeInv, IdleInv, FlowInv, DiskInv, [Next]_vars
               PROVE  DiskInv'
    OBVIOUS
  <1>0. dchan # <<>> =>
          <<mbox, Head(dchan)>> \notin Remembered /\ dchan \in Seq(Uid)
    <2> HAVE dchan # <<>>
    <2>1. dchan \in Seq(Uid)
      BY DEF TypeInv, TypeOK, TypePipe
    <2>2. Head(dchan) \in ToSet(dchan)
      BY <2>1, ReceiveFromChannel DEF FlowInv
    <2> QED
      BY <2>1, <2>2 DEF FlowInv, ToWrite
  <1> USE DEF TypeInv, TypeOK, TypeProcess, Goroutines, ControlInv, SetupInv,
          SetupLabels, DiskInv
  <1>1. ASSUME UNCHANGED <<diskVars, pc>> PROVE DiskInv'
    BY <1>1 DEF diskVars
  <1>2. ASSUME UNCHANGED diskVars, pc'["main"] = pc["main"],
               pc'["fetch"] # "idle" => pc["fetch"] # "idle"
        PROVE  DiskInv'
    BY <1>2 DEF diskVars
  <1>3. CASE Begin
    BY <1>3 DEF Begin, Return, Goto
  <1>4. CASE TouchOldmail
    BY <1>4 DEF TouchOldmail, Return, Goto
  <1>5. CASE ReadOldmail
    <2>1. UNCHANGED diskVars
      BY <1>5 DEF ReadOldmail
    <2>2. CASE ~Unreadable /\ Goto("main", "select")
      <3>1. pc'["main"] = "select" /\ pc'["fetch"] = pc["fetch"]
        BY <2>2 DEF Goto
      <3>2. folder = "ready" /\ lines = "whole"
        BY <2>2 DEF Unreadable, TypeDisk
      <3> QED
        BY <2>1, <3>1, <3>2 DEF diskVars
    <2>3. CASE Return("error")
      BY <2>1, <2>3 DEF Return, Goto, diskVars
    <2> QED
      BY <1>5, <2>2, <2>3 DEF ReadOldmail
  <1>6. CASE SelectFolder
    BY <1>6 DEF SelectFolder, Return, Goto, diskVars
  <1>7. CASE CheckInterrupt
    BY <1>7 DEF CheckInterrupt, Return, Goto, diskVars
  <1>8. CASE ListMessages
    BY <1>8 DEF ListMessages, DetermineMissing, Return, Goto, diskVars
  <1>9. CASE StreamingRetrieval \/ StreamingDelivery
    BY <1>9 DEF StreamingRetrieval, StreamingDelivery, diskVars
  <1>10. CASE StreamingOldmailWriteout \/ WaitAll
    BY <1>10 DEF StreamingOldmailWriteout, WaitAll, Return, Goto, diskVars
  <1>11. CASE FetchDone \/ EndFetch \/ \E u \in Uid : FetchMessage(u)
    BY <1>2, <1>11 DEF FetchDone, EndFetch, FetchMessage, Fetching, Goto
  <1>12. CASE Translate
    BY <1>2, <1>12 DEF Translate, CheckCalled, PollInterrupt, ReportInterrupt,
           TranslateOnce, ReceiveNil, SendTranslated, Goto
  <1>13. CASE \/ FailDelivery \/ SendDelivered \/ DeliverDone
              \/ CloseDelivered \/ SkipOldmail \/ OldmailDone
    BY <1>2, <1>13 DEF FailDelivery, SendDelivered, DeliverDone,
           CloseDelivered, SkipOldmail, OldmailDone, Goto
  <1>14. CASE DeliverMessage
    <2>1. UNCHANGED <<folder, oldmail, openLine, lines>>
      BY <1>14 DEF DeliverMessage
    <2>2. pc'["main"] = pc["main"] /\ pc'["fetch"] = pc["fetch"]
      BY <1>14 DEF DeliverMessage, Goto
    <2> QED
      BY <2>1, <2>2
  <1>15. CASE WriteOldmail
    <2>1. UNCHANGED <<pc, folder>> /\ folder = "ready"
      BY <1>15 DEF WriteOldmail, Remembering, Started
    <2>2. pc["main"] \notin {"touch", "select", "check", "list", "retrieve"}
      BY <1>15 DEF WriteOldmail, Remembering, Started
    <2>3. openLine' \cap oldmail' = {} /\ \A m, n \in openLine' : m = n
      BY <1>15 DEF WriteOldmail
    <2> QED
      BY <2>1, <2>2, <2>3
  <1>16. CASE FailWrite
    <2>1. UNCHANGED <<pc, folder, oldmail>> /\ folder = "ready"
      BY <1>16 DEF FailWrite, Remembering, Started
    <2>2. pc["main"] \notin {"touch", "select", "check", "list", "retrieve"}
      BY <1>16 DEF FailWrite, Remembering, Started
    <2>3. openLine' \in {openLine, {}, {<<mbox, Head(dchan)>>}}
      BY <1>16 DEF FailWrite
    <2>4. openLine' \cap oldmail' = {} /\ \A m, n \in openLine' : m = n
      BY <1>0, <1>16, <2>1, <2>3 DEF FailWrite, Remembered
    <2> QED
      BY <2>1, <2>2, <2>4
  <1>17. CASE StartRun
    BY <1>17 DEF StartRun, Goto, diskVars
  <1>18. CASE ExitProcess \/ Crash
    BY <1>18 DEF ExitProcess, Crash, EndProcess, diskVars
  <1>19. CASE Signal \/ Arrive \/ Renumber \/ \E u \in Uid : Expunge(u)
    BY <1>1, <1>19 DEF Signal, Arrive, Renumber, Expunge
  <1>20. CASE UNCHANGED vars
    BY <1>1, <1>20 DEF vars
  <1> QED
    BY <1>3, <1>4, <1>5, <1>6, <1>7, <1>8, <1>9, <1>10, <1>11, <1>12, <1>13,
       <1>14, <1>15, <1>16, <1>17, <1>18, <1>19, <1>20
       DEF Next, Main, Server, Deliver, Oldmail, Environment

\* The invariant of the messages on their way, on which the theorems below rest.
PipeInv == TypeInv /\ IdleInv /\ DrainInv /\ FlowInv /\ DiskInv

\* Every step of a run, and every end of one, keeps it.
LEMMA PipeInvariant == Spec => []PipeInv
  <1>1. Init => PipeInv
    BY TypeInvInit, IdleInvInit, FlowInvInit, DiskInvInit DEF PipeInv
  <1>2. PipeInv /\ [Next]_vars => PipeInv'
    BY TypeInvNext, IdleInvNext, DrainInvNext, FlowInvNext, DiskInvNext
       DEF PipeInv
  <1> QED
    BY <1>1, <1>2, PTL DEF Spec

-----------------------------------------------------------------------------
(***************************************************************************)
(* An interrupt is heeded: with one pending translate can only be          *)
(* receiving if it polled before the signal came, and then only once.      *)
(***************************************************************************)
LateInv ==
    \/ late = 0
    \/ late = 1 /\ sig = "none"
    \/ late = 1 /\ sig = "full" /\ pc["translate"] # "recv"

\* No message has been accepted before the first run.
LEMMA LateInvInit == Init => LateInv
  BY DEF Init, Quiescent, LateInv

\* To receive another message translate must poll, and finds the interrupt.
LEMMA LateInvNext == PipeInv /\ LateInv /\ [Next]_vars => LateInv'
  <1> SUFFICES ASSUME PipeInv, LateInv, [Next]_vars PROVE LateInv'
    OBVIOUS
  <1> USE DEF PipeInv, TypeInv, TypeOK, TypeProcess, Goroutines, LateInv,
          runVars, stillVars
  <1>1. ASSUME UNCHANGED <<late, sig>>,
               pc'["translate"] = "recv" => pc["translate"] = "recv"
        PROVE  LateInv'
    BY <1>1
  <1>2. CASE Begin \/ CheckInterrupt
    BY <1>2 DEF Begin, CheckInterrupt, Poll, Interrupted, Return, Goto
  <1>3. CASE \/ TouchOldmail \/ ReadOldmail \/ SelectFolder
             \/ StreamingRetrieval \/ StreamingDelivery
    BY <1>1, <1>3 DEF TouchOldmail, ReadOldmail, SelectFolder,
           StreamingRetrieval, StreamingDelivery, Return, Goto
  <1>4. CASE ListMessages
    BY <1>1, <1>4 DEF ListMessages, DetermineMissing, Return, Goto
  <1>5. CASE StreamingOldmailWriteout \/ WaitAll
    BY <1>1, <1>5 DEF StreamingOldmailWriteout, WaitAll, Return, Goto
  <1>6. CASE FetchDone \/ EndFetch
    BY <1>1, <1>6 DEF FetchDone, EndFetch, Goto
  <1>7. ASSUME NEW u \in Uid, FetchMessage(u) PROVE LateInv'
    BY <1>7 DEF FetchMessage, Goto
  <1>8. CASE \/ CheckCalled \/ ReportInterrupt \/ TranslateOnce \/ ReceiveNil
             \/ SendTranslated
    BY <1>1, <1>8 DEF CheckCalled, ReportInterrupt, TranslateOnce, ReceiveNil,
           SendTranslated, Goto
  <1>9. CASE PollInterrupt
    BY <1>9 DEF PollInterrupt, Poll, Interrupted, Goto
  <1>10. CASE Deliver \/ Oldmail
    BY <1>1, <1>10 DEF Deliver, DeliverMessage, FailDelivery, SendDelivered,
           DeliverDone, CloseDelivered, Oldmail, WriteOldmail, FailWrite,
           SkipOldmail, OldmailDone, Goto
  <1>11. CASE StartRun
    BY <1>11 DEF StartRun, IdleInv, Quiescent
  <1>12. CASE ExitProcess \/ Crash
    BY <1>12 DEF ExitProcess, Crash, EndProcess
  <1>13. CASE Signal
    BY <1>13 DEF Signal
  <1>14. CASE Arrive \/ Renumber \/ \E u \in Uid : Expunge(u)
    BY <1>1, <1>14 DEF Arrive, Renumber, Expunge
  <1>15. CASE UNCHANGED vars
    BY <1>1, <1>15 DEF vars
  <1> QED
    BY <1>2, <1>3, <1>4, <1>5, <1>6, <1>7, <1>8, <1>9, <1>10, <1>11, <1>12,
       <1>13, <1>14, <1>15 DEF Next, Main, Server, Translate, Environment

\* Once an interrupt is pending at most one more message is accepted from the
\* server (interruptor.go, the loop of streamingRetrieval).
THEOREM InterruptIsHeeded == Spec => []InterruptHeeded
  <1>1. LateInv => InterruptHeeded
    BY DEF LateInv, InterruptHeeded
  <1> QED
    BY <1>1, LateInvInit, LateInvNext, PipeInvariant, PTL DEF Spec

-----------------------------------------------------------------------------
(***************************************************************************)
(* Nobody waits for a goroutine that waits. What a goroutine that is not   *)
(* at its end may do next is a step of its own, or the server's answer.    *)
(***************************************************************************)
TranslateMoves ==
    \/ pc["translate"] \in {"loop", "poll", "caught", "once"}
    \/ pc["translate"] = "recv" /\ (OrgClosed \/ Fetching)
    \/ pc["translate"] = "send" /\ Len(tchan) < messageRetrievalBuffer

DeliverMoves ==
    \/ Delivering /\ (tchan # <<>> \/ pc["translate"] = "closed")
    \/ pc["deliver"] = "send" /\ Len(dchan) < messageDeliveryBuffer
    \/ pc["deliver"] = "close"

OldmailMoves == Remembering /\ (dchan # <<>> \/ pc["deliver"] = "closed")

\* While the main goroutine waits for the group, or has waited, somebody can go on.
PipelineMoves ==
    pc["main"] = "wait" =>
      AllDone \/ pc["fetch"] = "once" \/ TranslateMoves \/ DeliverMoves \/ OldmailMoves

\* translate is started with fetch, and closes its channel only when the group has
\* been left for the two of them.
ClosedInv ==
    /\ pc["translate"] = "closed" => already = "called"
    /\ pc["translate"] = "idle" => pc["fetch"] = "idle"

LEMMA ClosedInvNext == TypeInv /\ ClosedInv /\ [Next]_vars => ClosedInv'
  <1> SUFFICES ASSUME TypeInv, ClosedInv, [Next]_vars PROVE ClosedInv'
    OBVIOUS
  <1> USE DEF TypeInv, TypeOK, TypeProcess, Goroutines, ClosedInv, stillVars, pipeVars
  <1>1. ASSUME UNCHANGED already,
               pc'["translate"] = "closed" => pc["translate"] = "closed",
               pc'["translate"] = "idle" => pc["translate"] = "idle",
               pc["fetch"] = "idle" => pc'["fetch"] = "idle"
        PROVE  ClosedInv'
    BY <1>1
  <1>2. CASE \/ Begin \/ TouchOldmail \/ ReadOldmail \/ SelectFolder \/ CheckInterrupt
             \/ StreamingDelivery
    BY <1>1, <1>2 DEF Begin, TouchOldmail, ReadOldmail, SelectFolder, CheckInterrupt,
           StreamingDelivery, Return, Goto
  <1>3. CASE StreamingRetrieval
    BY <1>3 DEF StreamingRetrieval
  <1>4. CASE ListMessages
    BY <1>1, <1>4 DEF ListMessages, DetermineMissing, Return, Goto
  <1>5. CASE StreamingOldmailWriteout \/ WaitAll
    BY <1>1, <1>5 DEF StreamingOldmailWriteout, WaitAll, Return, Goto
  <1>6. CASE FetchDone \/ TranslateOnce
    <2>1. already' = "called"
      BY <1>6 DEF FetchDone, TranslateOnce, CallOnce
    <2>2. pc'["translate"] = "idle" => pc["translate"] = "idle" /\ pc["fetch"] # "once"
      BY <1>6 DEF FetchDone, TranslateOnce, Goto
    <2>3. pc["fetch"] = "idle" => pc'["fetch"] = "idle"
      BY <1>6 DEF FetchDone, TranslateOnce, Goto
    <2> QED
      BY <2>1, <2>2, <2>3
  <1>7. CASE EndFetch \/ \E u \in Uid : FetchMessage(u)
    <2>1. CASE EndFetch
      BY <1>1, <2>1 DEF EndFetch, Fetching, Goto
    <2>2. ASSUME NEW u \in Uid, FetchMessage(u) PROVE ClosedInv'
      BY <1>1, <2>2 DEF FetchMessage, Goto
    <2> QED
      BY <1>7, <2>1, <2>2
  <1>8. CASE CheckCalled
    BY <1>8 DEF CheckCalled, Goto
  <1>9. CASE PollInterrupt \/ ReportInterrupt \/ ReceiveNil \/ SendTranslated
    BY <1>1, <1>9 DEF PollInterrupt, ReportInterrupt, ReceiveNil, SendTranslated, Goto
  <1>10. CASE Deliver \/ Oldmail
    BY <1>1, <1>10 DEF Deliver, DeliverMessage, FailDelivery, SendDelivered,
           DeliverDone, CloseDelivered, Oldmail, WriteOldmail, FailWrite,
           SkipOldmail, OldmailDone, Goto
  <1>11. CASE ExitProcess \/ Crash
    BY <1>11 DEF ExitProcess, Crash, EndProcess
  <1>12. CASE StartRun \/ Signal \/ Arrive \/ Renumber \/ \E u \in Uid : Expunge(u)
    BY <1>1, <1>12 DEF StartRun, Signal, Arrive, Renumber, Expunge, Goto
  <1>13. CASE UNCHANGED vars
    BY <1>1, <1>13 DEF vars
  <1> QED
    BY <1>2, <1>3, <1>4, <1>5, <1>6, <1>7, <1>8, <1>9, <1>10, <1>11, <1>12, <1>13
       DEF Next, Main, Server, Translate, Environment

\* If nobody can go on then oldmail's channel is empty, so that deliver can send, so
\* that its channel is empty, so that translate can send, and waits for fetch, which
\* has nothing to wait for but the server.
LEMMA SomebodyMoves == TypeInv /\ ClosedInv => PipelineMoves
  <1> SUFFICES ASSUME TypeInv, ClosedInv, pc["main"] = "wait", pc["fetch"] # "once",
                      ~TranslateMoves, ~DeliverMoves, ~OldmailMoves
               PROVE  AllDone
    BY DEF PipelineMoves
  <1>1. /\ Labels /\ SetupInv /\ WgInv /\ OrderInv /\ Started
        /\ messageRetrievalBuffer > 0 /\ messageDeliveryBuffer > 0
    BY BufferAssumption DEF TypeInv, ControlInv, SetupInv, Started
  <1>2. pc["fetch"] \in {"fetching", "done"} /\ pc["deliver"] # "idle"
    BY <1>1 DEF Labels, SetupInv
  <1>3. pc["translate"] \in {"recv", "send", "closed"}
    BY <1>1, <1>2 DEF TranslateMoves, Labels, ClosedInv
  <1>4. pc["translate"] # "recv"
    BY <1>1, <1>2 DEF TranslateMoves, OrgClosed, Fetching
  <1>5. CASE pc["oldmail"] = "receive"
    <2>1. dchan = <<>> /\ pc["deliver"] # "closed"
      BY <1>1, <1>5 DEF OldmailMoves, Remembering
    <2>2. pc["deliver"] = "receive"
      BY <1>1, <1>2, <2>1 DEF DeliverMoves, Labels
    <2>3. tchan = <<>> /\ pc["translate"] # "closed"
      BY <1>1, <2>2 DEF DeliverMoves, Delivering
    <2>4. pc["translate"] # "send"
      BY <1>1, <2>3 DEF TranslateMoves
    <2> QED
      BY <1>3, <1>4, <2>3, <2>4
  <1>6. CASE pc["oldmail"] = "done"
    <2>1. pc["deliver"] = "closed" /\ pc["translate"] = "closed" /\ already = "called"
      BY <1>1, <1>6 DEF OrderInv, ClosedInv
    <2> QED
      BY <1>6, <2>1, <1>1 DEF WgInv, One, AllDone
  <1> QED
    BY <1>1, <1>5, <1>6 DEF Labels, Started

\* downloadMissingEmailsToFolder is never left waiting by its own goroutines, whatever
\* failed and however small the channels: only the mail server can keep it.
THEOREM PipelineNeverStuck == Spec => []PipelineMoves
  <1>1. Init => ClosedInv
    BY DEF Init, Quiescent, ClosedInv, Goroutines
  <1>2. TypeInv /\ [Next]_vars => TypeInv'
    BY TypeInvNext
  <1> QED
    BY <1>1, <1>2, TypeInvInit, ClosedInvNext, SomebodyMoves, PTL DEF Spec

-----------------------------------------------------------------------------
(***************************************************************************)
(* The outcome of a run: success means that no goroutine counted an error  *)
(* and that all of them have come to their end.                            *)
(***************************************************************************)
OutcomeInv ==
    /\ pc["translate"] = "once" => "fetch" \in errCounts
    /\ already = "called" => "fetch" \in errCounts \/ pc["fetch"] = "done"
    /\ pc["main"] = "returned" <=> result # "none"
    /\ result = "ok" =>
         /\ errCounts = {}
         /\ pc["fetch"] # "idle" =>
              /\ pc["fetch"] = "done" /\ pc["translate"] = "closed"
              /\ pc["oldmail"] = "done"

\* There is no outcome before the first run.
LEMMA OutcomeInvInit == Init => OutcomeInv
  BY DEF Init, Quiescent, OutcomeInv, Goroutines

\* downloadMissingEmailsToFolder compares the counts of errors only after
\* wg.Wait(), when no goroutine can count another one.
LEMMA OutcomeInvNext == PipeInv /\ OutcomeInv /\ [Next]_vars => OutcomeInv'
  <1> SUFFICES ASSUME PipeInv, OutcomeInv, [Next]_vars PROVE OutcomeInv'
    OBVIOUS
  <1> USE DEF PipeInv, TypeInv, TypeOK, TypeProcess, Goroutines, ControlInv,
          Labels, SetupInv, SetupLabels, OrderInv, OutcomeInv
  <1>1. ASSUME UNCHANGED <<pc, already, errCounts, result>> PROVE OutcomeInv'
    BY <1>1
  <1>2. ASSUME UNCHANGED <<already, errCounts>>, pc["main"] # "returned",
               \A g \in Goroutines \ {"main"} : pc'[g] = pc[g],
               \/ pc'["main"] # "returned" /\ result' = result
               \/ pc'["main"] = "returned" /\ result' = "error"
               \/ /\ pc'["main"] = "returned" /\ result' = "ok"
                  /\ errCounts = {} /\ pc["fetch"] = "idle"
        PROVE  OutcomeInv'
    BY <1>2
  <1>3. CASE Begin \/ CheckInterrupt
    BY <1>2, <1>3 DEF Begin, CheckInterrupt, Return, Goto, pipeVars
  <1>4. CASE TouchOldmail \/ ReadOldmail \/ SelectFolder
    BY <1>2, <1>4 DEF TouchOldmail, ReadOldmail, SelectFolder, Return, Goto,
           pipeVars
  <1>5. CASE ListMessages
    <2>1. errCounts = {} /\ pc["fetch"] = "idle"
      BY <1>5 DEF ListMessages
    <2> QED
      BY <1>2, <1>5, <2>1 DEF ListMessages, DetermineMissing, Return, Goto,
             pipeVars
  <1>6. CASE StreamingRetrieval
    BY <1>6 DEF StreamingRetrieval, stillVars, localVars
  <1>7. CASE StreamingDelivery
    BY <1>7 DEF StreamingDelivery, stillVars, localVars
  <1>8. CASE StreamingOldmailWriteout
    BY <1>8 DEF StreamingOldmailWriteout, Return, Goto
  <1>9. CASE WaitAll
    <2>1. pc["oldmail"] = "done" /\ pc["deliver"] = "closed"
      BY <1>9 DEF WaitAll, AllDone, WgInv, One
    <2>2. pc["translate"] = "closed" /\ already = "called"
      BY <1>9, <2>1 DEF WaitAll, AllDone, WgInv, One, TypePipe
    <2>3. errCounts = {} => pc["fetch"] = "done"
      BY <2>2
    <2>4. /\ pc'["main"] = "returned" /\ UNCHANGED <<already, errCounts>>
          /\ \A g \in Goroutines \ {"main"} : pc'[g] = pc[g]
      BY <1>9 DEF WaitAll, Return, Goto, pipeVars
    <2>5. result' = IF errCounts # {} THEN "error" ELSE "ok"
      BY <1>9 DEF WaitAll, Return, PipelineErrors
    <2> QED
      BY <2>1, <2>2, <2>3, <2>4, <2>5
  <1>10. CASE FetchDone
    BY <1>10 DEF FetchDone, CallOnce, Goto, stillVars, localVars
  <1>11. CASE EndFetch
    BY <1>11 DEF EndFetch, Fetching, Count, Goto, stillVars, localVars
  <1>12. ASSUME NEW u \in Uid, FetchMessage(u) PROVE OutcomeInv'
    BY <1>12 DEF FetchMessage, Goto, localVars
  <1>13. CASE CheckCalled \/ PollInterrupt
    BY <1>13 DEF CheckCalled, PollInterrupt, Goto, stillVars, localVars,
           pipeVars
  <1>14. CASE ReportInterrupt
    BY <1>14 DEF ReportInterrupt, Count, Goto, stillVars, localVars
  <1>15. CASE TranslateOnce
    BY <1>15 DEF TranslateOnce, CallOnce, Goto, stillVars, localVars
  <1>16. CASE ReceiveNil \/ SendTranslated
    BY <1>16 DEF ReceiveNil, SendTranslated, Goto, stillVars, localVars,
           pipeVars
  <1>17. CASE DeliverMessage \/ SendDelivered
    BY <1>17 DEF DeliverMessage, SendDelivered, Goto, stillVars, localVars
  <1>18. CASE FailDelivery
    BY <1>18 DEF FailDelivery, Delivering, Started, Count, stillVars, localVars
  <1>19. CASE DeliverDone \/ CloseDelivered
    BY <1>19 DEF DeliverDone, CloseDelivered, Goto, stillVars, localVars,
           pipeVars
  <1>20. CASE WriteOldmail \/ SkipOldmail
    BY <1>1, <1>20 DEF WriteOldmail, SkipOldmail, stillVars, localVars
  <1>21. CASE FailWrite
    BY <1>21 DEF FailWrite, Remembering, Started, Count, stillVars, localVars
  <1>22. CASE OldmailDone
    BY <1>22 DEF OldmailDone, Remembering, Started, Count, Goto, stillVars,
           localVars
  <1>23. CASE StartRun
    BY <1>23 DEF StartRun, Goto, localVars, pipeVars
  <1>24. CASE ExitProcess \/ Crash
    BY <1>24 DEF ExitProcess, Crash, EndProcess
  <1>25. CASE Signal \/ Arrive \/ Renumber \/ \E u \in Uid : Expunge(u)
    BY <1>1, <1>25 DEF Signal, Arrive, Renumber, Expunge, localVars, pipeVars
  <1>26. CASE UNCHANGED vars
    BY <1>1, <1>26 DEF vars, localVars, pipeVars
  <1> QED
    BY <1>3, <1>4, <1>5, <1>6, <1>7, <1>8, <1>9, <1>10, <1>11, <1>12, <1>13,
       <1>14, <1>15, <1>16, <1>17, <1>18, <1>19, <1>20, <1>21, <1>22, <1>23,
       <1>24, <1>25, <1>26
       DEF Next, Main, Server, Translate, Deliver, Oldmail, Environment

\* A run that has returned without an error has emptied the pipeline.
LEMMA SuccessDrained ==
  ASSUME PipeInv, OutcomeInv, result = "ok"
  PROVE  /\ tmsg = NoUid /\ tchan = <<>> /\ dmsg = NoUid /\ dchan = <<>>
         /\ errCounts = {} /\ pc["main"] = "returned"
  <1> USE DEF PipeInv, TypeInv, ControlInv, SetupInv, OrderInv, DrainInv,
          OutcomeInv
  <1>1. CASE pc["fetch"] = "idle"
    BY <1>1
  <1>2. CASE pc["fetch"] # "idle"
    BY <1>2
  <1> QED
    BY <1>1, <1>2

-----------------------------------------------------------------------------
(***************************************************************************)
(* A spoiled folder is owed to a run that failed. The error of a write is  *)
(* counted until the run has reported it.                                  *)
(***************************************************************************)
SpoiledInv ==
    /\ folder = "partial" =>
         failures > 0 \/ pc["main"] = "touch" \/ result = "error"
    /\ lines = "garbled" \/ openLine # {} =>
         failures > 0 \/ "oldmail" \in errCounts

\* An absent folder is not spoiled.
LEMMA SpoiledInvInit == Init => SpoiledInv
  BY DEF Init, Quiescent, SpoiledInv

\* initMaildir goes on to touch or returns its error, oldmail counts the write
\* it failed, and a line written onto an open one is a second run's.
LEMMA SpoiledInvNext ==
    PipeInv /\ OutcomeInv /\ SpoiledInv /\ [Next]_vars => SpoiledInv'
  <1> SUFFICES ASSUME PipeInv, OutcomeInv, SpoiledInv, [Next]_vars
               PROVE  SpoiledInv'
    OBVIOUS
  <1>0. failures \in Nat
    BY DEF PipeInv, TypeInv, TypeOK, TypeProcess
  <1>10. pc["main"] # "returned" => result = "none"
    BY DEF OutcomeInv
  <1> USE DEF SpoiledInv, Goroutines, PipeInv, TypeInv, TypeOK, TypeProcess
  <1>1. ASSUME UNCHANGED <<folder, openLine, lines, failures>>,
               folder = "partial" /\ failures = 0 =>
                 pc'["main"] = "touch" \/ result' = "error",
               errCounts \subseteq errCounts'
        PROVE  SpoiledInv'
    BY <1>0, <1>1
  <1>2. ASSUME UNCHANGED <<folder, openLine, lines, failures, result>>,
               pc'["main"] = pc["main"], errCounts \subseteq errCounts'
        PROVE  SpoiledInv'
    BY <1>2
  <1>3. CASE Begin
    BY <1>0, <1>10, <1>3 DEF Begin, Return, Goto, runVars, pipeVars
  <1>4. CASE TouchOldmail
    BY <1>0, <1>10, <1>4 DEF TouchOldmail, Return, Goto, runVars, pipeVars
  <1>5. CASE \/ ReadOldmail \/ SelectFolder \/ CheckInterrupt
             \/ StreamingOldmailWriteout \/ WaitAll
    <2>1. folder # "partial" \/ failures > 0
      BY <1>5, <1>10 DEF ReadOldmail, SelectFolder, CheckInterrupt,
             StreamingOldmailWriteout, WaitAll
    <2>2. UNCHANGED <<folder, openLine, lines, failures, errCounts>>
      BY <1>5 DEF ReadOldmail, SelectFolder, CheckInterrupt,
             StreamingOldmailWriteout, WaitAll, diskVars, runVars, pipeVars
    <2> QED
      BY <1>0, <1>1, <2>1, <2>2
  <1>6. CASE ListMessages \/ StreamingRetrieval \/ StreamingDelivery
    <2>1. folder # "partial" \/ failures > 0
      BY <1>6, <1>10 DEF ListMessages, StreamingRetrieval, StreamingDelivery
    <2>2. UNCHANGED <<folder, openLine, lines, failures, errCounts>>
      BY <1>6 DEF ListMessages, StreamingRetrieval, StreamingDelivery,
             diskVars, runVars, pipeVars, stillVars
    <2> QED
      BY <1>0, <1>1, <2>1, <2>2
  <1>7. CASE FetchDone \/ EndFetch \/ \E u \in Uid : FetchMessage(u)
    BY <1>0, <1>2, <1>7 DEF FetchDone, EndFetch, FetchMessage, Goto, Count,
           diskVars, runVars, stillVars, localVars
  <1>8. CASE Translate
    <2>1. UNCHANGED <<folder, openLine, lines, failures, result>>
      BY <1>8 DEF Translate, CheckCalled, PollInterrupt, ReportInterrupt,
             TranslateOnce, ReceiveNil, SendTranslated, diskVars, runVars,
             stillVars, localVars
    <2>2. errCounts \subseteq errCounts'
      BY <1>8 DEF Translate, CheckCalled, PollInterrupt, ReportInterrupt,
             TranslateOnce, ReceiveNil, SendTranslated, Count, pipeVars
    <2>3. pc'["main"] = pc["main"]
      BY <1>0, <1>8 DEF Translate, CheckCalled, PollInterrupt,
             ReportInterrupt, TranslateOnce, ReceiveNil, SendTranslated, Goto
    <2> QED
      BY <1>2, <2>1, <2>2, <2>3
  <1>9. CASE Deliver \/ SkipOldmail \/ OldmailDone
    BY <1>0, <1>2, <1>9 DEF Deliver, DeliverMessage, FailDelivery,
           SendDelivered, DeliverDone, CloseDelivered, SkipOldmail,
           OldmailDone, Goto, Count, diskVars, runVars, stillVars, localVars,
           pipeVars
  <1>11. CASE WriteOldmail
    BY <1>11 DEF WriteOldmail, MayWrite, stillVars, runVars, localVars
  <1>12. CASE FailWrite
    BY <1>12 DEF FailWrite, Count, stillVars, runVars, localVars
  <1>13. CASE ExitProcess
    <2>1. result = "ok" => errCounts = {}
      BY DEF OutcomeInv
    <2>2. result = "ok" \/ failures' > 0
      <3>1. result = "ok" \/ result = "error"
        BY <1>13 DEF ExitProcess, OutcomeInv, PipeInv, TypeInv, TypeOK,
               TypeLocals
      <3> QED
        BY <1>0, <1>13, <3>1 DEF ExitProcess
    <2>3. result = "ok" => failures' = failures
      BY <1>0, <1>13 DEF ExitProcess
    <2> QED
      BY <1>13, <2>1, <2>2, <2>3 DEF ExitProcess, diskVars
  <1>14. CASE Crash
    BY <1>0, <1>14 DEF Crash, diskVars
  <1>15. CASE StartRun
    <2>1. errCounts = {} /\ result = "none" /\ pc["main"] = "idle"
      BY <1>15 DEF StartRun, PipeInv, IdleInv, Quiescent
    <2> QED
      BY <1>15, <2>1 DEF StartRun, diskVars
  <1>16. CASE Signal \/ Arrive \/ Renumber \/ \E u \in Uid : Expunge(u)
    BY <1>2, <1>16 DEF Signal, Arrive, Renumber, Expunge, diskVars, runVars,
           localVars, pipeVars
  <1>17. CASE UNCHANGED vars
    BY <1>2, <1>17 DEF vars, diskVars, runVars, localVars, pipeVars
  <1> QED
    BY <1>3, <1>4, <1>5, <1>6, <1>7, <1>8, <1>9, <1>11, <1>12, <1>13, <1>14,
       <1>15, <1>16, <1>17 DEF Next, Main, Server, Oldmail, Environment

\* The folder becomes unusable for later runs only through a run that failed,
\* was cut short, or is about to report its failed write.
THEOREM SpoiledIsReported == Spec => []NeverSpoiledSilently
  <1>1. OutcomeInv /\ SpoiledInv => NeverSpoiledSilently
    BY DEF OutcomeInv, SpoiledInv, NeverSpoiledSilently
  <1> QED
    BY <1>1, OutcomeInvInit, OutcomeInvNext, SpoiledInvInit, SpoiledInvNext,
       PipeInvariant, PTL DEF Spec

-----------------------------------------------------------------------------
(***************************************************************************)
(* Nothing is lost on the way: what a complete listing has shown and is    *)
(* still in the mailbox is remembered or on its way, unless an error was   *)
(* counted. UIDs are handed out in increasing order, so nothing that       *)
(* arrives later can be mistaken for what the run has seen.                *)
(***************************************************************************)
SeenInv == mailbox \cup view \cup missing \subseteq 1..(uidNext - 1)

ListedInv ==
    /\ pc["main"] \in SetupLabels \ {"retrieve"} => listing = "none"
    /\ pc["main"] \in {"retrieve", "deliver", "open", "wait"} \/ result = "ok"
         => listing \in {"complete", "lost"}

SentInv ==
    pc["fetch"] \in {"once", "done"} \/ result = "ok"
      => "fetch" \in errCounts \/ missing \cap mailbox \subseteq sent

FoundInv ==
    listing = "complete" /\ lines = "whole" /\ errCounts = {}
      /\ result # "error"
      => \A u \in view \cap mailbox :
           <<mbox, u>> \in Remembered \/ u \in ToStore \cup ToWrite

CompleteInv == SeenInv /\ ListedInv /\ SentInv /\ FoundInv

\* Before the first run only the mailbox has messages.
LEMMA CompleteInvInit == Init => CompleteInv
  <1> SUFFICES ASSUME Init PROVE CompleteInv
    OBVIOUS
  <1>1. SeenInv
    <2>1. PICK n \in 0..MaxUid : mailbox = 1..n /\ uidNext = n + 1
      BY DEF Init
    <2>2. view = {} /\ missing = {}
      BY DEF Init, Quiescent
    <2> QED
      BY <2>1, <2>2, BoundsAssumption DEF SeenInv
  <1>2. ListedInv /\ SentInv /\ FoundInv
    BY DEF Init, Quiescent, ListedInv, SentInv, FoundInv, Goroutines,
           SetupLabels
  <1> QED
    BY <1>1, <1>2 DEF CompleteInv

\* SelectFolder shows what is in the mailbox, ListMessages what it has shown,
\* and a message that arrives has a UID of its own.
LEMMA SeenInvNext == PipeInv /\ SeenInv /\ [Next]_vars => SeenInv'
  <1> SUFFICES ASSUME PipeInv, SeenInv, [Next]_vars PROVE SeenInv'
    OBVIOUS
  <1>0. uidNext \in Nat /\ uidNext >= 1
    BY BoundsAssumption DEF PipeInv, TypeInv, TypeOK, TypeServer
  <1> USE DEF SeenInv
  <1>1. ASSUME UNCHANGED uidNext, mailbox' \subseteq mailbox,
               view' \subseteq view \cup mailbox,
               missing' \subseteq missing \cup view
        PROVE  SeenInv'
    BY <1>1
  <1>2. CASE ListMessages
    <2>1. UNCHANGED <<mailbox, uidNext, view>>
      BY <1>2 DEF ListMessages, serverVars
    <2>2. ASSUME NEW uids, uids \subseteq view, DetermineMissing(uids)
          PROVE  missing' \subseteq missing \cup view
      BY <2>2 DEF DetermineMissing, MissingUIDs
    <2>3. missing' \subseteq missing \cup view
      BY <1>2, <2>2 DEF ListMessages
    <2> QED
      BY <1>1, <2>1, <2>3
  <1>3. CASE \/ Begin \/ TouchOldmail \/ ReadOldmail \/ SelectFolder
             \/ CheckInterrupt \/ StreamingOldmailWriteout \/ WaitAll
    BY <1>1, <1>3 DEF Begin, TouchOldmail, ReadOldmail, SelectFolder,
           CheckInterrupt, StreamingOldmailWriteout, WaitAll, serverVars,
           selVars
  <1>4. CASE \/ StreamingRetrieval \/ StreamingDelivery \/ FetchDone
             \/ EndFetch \/ \E u \in Uid : FetchMessage(u)
    BY <1>1, <1>4 DEF StreamingRetrieval, StreamingDelivery, FetchDone,
           EndFetch, FetchMessage, serverVars, stillVars, localVars, selVars
  <1>5. CASE Translate \/ Deliver \/ Oldmail
    BY <1>1, <1>5 DEF Translate, CheckCalled, PollInterrupt, ReportInterrupt,
           TranslateOnce, ReceiveNil, SendTranslated, Deliver, DeliverMessage,
           FailDelivery, SendDelivered, DeliverDone, CloseDelivered, Oldmail,
           WriteOldmail, FailWrite, SkipOldmail, OldmailDone, serverVars,
           stillVars, localVars, selVars
  <1>6. CASE \/ StartRun \/ ExitProcess \/ Crash \/ Signal
             \/ \E u \in Uid : Expunge(u)
    BY <1>1, <1>6 DEF StartRun, ExitProcess, Crash, EndProcess, Signal,
           Expunge, serverVars, localVars, selVars
  <1>7. CASE Arrive
    <2>1. /\ mailbox' = mailbox \cup {uidNext} /\ uidNext' = uidNext + 1
          /\ UNCHANGED <<view, missing>>
      BY <1>7 DEF Arrive, localVars, selVars
    <2>2. 1..(uidNext - 1) \subseteq 1..uidNext /\ uidNext \in 1..uidNext
             /\ uidNext' - 1 = uidNext
      BY <1>0, <2>1
    <2> QED
      BY <2>1, <2>2
  <1>8. CASE Renumber
    <2>1. PICK n \in 0..MaxUid : mailbox' = 1..n /\ uidNext' = n + 1
      BY <1>8 DEF Renumber
    <2>2. view' = {} /\ missing' = {}
      BY <1>8 DEF Renumber, PipeInv, IdleInv, Quiescent, localVars, selVars
    <2> QED
      BY <2>1, <2>2, BoundsAssumption
  <1>9. CASE UNCHANGED vars
    BY <1>1, <1>9 DEF vars, serverVars, localVars, selVars
  <1> QED
    BY <1>2, <1>3, <1>4, <1>5, <1>6, <1>7, <1>8, <1>9
       DEF Next, Main, Server, Environment

\* A run gets past its listing only with one that did not report an error.
LEMMA ListedInvNext ==
    PipeInv /\ OutcomeInv /\ ListedInv /\ [Next]_vars => ListedInv'
  <1> SUFFICES ASSUME PipeInv, OutcomeInv, ListedInv, [Next]_vars
               PROVE  ListedInv'
    OBVIOUS
  <1> DEFINE Past == {"retrieve", "deliver", "open", "wait"}
  <1>0. result = "ok" => pc["main"] = "returned"
    BY DEF OutcomeInv
  <1> USE DEF PipeInv, TypeInv, TypeOK, TypeProcess, Goroutines, ListedInv,
          SetupLabels
  <1>1. ASSUME UNCHANGED listing,
               pc'["main"] \in SetupLabels \ {"retrieve"}
                 => pc["main"] \in SetupLabels \ {"retrieve"},
               pc'["main"] \in Past => pc["main"] \in Past,
               result' = "ok" => result = "ok" \/ pc["main"] \in Past
        PROVE  ListedInv'
    BY <1>1
  <1>2. CASE Begin \/ TouchOldmail \/ ReadOldmail \/ CheckInterrupt
    BY <1>0, <1>1, <1>2 DEF Begin, TouchOldmail, ReadOldmail, CheckInterrupt,
           Return, Goto, selVars
  <1>3. CASE SelectFolder
    BY <1>0, <1>1, <1>3 DEF SelectFolder, Return, Goto
  <1>4. CASE ListMessages
    BY <1>0, <1>4 DEF ListMessages, DetermineMissing, Return, Goto, OutcomeInv
  <1>5. CASE StreamingRetrieval \/ StreamingDelivery
    BY <1>0, <1>1, <1>5 DEF StreamingRetrieval, StreamingDelivery, stillVars,
           localVars, selVars
  <1>6. CASE StreamingOldmailWriteout \/ WaitAll
    BY <1>0, <1>1, <1>6 DEF StreamingOldmailWriteout, WaitAll, Return, Goto,
           selVars
  <1>7. CASE \/ FetchDone \/ Server \/ Translate \/ Deliver \/ Oldmail
    <2>1. UNCHANGED <<listing, result>>
      BY <1>7 DEF FetchDone, Server, EndFetch, FetchMessage, Translate,
             CheckCalled, PollInterrupt, ReportInterrupt, TranslateOnce,
             ReceiveNil, SendTranslated, Deliver, DeliverMessage, FailDelivery,
             SendDelivered, DeliverDone, CloseDelivered, Oldmail, WriteOldmail,
             FailWrite, SkipOldmail, OldmailDone, stillVars, localVars, selVars
    <2>2. pc'["main"] = pc["main"]
      BY <1>7 DEF FetchDone, Server, EndFetch, FetchMessage, Translate,
             CheckCalled, PollInterrupt, ReportInterrupt, TranslateOnce,
             ReceiveNil, SendTranslated, Deliver, DeliverMessage, FailDelivery,
             SendDelivered, DeliverDone, CloseDelivered, Oldmail, WriteOldmail,
             FailWrite, SkipOldmail, OldmailDone, Goto
    <2> QED
      BY <1>1, <2>1, <2>2
  <1>8. CASE StartRun
    BY <1>0, <1>1, <1>8 DEF StartRun, Goto, localVars, selVars
  <1>9. CASE ExitProcess \/ Crash
    BY <1>9 DEF ExitProcess, Crash, EndProcess
  <1>10. CASE Signal \/ Arrive \/ Renumber \/ \E u \in Uid : Expunge(u)
    BY <1>1, <1>10 DEF Signal, Arrive, Renumber, Expunge, localVars, selVars
  <1>11. CASE UNCHANGED vars
    BY <1>1, <1>11 DEF vars, localVars, selVars
  <1> QED
    BY <1>2, <1>3, <1>4, <1>5, <1>6, <1>7, <1>8, <1>9, <1>10, <1>11
       DEF Next, Main, Environment

\* fetch ends without an error only when the server has sent all that is still
\* in the mailbox.
LEMMA SentInvNext ==
    PipeInv /\ OutcomeInv /\ SeenInv /\ SentInv /\ [Next]_vars => SentInv'
  <1> SUFFICES ASSUME PipeInv, OutcomeInv, SeenInv, SentInv, [Next]_vars
               PROVE  SentInv'
    OBVIOUS
  <1>0. uidNext \notin missing
    BY DEF SeenInv, PipeInv, TypeInv, TypeOK, TypeServer
  <1> USE DEF PipeInv, TypeInv, TypeOK, TypeProcess, Goroutines, SentInv
  <1>1. ASSUME missing \cap mailbox' \subseteq mailbox, missing' = missing,
               sent \subseteq sent', errCounts \subseteq errCounts',
               pc'["fetch"] \in {"once", "done"} => pc["fetch"] \in {"once", "done"},
               result' = "ok" => result = "ok" \/ pc["fetch"] = "done"
        PROVE  SentInv'
    BY <1>1
  <1>2. CASE Begin \/ TouchOldmail \/ ReadOldmail \/ CheckInterrupt
    BY <1>1, <1>2 DEF Begin, TouchOldmail, ReadOldmail, CheckInterrupt,
           Return, Goto, selVars, serverVars, pipeVars
  <1>3. CASE SelectFolder \/ StreamingOldmailWriteout
    BY <1>1, <1>3 DEF SelectFolder, StreamingOldmailWriteout, Return, Goto,
           selVars, serverVars, pipeVars
  <1>4. CASE ListMessages
    <2>1. /\ pc'["fetch"] = pc["fetch"]
          /\ result' = "ok" => result = "ok" \/ missing' = {}
      BY <1>4 DEF ListMessages, DetermineMissing, Return, Goto
    <2>2. pc["fetch"] = "idle" /\ result # "ok"
      BY <1>4 DEF ListMessages, ControlInv, SetupInv, SetupLabels, OutcomeInv
    <2> QED
      BY <2>1, <2>2
  <1>5. CASE StreamingRetrieval \/ StreamingDelivery
    BY <1>1, <1>5 DEF StreamingRetrieval, StreamingDelivery, stillVars,
           localVars, selVars, serverVars
  <1>6. CASE WaitAll
    <2>1. result' = "ok" => pc["fetch"] = "done"
      <3>1. OutcomeInv' /\ PipeInv
        BY <1>6, OutcomeInvNext DEF Next, Main
      <3>2. pc'["fetch"] = pc["fetch"] /\ pc["fetch"] # "idle"
        BY <1>6 DEF WaitAll, Return, Goto, ControlInv, SetupInv
      <3> QED
        BY <3>1, <3>2 DEF OutcomeInv
    <2>2. pc'["fetch"] = pc["fetch"]
      BY <1>6 DEF WaitAll, Return, Goto
    <2> QED
      BY <1>1, <1>6, <2>1, <2>2 DEF WaitAll, selVars, serverVars, pipeVars
  <1>7. CASE FetchDone
    BY <1>1, <1>7 DEF FetchDone, Goto, stillVars, localVars, selVars, serverVars
  <1>8. CASE EndFetch
    <2>1. "fetch" \in errCounts' \/ missing \cap mailbox \subseteq sent
      BY <1>8 DEF EndFetch, Count
    <2> QED
      BY <1>8, <2>1 DEF EndFetch, stillVars, localVars, selVars, serverVars
  <1>9. ASSUME NEW u \in Uid, FetchMessage(u) PROVE SentInv'
    BY <1>1, <1>9 DEF FetchMessage, Goto, localVars, selVars, serverVars
  <1>10. CASE Translate
    <2>1. UNCHANGED <<missing, mailbox, sent, result>>
      BY <1>10 DEF Translate, CheckCalled, PollInterrupt, ReportInterrupt,
             TranslateOnce, ReceiveNil, SendTranslated, stillVars, localVars,
             selVars, serverVars, pipeVars
    <2>2. errCounts \subseteq errCounts'
      BY <1>10 DEF Translate, CheckCalled, PollInterrupt, ReportInterrupt,
             TranslateOnce, ReceiveNil, SendTranslated, Count, pipeVars
    <2>3. pc'["fetch"] = pc["fetch"]
      BY <1>10 DEF Translate, CheckCalled, PollInterrupt, ReportInterrupt,
             TranslateOnce, ReceiveNil, SendTranslated, Goto
    <2> QED
      BY <1>1, <2>1, <2>2, <2>3
  <1>11. CASE Deliver \/ Oldmail
    <2>1. UNCHANGED <<missing, mailbox, sent, result>>
      BY <1>11 DEF Deliver, DeliverMessage, FailDelivery, SendDelivered,
             DeliverDone, CloseDelivered, Oldmail, WriteOldmail, FailWrite,
             SkipOldmail, OldmailDone, stillVars, localVars, selVars,
             serverVars, pipeVars
    <2>2. errCounts \subseteq errCounts'
      BY <1>11 DEF Deliver, DeliverMessage, FailDelivery, SendDelivered,
             DeliverDone, CloseDelivered, Oldmail, WriteOldmail, FailWrite,
             SkipOldmail, OldmailDone, Count, pipeVars
    <2>3. pc'["fetch"] = pc["fetch"]
      BY <1>11 DEF Deliver, DeliverMessage, FailDelivery, SendDelivered,
             DeliverDone, CloseDelivered, Oldmail, WriteOldmail, FailWrite,
             SkipOldmail, OldmailDone, Goto
    <2> QED
      BY <1>1, <2>1, <2>2, <2>3
  <1>12. CASE StartRun
    BY <1>1, <1>12 DEF StartRun, Goto, localVars, selVars, serverVars, pipeVars
  <1>13. CASE ExitProcess \/ Crash
    BY <1>13 DEF ExitProcess, Crash, EndProcess
  <1>14. CASE Signal \/ \E u \in Uid : Expunge(u)
    BY <1>1, <1>14 DEF Signal, Expunge, localVars, selVars, serverVars, pipeVars
  <1>15. CASE Arrive
    BY <1>0, <1>1, <1>15 DEF Arrive, localVars, selVars, pipeVars
  <1>16. CASE Renumber
    BY <1>16 DEF Renumber, IdleInv, Quiescent, localVars, selVars, pipeVars
  <1>17. CASE UNCHANGED vars
    BY <1>1, <1>17 DEF vars, localVars, selVars, serverVars, pipeVars
  <1> QED
    BY <1>2, <1>3, <1>4, <1>5, <1>6, <1>7, <1>8, <1>9, <1>10, <1>11, <1>12,
       <1>13, <1>14, <1>15, <1>16, <1>17 DEF Next, Main, Server, Environment

\* A message leaves its place in the pipeline for the next one, for the oldmail
\* file, or with an error.
LEMMA FoundInvNext ==
    PipeInv /\ OutcomeInv /\ CompleteInv /\ [Next]_vars => FoundInv'
  <1> SUFFICES ASSUME PipeInv, OutcomeInv, CompleteInv, [Next]_vars
               PROVE  FoundInv'
    OBVIOUS
  <1> DEFINE Found(u) == <<mbox, u>> \in Remembered \/ u \in ToStore \cup ToWrite
  <1>0. uidNext \notin view
    BY DEF CompleteInv, SeenInv, PipeInv, TypeInv, TypeOK, TypeServer
  <1>1. ASSUME view \cap mailbox' \subseteq mailbox,
               UNCHANGED <<view, listing, lines>>,
               errCounts \subseteq errCounts',
               result' # "error" => result # "error",
               \A u \in view \cap mailbox : Found(u) => Found(u)'
        PROVE  FoundInv'
    BY <1>1 DEF CompleteInv, FoundInv
  <1>2. ASSUME view \cap mailbox' \subseteq mailbox,
               UNCHANGED <<view, listing, lines, mbox, missing, oldmail,
                           openLine>>,
               UNCHANGED <<sent, tmsg, tchan, dmsg, dchan>>,
               errCounts \subseteq errCounts',
               result' # "error" => result # "error"
        PROVE  FoundInv'
    <2>1. \A u : Found(u) => Found(u)'
      BY <1>2 DEF ToStore, ToWrite, Remembered
    <2> QED
      BY <1>1, <1>2, <2>1
  <1>3. TypeInv /\ DrainInv /\ FlowInv
    BY DEF PipeInv
  <1>4. pc["main"] # "returned" => result # "error"
    BY DEF OutcomeInv
  <1>5. CASE Begin
    BY <1>2, <1>4, <1>5 DEF Begin, serverVars, selVars, pipeVars, chanVars
  <1>6. CASE TouchOldmail
    <2>1. oldmail = {} /\ openLine = {} /\ lines = "whole"
      BY <1>6 DEF TouchOldmail, PipeInv, DiskInv
    <2>2. UNCHANGED <<oldmail, openLine, lines>>
      BY <1>6, <2>1 DEF TouchOldmail
    <2> QED
      BY <1>2, <1>4, <1>6, <2>2 DEF TouchOldmail, serverVars, selVars,
             pipeVars, chanVars
  <1>7. CASE \/ ReadOldmail \/ CheckInterrupt \/ StreamingOldmailWriteout
             \/ WaitAll
    BY <1>2, <1>4, <1>7 DEF ReadOldmail, CheckInterrupt,
           StreamingOldmailWriteout, WaitAll, diskVars, serverVars, selVars,
           pipeVars, chanVars
  <1>8. CASE SelectFolder
    BY <1>8 DEF SelectFolder, CompleteInv, ListedInv, FoundInv, SetupLabels
  <1>9. CASE ListMessages
    <2> SUFFICES ASSUME listing' = "complete", result' # "error"
                 PROVE  \A u \in (view \cap mailbox)' : Found(u)'
      BY DEF FoundInv
    <2>1. DetermineMissing(view \cap mailbox)
      BY <1>9 DEF ListMessages
    <2>2. missing' = MissingUIDs(view \cap mailbox)
      BY <2>1 DEF DetermineMissing, Return
    <2>3. UNCHANGED <<view, mailbox, mbox, oldmail, openLine>>
      BY <1>9 DEF ListMessages, diskVars, serverVars
    <2>4. sent' = {}
      BY <1>3, <1>9, SetupEmpty DEF ListMessages, SetupLabels, pipeVars
    <2> QED
      BY <2>2, <2>3, <2>4 DEF MissingUIDs, ToStore, Remembered
  <1>10. CASE \/ StreamingRetrieval \/ StreamingDelivery \/ FetchDone
              \/ EndFetch
    BY <1>2, <1>10 DEF StreamingRetrieval, StreamingDelivery, FetchDone,
           EndFetch, Count, diskVars, stillVars, serverVars, localVars,
           selVars, chanVars
  <1>11. CASE \/ CheckCalled \/ PollInterrupt \/ ReportInterrupt
              \/ TranslateOnce \/ ReceiveNil
    BY <1>2, <1>11 DEF CheckCalled, PollInterrupt, ReportInterrupt,
           TranslateOnce, ReceiveNil, Count, diskVars, stillVars, serverVars,
           localVars, selVars, pipeVars, chanVars
  <1>12. CASE \/ \E u \in Uid : FetchMessage(u)
              \/ SendTranslated \/ SendDelivered
    <2>1. ToStore' = ToStore /\ ToWrite' = ToWrite
      BY <1>3, <1>12, HandOver
    <2>2. /\ UNCHANGED <<view, listing, lines, mbox, oldmail, openLine>>
          /\ UNCHANGED <<mailbox, errCounts, result>>
      BY <1>12 DEF FetchMessage, SendTranslated, SendDelivered, diskVars,
             serverVars, stillVars, localVars, selVars
    <2>3. \A u : Found(u) => Found(u)'
      BY <2>1, <2>2 DEF Remembered
    <2> QED
      BY <1>1, <2>2, <2>3
  <1>13. CASE DeliverMessage
    <2>1. ToStore' \cup ToWrite' = ToStore \cup ToWrite
      BY <1>3, <1>13, Delivery
    <2>2. /\ UNCHANGED <<view, listing, lines, mbox, oldmail, openLine>>
          /\ UNCHANGED <<mailbox, errCounts, result>>
      BY <1>13 DEF DeliverMessage, serverVars, stillVars, localVars, selVars
    <2>3. \A u : Found(u) => Found(u)'
      BY <2>1, <2>2 DEF Remembered
    <2> QED
      BY <1>1, <2>2, <2>3
  <1>14. CASE FailDelivery \/ FailWrite \/ SkipOldmail
    BY <1>14 DEF FailDelivery, FailWrite, SkipOldmail, MayWrite, Count,
           pipeVars, FoundInv
  <1>15. CASE DeliverDone \/ CloseDelivered \/ OldmailDone
    BY <1>2, <1>15 DEF DeliverDone, CloseDelivered, OldmailDone, Count,
           diskVars, stillVars, serverVars, localVars, selVars, pipeVars,
           chanVars
  <1>16. CASE WriteOldmail
    <2>1. CASE openLine = {}
      <3>1. /\ ToStore' = ToStore
            /\ ToWrite' = ToWrite \ {Head(dchan)}
        BY <1>3, <1>16, Writeout
      <3>2. /\ UNCHANGED <<view, listing, lines, mbox>>
            /\ UNCHANGED <<mailbox, errCounts, result>>
            /\ Remembered' = Remembered \cup {<<mbox, Head(dchan)>>}
        BY <1>16, <2>1 DEF WriteOldmail, Remembered, serverVars, stillVars,
               localVars, selVars
      <3>3. \A u : Found(u) => Found(u)'
        BY <3>1, <3>2
      <3> QED
        BY <1>1, <3>2, <3>3
    <2>2. CASE openLine # {}
      BY <1>16, <2>2 DEF WriteOldmail, FoundInv
    <2> QED
      BY <2>1, <2>2
  <1>17. CASE StartRun \/ Signal \/ \E u \in Uid : Expunge(u)
    BY <1>2, <1>17 DEF StartRun, Signal, Expunge, diskVars, serverVars,
           localVars, selVars, pipeVars, chanVars
  <1>18. CASE ExitProcess \/ Crash
    BY <1>18 DEF ExitProcess, Crash, EndProcess, FoundInv
  <1>19. CASE Arrive
    BY <1>0, <1>2, <1>19 DEF Arrive, diskVars, localVars, selVars, pipeVars,
           chanVars
  <1>20. CASE Renumber
    BY <1>20 DEF Renumber, PipeInv, IdleInv, Quiescent, FoundInv, localVars,
           selVars
  <1>21. CASE UNCHANGED vars
    BY <1>2, <1>21 DEF vars, diskVars, serverVars, localVars, selVars,
           pipeVars, chanVars
  <1> QED
    BY <1>5, <1>6, <1>7, <1>8, <1>9, <1>10, <1>11, <1>12, <1>13, <1>14, <1>15,
       <1>16, <1>17, <1>18, <1>19, <1>20, <1>21
       DEF Next, Main, Server, Translate, Deliver, Oldmail, Environment

\* A run that ends without an error has every message it saw and that is still
\* there, unless the listing failed unnoticed or an earlier failed write had
\* spoiled the oldmail file.
THEOREM SuccessComplete == Spec => []SuccessIsComplete
  <1>1. PipeInv /\ OutcomeInv /\ CompleteInv => SuccessIsComplete
    <2> SUFFICES ASSUME PipeInv, OutcomeInv, CompleteInv, result = "ok",
                        listing # "lost", lines = "whole",
                        NEW u \in view \cap mailbox
                 PROVE  <<mbox, u>> \in Remembered
      BY DEF SuccessIsComplete
    <2>1. /\ tmsg = NoUid /\ tchan = <<>> /\ dmsg = NoUid /\ dchan = <<>>
          /\ errCounts = {}
      BY SuccessDrained
    <2>2. listing = "complete"
      BY DEF CompleteInv, ListedInv
    <2>3. <<mbox, u>> \in Remembered \/ u \in ToStore \cup ToWrite
      BY <2>1, <2>2 DEF CompleteInv, FoundInv
    <2>4. u \in ToStore \cup ToWrite => u \in missing \ sent
      BY <2>1, EmptyChannel DEF ToStore, ToWrite
    <2>5. missing \cap mailbox \subseteq sent
      BY <2>1 DEF CompleteInv, SentInv
    <2> QED
      BY <2>3, <2>4, <2>5
  <1>2. PipeInv /\ OutcomeInv /\ CompleteInv /\ [Next]_vars => CompleteInv'
    BY SeenInvNext, ListedInvNext, SentInvNext, FoundInvNext DEF CompleteInv
  <1> QED
    BY <1>1, <1>2, CompleteInvInit, OutcomeInvInit, OutcomeInvNext,
       PipeInvariant, PTL DEF Spec

-----------------------------------------------------------------------------
(***************************************************************************)
(* Duplicates are paid for: the first copy of a message is free, and as    *)
(* long as it can be stored once more a failure stands for each of its     *)
(* copies. A message that is not remembered has its last copy from this    *)
(* run, which has not written its line yet.                                *)
(***************************************************************************)
UnpaidInv == \A u \in ToStore : stored[<<mbox, u>>] <= failures

ForgottenInv ==
    lines = "whole" /\ "oldmail" \notin errCounts =>
      \A m \in Message \ oldmail :
        stored[m] <= failures \/ (m[1] = mbox /\ m[2] \in ToWrite)

PaidInv == DuplicatesPaidFor /\ UnpaidInv /\ ForgottenInv

\* Nothing is stored before the first run.
LEMMA PaidInvInit == Init => PaidInv
  BY EmptyChannel DEF Init, Quiescent, PaidInv, DuplicatesPaidFor, UnpaidInv,
         ForgottenInv, ToStore, NoUid

\* deliverMessage stores only what is missing, and what becomes missing again
\* did so through a run that returned an error or crashed.
LEMMA PaidInvNext ==
    PipeInv /\ OutcomeInv /\ PaidInv /\ [Next]_vars => PaidInv'
  <1> SUFFICES ASSUME PipeInv, OutcomeInv, PaidInv, [Next]_vars
               PROVE  PaidInv'
    OBVIOUS
  <1>0. TypeInv /\ DrainInv /\ FlowInv
    BY DEF PipeInv
  <1>1. failures \in Nat /\ stored \in [Message -> Nat]
    BY <1>0 DEF TypeInv, TypeOK, TypeProcess, TypeDisk
  <1>2. ASSUME UNCHANGED <<stored, mbox, failures, lines>>,
               ToStore' \subseteq ToStore, ToWrite \subseteq ToWrite',
               oldmail \subseteq oldmail', errCounts \subseteq errCounts'
        PROVE  PaidInv'
    BY <1>2 DEF PaidInv, DuplicatesPaidFor, UnpaidInv, ForgottenInv
  <1>3. ASSUME UNCHANGED <<stored, mbox, failures, lines, missing, oldmail>>,
               UNCHANGED <<sent, tmsg, tchan, dmsg, dchan>>,
               errCounts \subseteq errCounts'
        PROVE  PaidInv'
    BY <1>2, <1>3 DEF ToStore, ToWrite
  <1>4. CASE Begin
    BY <1>3, <1>4 DEF Begin, runVars, selVars, pipeVars, chanVars
  <1>5. CASE TouchOldmail
    <2>1. oldmail = {} /\ openLine = {} /\ lines = "whole"
      BY <1>5 DEF TouchOldmail, PipeInv, DiskInv
    <2>2. UNCHANGED <<oldmail, lines>>
      BY <1>5, <2>1 DEF TouchOldmail
    <2> QED
      BY <1>3, <1>5, <2>2 DEF TouchOldmail, runVars, selVars, pipeVars, chanVars
  <1>6. CASE \/ ReadOldmail \/ CheckInterrupt \/ StreamingOldmailWriteout
             \/ WaitAll
    BY <1>3, <1>6 DEF ReadOldmail, CheckInterrupt, StreamingOldmailWriteout,
           WaitAll, diskVars, runVars, selVars, pipeVars, chanVars
  <1>7. CASE SelectFolder
    <2>1. ToStore = {} /\ ToWrite = {}
      BY <1>0, <1>7, SetupEmpty, FlowEmpty DEF SelectFolder, SetupLabels
    <2>2. ToStore' = ToStore /\ ToWrite' = ToWrite
      BY <1>7 DEF SelectFolder, ToStore, ToWrite, pipeVars, chanVars
    <2>3. UNCHANGED <<stored, failures, lines, oldmail, errCounts>>
      BY <1>7 DEF SelectFolder, diskVars, runVars, pipeVars
    <2> QED
      BY <2>1, <2>2, <2>3
         DEF PaidInv, DuplicatesPaidFor, UnpaidInv, ForgottenInv
  <1>8. CASE ListMessages
    <2>1. UNCHANGED <<stored, mbox, failures, lines, oldmail, openLine>>
      BY <1>8 DEF ListMessages, diskVars, runVars
    <2>2. UNCHANGED <<sent, tmsg, tchan, dmsg, dchan, errCounts>>
      BY <1>8 DEF ListMessages, pipeVars, chanVars
    <2>3. /\ missing = {} /\ sent = {} /\ tmsg = NoUid /\ tchan = <<>>
          /\ dmsg = NoUid /\ dchan = <<>>
      BY <1>0, <1>8, SetupEmpty DEF ListMessages, SetupLabels
    <2>4. lines = "whole" /\ errCounts = {}
      BY <1>0, <1>8 DEF ListMessages, PipeInv, DiskInv, TypeInv, ControlInv,
             SetupInv, SetupLabels
    <2>5. ToWrite = {} /\ ToWrite' = {} /\ ToStore' = missing'
      BY <2>2, <2>3, EmptyChannel DEF ToStore, ToWrite
    <2>6. ASSUME NEW u \in missing' PROVE stored[<<mbox, u>>] <= failures
      <3>1. \/ missing' = missing
            \/ \E uids \in SUBSET Uid : missing' = MissingUIDs(uids)
        <4>1. view \subseteq Uid
          BY <1>0 DEF TypeInv, TypeOK, TypeLocals
        <4> QED
          BY <1>8, <4>1 DEF ListMessages, DetermineMissing
      <3>2. u \in Uid /\ <<mbox, u>> \notin Remembered
        BY <2>3, <2>6, <3>1 DEF MissingUIDs
      <3>3. mbox \in 1..MaxValidity
        BY <1>0, <1>8 DEF ListMessages, TypeInv, ControlInv, CarryInv
      <3>4. <<mbox, u>> \in Message \ oldmail
        BY <3>2, <3>3 DEF Message, Remembered
      <3> QED
        BY <2>4, <2>5, <3>4 DEF PaidInv, ForgottenInv
    <2> QED
      BY <2>1, <2>2, <2>5, <2>6
         DEF PaidInv, DuplicatesPaidFor, UnpaidInv, ForgottenInv
  <1>9. CASE \/ StreamingRetrieval \/ StreamingDelivery \/ FetchDone
             \/ EndFetch
    BY <1>3, <1>9 DEF StreamingRetrieval, StreamingDelivery, FetchDone,
           EndFetch, Count, diskVars, stillVars, runVars, localVars, selVars,
           chanVars
  <1>10. CASE \/ CheckCalled \/ PollInterrupt \/ ReportInterrupt
              \/ TranslateOnce \/ ReceiveNil
    BY <1>3, <1>10 DEF CheckCalled, PollInterrupt, ReportInterrupt,
           TranslateOnce, ReceiveNil, Count, diskVars, stillVars, runVars,
           localVars, selVars, pipeVars, chanVars
  <1>11. CASE \/ \E u \in Uid : FetchMessage(u)
              \/ SendTranslated \/ SendDelivered
    <2>1. ToStore' = ToStore /\ ToWrite' = ToWrite
      BY <1>0, <1>11, HandOver
    <2> QED
      BY <1>2, <1>11, <2>1 DEF FetchMessage, SendTranslated, SendDelivered,
             diskVars, stillVars, runVars, localVars, selVars
  <1>12. CASE DeliverMessage
    <2> DEFINE h == Head(tchan)
               m == <<mbox, h>>
    <2>1. /\ h \in ToStore /\ h \in Uid /\ ToStore' = ToStore \ {h}
          /\ ToWrite' = ToWrite \cup {h}
      BY <1>0, <1>12, Delivery
    <2>2. UNCHANGED <<mbox, failures, lines, oldmail, errCounts>>
      BY <1>12 DEF DeliverMessage, stillVars, runVars, localVars, selVars
    <2>3. m \in Message
      BY <1>0, <1>12, <2>1 DEF DeliverMessage, Delivering, Started, Message,
             TypeInv, ControlInv, CarryInv, SetupInv
    <2>4. stored' = [stored EXCEPT ![m] = @ + 1]
      BY <1>12 DEF DeliverMessage
    <2>5. /\ stored'[m] = stored[m] + 1 /\ stored[m] \in Nat
          /\ \A n \in Message : n # m => stored'[n] = stored[n]
      BY <1>1, <2>3, <2>4
    <2>6. stored[m] <= failures
      BY <2>1 DEF PaidInv, UnpaidInv
    <2>7. DuplicatesPaidFor'
      BY <1>1, <2>2, <2>5, <2>6 DEF PaidInv, DuplicatesPaidFor
    <2>8. UnpaidInv'
      <3>1. ASSUME NEW u \in ToStore' PROVE stored'[<<mbox, u>>] <= failures
        <4>1. u \in ToStore /\ u # h
          BY <2>1, <3>1
        <4>2. stored'[<<mbox, u>>] = stored[<<mbox, u>>]
          BY <2>4, <4>1
        <4> QED
          BY <4>1, <4>2 DEF PaidInv, UnpaidInv
      <3> QED
        BY <2>2, <3>1 DEF UnpaidInv
    <2>9. ForgottenInv'
      BY <2>1, <2>2, <2>5 DEF PaidInv, ForgottenInv
    <2> QED
      BY <2>7, <2>8, <2>9 DEF PaidInv
  <1>13. CASE FailDelivery
    <2>1. ToStore' = ToStore \ {Head(tchan)} /\ ToWrite' = ToWrite
      BY <1>0, <1>13, Delivery
    <2> QED
      BY <1>2, <1>13, <2>1 DEF FailDelivery, Count, diskVars, stillVars,
             runVars, localVars, selVars
  <1>14. CASE DeliverDone \/ CloseDelivered \/ OldmailDone
    BY <1>3, <1>14 DEF DeliverDone, CloseDelivered, OldmailDone, Count,
           diskVars, stillVars, runVars, localVars, selVars, pipeVars, chanVars
  <1>15. CASE WriteOldmail \/ FailWrite \/ SkipOldmail
    <2> DEFINE h == Head(dchan)
    <2>1. h \in ToWrite /\ ToWrite' = ToWrite \ {h} /\ ToStore' = ToStore
      BY <1>0, <1>15, Writeout
    <2>2. UNCHANGED <<stored, mbox, failures>>
      BY <1>15 DEF WriteOldmail, FailWrite, SkipOldmail, diskVars, stillVars,
             runVars, localVars, selVars
    <2>3. DuplicatesPaidFor' /\ UnpaidInv'
      BY <2>1, <2>2 DEF PaidInv, DuplicatesPaidFor, UnpaidInv
    <2>4. CASE lines' = "whole" /\ "oldmail" \notin errCounts'
      <3>1. /\ oldmail' = oldmail \cup {<<mbox, h>>}
            /\ UNCHANGED <<lines, errCounts>>
        BY <1>15, <2>4 DEF WriteOldmail, FailWrite, SkipOldmail, MayWrite, Count
      <3>2. ASSUME NEW m \in Message \ oldmail', m[1] = mbox, m[2] \in ToWrite
            PROVE  m[2] \in ToWrite'
        <4>1. m = <<m[1], m[2]>>
          BY DEF Message
        <4> QED
          BY <2>1, <3>1, <3>2, <4>1
      <3> QED
        BY <2>2, <2>3, <3>1, <3>2 DEF PaidInv, ForgottenInv
    <2>5. CASE ~(lines' = "whole" /\ "oldmail" \notin errCounts')
      BY <2>3, <2>5 DEF PaidInv, ForgottenInv
    <2> QED
      BY <2>4, <2>5
  <1>16. CASE ExitProcess \/ Crash
    <2>1. ToStore' = {} /\ UNCHANGED <<stored, lines, oldmail>>
      BY <1>16, EmptyChannel DEF ExitProcess, Crash, EndProcess, ToStore,
             diskVars
    <2>2. CASE failures' = failures + 1
      BY <1>1, <2>1, <2>2
         DEF PaidInv, DuplicatesPaidFor, UnpaidInv, ForgottenInv
    <2>3. CASE failures' # failures + 1
      <3>1. result = "ok" /\ failures' = failures
        BY <1>0, <1>1, <1>16, <2>3 DEF ExitProcess, Crash, OutcomeInv,
               TypeInv, TypeOK, TypeLocals
      <3>2. errCounts = {} /\ dmsg = NoUid /\ dchan = <<>>
        BY <3>1, SuccessDrained
      <3>3. ToWrite = {}
        BY <3>2, EmptyChannel DEF ToWrite
      <3> QED
        BY <2>1, <3>1, <3>2, <3>3
           DEF PaidInv, DuplicatesPaidFor, UnpaidInv, ForgottenInv
    <2> QED
      BY <2>2, <2>3
  <1>17. CASE \/ StartRun \/ Signal \/ Arrive \/ Renumber
              \/ \E u \in Uid : Expunge(u)
    BY <1>3, <1>17 DEF StartRun, Signal, Arrive, Renumber, Expunge, diskVars,
           runVars, localVars, selVars, pipeVars, chanVars
  <1>18. CASE UNCHANGED vars
    BY <1>3, <1>18 DEF vars, diskVars, runVars, localVars, selVars, pipeVars,
           chanVars
  <1> QED
    BY <1>4, <1>5, <1>6, <1>7, <1>8, <1>9, <1>10, <1>11, <1>12, <1>13, <1>14,
       <1>15, <1>16, <1>17, <1>18
       DEF Next, Main, Server, Translate, Deliver, Oldmail, Environment

\* A message is stored twice only because a run failed or crashed between its
\* delivery and its line in the oldmail file.
THEOREM DuplicatesArePaidFor == Spec => []DuplicatesPaidFor
  <1>1. PaidInv => DuplicatesPaidFor
    BY DEF PaidInv
  <1> QED
    BY <1>1, PaidInvInit, PaidInvNext, OutcomeInvInit, OutcomeInvNext,
       PipeInvariant, PTL DEF Spec

\* What the oldmail file has is not stored again, in any step.
KeepsRemembered == \A m \in Remembered : stored'[m] = stored[m]
NotStoredAgain == [][KeepsRemembered]_vars

\* A message that an earlier run or this one has remembered is never delivered again
\* (determineMissingUIDs, and the order of the pipeline's stages).
THEOREM RememberedIsNotStoredAgain == Spec => NotStoredAgain
  <1>1. PipeInv /\ [Next]_vars => [KeepsRemembered]_vars
    <2> SUFFICES ASSUME PipeInv, [Next]_vars
                 PROVE  \A m \in Remembered : stored'[m] = stored[m]
      BY DEF KeepsRemembered
    <2>1. CASE DeliverMessage
      <3>1. /\ Head(tchan) \in ToStore /\ Head(tchan) \in Uid
            /\ <<mbox, Head(tchan)>> \notin Remembered
        BY <2>1, Delivery DEF PipeInv, FlowInv
      <3>2. /\ stored' = [stored EXCEPT ![<<mbox, Head(tchan)>>] = @ + 1]
            /\ stored \in [Message -> Nat] /\ Remembered \subseteq Message
        BY <2>1 DEF DeliverMessage, PipeInv, TypeInv, TypeOK, TypeDisk, Remembered
      <3> QED
        BY <3>1, <3>2
    <2>2. CASE ~DeliverMessage
      <3>1. stored' = stored
        BY <2>2
           DEF Next, vars, diskVars, Main, Begin, TouchOldmail, ReadOldmail, SelectFolder,
               CheckInterrupt, ListMessages, StreamingRetrieval, StreamingDelivery,
               StreamingOldmailWriteout, WaitAll, FetchDone, Server, EndFetch,
               FetchMessage, Translate, CheckCalled, PollInterrupt, ReportInterrupt,
               TranslateOnce, ReceiveNil, SendTranslated, Deliver, FailDelivery,
               SendDelivered, DeliverDone, CloseDelivered, Oldmail, WriteOldmail,
               FailWrite, SkipOldmail, OldmailDone, Environment, StartRun, ExitProcess,
               Crash, Signal, Arrive, Renumber, Expunge
      <3> QED
        BY <3>1
    <2> QED
      BY <2>1, <2>2
  <1> QED
    BY <1>1, PipeInvariant, PTL DEF Spec, NotStoredAgain

-----------------------------------------------------------------------------
(***************************************************************************)
(* The pipeline implements Backup. Backup's queue of messages is the       *)
(* program's queue of UIDs, each with the UIDVALIDITY of the folder.       *)
(***************************************************************************)

\* The messages of folder v with the UIDs of a queue, in its order.
Tagged(v, s) == [i \in 1..Len(s) |-> <<v, s[i]>>]

\* Tagging keeps the length of a queue and its order.
LEMMA TaggedSeq ==
  ASSUME NEW S, NEW V, NEW v \in V, NEW s \in Seq(S)
  PROVE  Tagged(v, s) \in Seq(V \X S) /\ Len(Tagged(v, s)) = Len(s)
  <1>1. Len(s) \in Nat /\ \A i \in 1..Len(s) : s[i] \in S
    OBVIOUS
  <1>2. Tagged(v, s) \in [1..Len(s) -> V \X S]
    BY <1>1 DEF Tagged
  <1>3. Tagged(v, s) \in Seq(V \X S)
    BY <1>1, <1>2, SeqDef
  <1>4. DOMAIN Tagged(v, s) = 1..Len(s)
    BY DEF Tagged
  <1> QED
    BY <1>1, <1>3, <1>4, LenProperties DEF Tagged

\* A queue with something in it keeps it.
LEMMA TaggedNonEmpty ==
  ASSUME NEW S, NEW V, NEW v \in V, NEW s \in Seq(S), s # <<>>
  PROVE  Tagged(v, s) # <<>>
  <1>1. Tagged(v, s) \in Seq(V \X S) /\ Len(Tagged(v, s)) = Len(s)
    BY TaggedSeq
  <1> QED
    BY <1>1

\* What is put at the end of a queue is put at the end of its messages.
LEMMA TaggedAppend ==
  ASSUME NEW S, NEW V, NEW v \in V, NEW s \in Seq(S), NEW e \in S
  PROVE  Tagged(v, Append(s, e)) = Append(Tagged(v, s), <<v, e>>)
  <1> DEFINE T == Tagged(v, Append(s, e))
             U == Append(Tagged(v, s), <<v, e>>)
  <1>1. Append(s, e) \in Seq(S) /\ Len(Append(s, e)) = Len(s) + 1
    OBVIOUS
  <1>2. /\ T \in Seq(V \X S) /\ Len(T) = Len(s) + 1
        /\ \A i \in 1..(Len(s) + 1) : T[i] = <<v, Append(s, e)[i]>>
    <2>1. T \in Seq(V \X S) /\ Len(T) = Len(Append(s, e))
      BY <1>1, TaggedSeq, Zenon
    <2> QED
      BY <1>1, <2>1 DEF Tagged
  <1>3. /\ Tagged(v, s) \in Seq(V \X S) /\ Len(Tagged(v, s)) = Len(s)
        /\ \A i \in 1..Len(s) : Tagged(v, s)[i] = <<v, s[i]>>
    <2>1. Tagged(v, s) \in Seq(V \X S) /\ Len(Tagged(v, s)) = Len(s)
      BY TaggedSeq
    <2> QED
      BY <2>1 DEF Tagged
  <1>4. /\ U \in Seq(V \X S) /\ Len(U) = Len(s) + 1
        /\ \A i \in 1..Len(s) : U[i] = <<v, s[i]>>
        /\ U[Len(s) + 1] = <<v, e>>
    <2> HIDE DEF Tagged
    <2> QED BY <1>3
  <1>5. \A i \in 1..(Len(s) + 1) :
          Append(s, e)[i] = IF i <= Len(s) THEN s[i] ELSE e
    OBVIOUS
  <1>6. \A i \in 1..(Len(s) + 1) : T[i] = U[i]
    <2> HIDE DEF T, U
    <2> TAKE i \in 1..(Len(s) + 1)
    <2>1. Len(s) \in Nat
      OBVIOUS
    <2>2. T[i] = <<v, Append(s, e)[i]>>
      BY <1>2
    <2>3. CASE i <= Len(s)
      <3>1. i \in 1..Len(s)
        BY <2>1, <2>3
      <3>2. U[i] = <<v, s[i]>>
        BY <1>4, <3>1
      <3> QED
        BY <1>5, <2>2, <2>3, <3>2
    <2>4. CASE i = Len(s) + 1
      <3>1. ~(i <= Len(s))
        BY <2>1, <2>4
      <3>2. U[i] = <<v, e>>
        BY <1>4, <2>4
      <3> QED
        BY <1>5, <2>2, <3>1, <3>2
    <2> QED
      BY <2>1, <2>3, <2>4
  <1> HIDE DEF T, U
  <1>7. T = U
    BY <1>2, <1>4, <1>6, SeqEqual
  <1> QED
    BY <1>7 DEF T, U

\* The oldest of the messages is that of the oldest UID.
LEMMA TaggedHeadTail ==
  ASSUME NEW S, NEW V, NEW v \in V, NEW s \in Seq(S), s # <<>>
  PROVE  /\ Head(Tagged(v, s)) = <<v, Head(s)>>
         /\ Tail(Tagged(v, s)) = Tagged(v, Tail(s))
  <1> DEFINE T == Tagged(v, s)
             U == Tagged(v, Tail(s))
  <1>1. /\ Tail(s) \in Seq(S) /\ Len(Tail(s)) = Len(s) - 1
        /\ Len(s) \in Nat \ {0}
        /\ Head(s) = s[1]
        /\ \A i \in 1..(Len(s) - 1) : Tail(s)[i] = s[i + 1]
    OBVIOUS
  <1>2. /\ T \in Seq(V \X S) /\ Len(T) = Len(s)
        /\ \A i \in 1..Len(s) : T[i] = <<v, s[i]>>
    <2>1. T \in Seq(V \X S) /\ Len(T) = Len(s)
      BY TaggedSeq
    <2> QED
      BY <2>1 DEF Tagged
  <1>3. /\ U \in Seq(V \X S) /\ Len(U) = Len(s) - 1
        /\ \A i \in 1..(Len(s) - 1) : U[i] = <<v, Tail(s)[i]>>
    <2>1. Tail(s) \in Seq(S)
      BY <1>1
    <2>2. U \in Seq(V \X S) /\ Len(U) = Len(Tail(s))
      BY <2>1, TaggedSeq, Zenon
    <2>3. \A i \in 1..Len(Tail(s)) : U[i] = <<v, Tail(s)[i]>>
      BY DEF Tagged
    <2> HIDE DEF U
    <2>4. Len(Tail(s)) = Len(s) - 1
      BY <1>1
    <2> QED
      BY <2>2, <2>3, <2>4
  <1> HIDE DEF T, U
  <1>4. Head(T) = T[1] /\ T[1] = <<v, s[1]>>
    BY <1>1, <1>2
  <1>5. /\ Tail(T) \in Seq(V \X S) /\ Len(Tail(T)) = Len(s) - 1
        /\ \A i \in 1..(Len(s) - 1) : Tail(T)[i] = T[i + 1]
    BY <1>1, <1>2
  <1>6. ASSUME NEW i \in 1..(Len(s) - 1) PROVE Tail(T)[i] = U[i]
    <2>1. i + 1 \in 1..Len(s)
      BY <1>1
    <2>2. T[i + 1] = <<v, s[i + 1]>>
      BY <1>2, <2>1
    <2>3. U[i] = <<v, s[i + 1]>>
      BY <1>1, <1>3
    <2> QED
      BY <1>5, <2>2, <2>3
  <1>7. Tail(T) = U
    <2>1. Len(Tail(T)) = Len(U) /\ \A i \in 1..Len(Tail(T)) : Tail(T)[i] = U[i]
      BY <1>3, <1>5, <1>6
    <2> QED
      BY <1>3, <1>5, <2>1, SeqEqual, Zenon
  <1> QED
    BY <1>1, <1>4, <1>7 DEF T, U

\* What is received from a channel is the oldest of all that waits behind it.
LEMMA HeadTailConcat ==
  ASSUME NEW S, NEW s \in Seq(S), NEW t \in Seq(S), s # <<>>
  PROVE  /\ s \o t \in Seq(S) /\ s \o t # <<>>
         /\ Head(s \o t) = Head(s) /\ Tail(s \o t) = Tail(s) \o t
  <1> DEFINE c == s \o t
             d == Tail(s) \o t
  <1>1. /\ Tail(s) \in Seq(S) /\ Len(Tail(s)) = Len(s) - 1
        /\ Len(s) \in Nat \ {0} /\ Len(t) \in Nat /\ Head(s) = s[1]
        /\ \A i \in 1..(Len(s) - 1) : Tail(s)[i] = s[i + 1]
    OBVIOUS
  <1>2. /\ c \in Seq(S) /\ Len(c) = Len(s) + Len(t)
        /\ \A i \in 1..(Len(s) + Len(t)) :
             c[i] = IF i <= Len(s) THEN s[i] ELSE t[i - Len(s)]
    BY ConcatProperties
  <1>3. /\ d \in Seq(S) /\ Len(d) = Len(Tail(s)) + Len(t)
        /\ \A i \in 1..(Len(Tail(s)) + Len(t)) :
             d[i] = IF i <= Len(Tail(s)) THEN Tail(s)[i]
                    ELSE t[i - Len(Tail(s))]
    BY <1>1, ConcatProperties
  <1> HIDE DEF c, d
  <1>4. c # <<>> /\ Head(c) = c[1] /\ c[1] = s[1]
    BY <1>1, <1>2
  <1>5. /\ Tail(c) \in Seq(S) /\ Len(Tail(c)) = Len(d)
        /\ \A i \in 1..Len(d) : Tail(c)[i] = c[i + 1]
    BY <1>1, <1>2, <1>3, <1>4
  <1>6. \A i \in 1..Len(d) : Tail(c)[i] = d[i]
    BY <1>1, <1>2, <1>3, <1>5
  <1>7. Tail(c) = d
    BY <1>3, <1>5, <1>6, SeqEqual
  <1> QED
    BY <1>1, <1>2, <1>4, <1>7 DEF c, d

\* The UIDs on their way from deliver to the oldmail file.
Queue == dchan \o Held

\* The queue is what deliveredChan and deliver hold.
LEMMA QueueType ==
  ASSUME TypeInv
  PROVE  /\ dchan \in Seq(Uid) /\ Held \in Seq(Uid) /\ Queue \in Seq(Uid)
         /\ mbox \in Nat /\ Pending = Tagged(mbox, Queue)
         /\ dmsg = NoUid => Held = <<>> /\ Queue = dchan
  <1>1. dchan \in Seq(Uid) /\ mbox \in Nat /\ dmsg \in Uid \cup {NoUid}
    BY BoundsAssumption DEF TypeInv, TypeOK, TypePipe, TypeLocals
  <1>2. Held \in Seq(Uid)
    BY <1>1 DEF Held
  <1>3. Queue \in Seq(Uid)
    BY <1>1, <1>2, ConcatProperties DEF Queue
  <1>4. dmsg = NoUid => Held = <<>> /\ Queue = dchan
    BY <1>1, ConcatEmptySeq DEF Held, Queue
  <1>5. Pending = Tagged(mbox, Queue)
    BY DEF Pending, Tagged, Queue
  <1> QED
    BY <1>1, <1>2, <1>3, <1>4, <1>5

\* A step by which neither the disk nor the queue changes is none of Backup's.
LEMMA BackupStutters ==
  ASSUME UNCHANGED <<stored, Remembered, dchan, dmsg>>,
         UNCHANGED mbox \/ (dchan = <<>> /\ dmsg = NoUid),
         "oldmail" \in errCounts' <=> "oldmail" \in errCounts
  PROVE  UNCHANGED Promise!vars
  <1>1. UNCHANGED Held
    BY DEF Held
  <1>2. UNCHANGED Pending
    <2>1. CASE UNCHANGED mbox
      BY <1>1, <2>1 DEF Pending
    <2>2. CASE dchan = <<>> /\ dmsg = NoUid
      <3>1. dchan \o Held = <<>> /\ dchan' \o Held' = <<>>
        BY <1>1, <2>2, ConcatEmptySeq DEF Held
      <3> QED
        BY <3>1 DEF Pending
    <2> QED
      BY <2>1, <2>2
  <1>3. ("oldmail" \in errCounts)' = ("oldmail" \in errCounts)
    OBVIOUS
  <1> QED
    BY <1>2, <1>3 DEF Promise!vars

\* deliverMessage stores a message that is neither remembered nor about to be.
LEMMA DeliverStores ==
  ASSUME PipeInv, DeliverMessage
  PROVE  \E m \in Message : Promise!Store(m)
  <1> DEFINE u == Head(tchan)
             m == <<mbox, u>>
  <1>1. TypeInv /\ DrainInv /\ FlowInv
    BY DEF PipeInv
  <1>2. /\ pc["deliver"] = "receive" /\ pc["oldmail"] # "idle"
        /\ stored' = [stored EXCEPT ![m] = @ + 1]
        /\ dmsg' = u
        /\ UNCHANGED <<dchan, mbox, oldmail, openLine, errCounts>>
    BY DEF DeliverMessage, Delivering, Started, stillVars, localVars, selVars
  <1>3. dmsg = NoUid /\ mbox \in 1..MaxValidity
    BY <1>1, <1>2 DEF DrainInv, TypeInv, ControlInv, CarryInv, SetupInv
  <1>4. u \in Uid /\ u # NoUid /\ u \in ToStore
    <2>1. u \in Uid /\ u \in ToStore
      BY <1>1, Delivery
    <2> QED
      BY <2>1, BoundsAssumption DEF Uid, NoUid
  <1>5. m \in Message
    BY <1>3, <1>4 DEF Message
  <1>6. m \notin Remembered /\ u \notin ToSet(dchan)
    BY <1>1, <1>4 DEF FlowInv, ToWrite
  <1>7. /\ dchan \in Seq(Uid) /\ mbox \in Nat
        /\ Queue = dchan /\ Pending = Tagged(mbox, dchan)
    BY <1>1, <1>3, QueueType
  <1>8. ~Promise!IsPending(m)
    <2> SUFFICES ASSUME NEW i \in 1..Len(Pending), Pending[i] = m PROVE FALSE
      BY DEF Promise!IsPending
    <2>1. i \in 1..Len(dchan)
      BY <1>7, TaggedSeq
    <2>2. Pending[i] = <<mbox, dchan[i]>>
      BY <1>7, <2>1 DEF Tagged
    <2>3. dchan[i] \in ToSet(dchan)
      BY <1>7, <2>1 DEF ToSet
    <2> QED
      BY <1>6, <2>2, <2>3
  <1>9. Pending' = Append(Pending, m)
    <2>1. Held' = <<u>>
      BY <1>2, <1>4 DEF Held
    <2>2. dchan' \o Held' = Append(dchan, u)
      BY <1>2, <1>4, <1>7, <2>1, AppendIsConcat
    <2>3. Pending' = Tagged(mbox, Append(dchan, u))
      BY <1>2, <2>2 DEF Pending, Tagged
    <2> QED
      BY <1>4, <1>7, <2>3, TaggedAppend
  <1>10. /\ UNCHANGED Remembered
         /\ ("oldmail" \in errCounts)' = ("oldmail" \in errCounts)
    BY <1>2 DEF Remembered
  <1>11. Promise!Store(m)
    BY <1>2, <1>6, <1>8, <1>9, <1>10 DEF Promise!Store
  <1> QED
    BY <1>5, <1>11

\* What deliver holds stands behind what its channel holds, so that sending it
\* changes nothing.
LEMMA SendKeepsPending ==
  ASSUME PipeInv, SendDelivered
  PROVE  UNCHANGED Promise!vars
  <1>1. TypeInv /\ DrainInv
    BY DEF PipeInv
  <1>2. /\ dchan' = Append(dchan, dmsg) /\ dmsg' = NoUid
        /\ pc["deliver"] = "send"
        /\ UNCHANGED <<stored, oldmail, openLine, mbox, errCounts>>
    BY DEF SendDelivered, diskVars, stillVars, localVars, selVars
  <1>3. dchan \in Seq(Uid) /\ dmsg \in Uid /\ dmsg # NoUid
    BY <1>1, <1>2, BoundsAssumption
       DEF TypeInv, TypeOK, TypePipe, ControlInv, CarryInv, Uid, NoUid
  <1>4. Append(dchan, dmsg) \in Seq(Uid)
    BY <1>3
  <1>5. dchan \o Held = Append(dchan, dmsg)
    BY <1>3, AppendIsConcat DEF Held
  <1>6. dchan' \o Held' = Append(dchan, dmsg)
    <2>1. Held' = <<>>
      BY <1>2 DEF Held
    <2> QED
      BY <1>2, <1>4, <2>1, ConcatEmptySeq
  <1>7. UNCHANGED Pending
    BY <1>2, <1>5, <1>6 DEF Pending
  <1>8. /\ UNCHANGED Remembered
        /\ ("oldmail" \in errCounts)' = ("oldmail" \in errCounts)
    BY <1>2 DEF Remembered
  <1> QED
    BY <1>2, <1>7, <1>8 DEF Promise!vars

\* oldmail takes the oldest pending message off the queue.
LEMMA OldmailReceives ==
  ASSUME PipeInv, WriteOldmail \/ FailWrite \/ SkipOldmail
  PROVE  /\ Pending # <<>> /\ Head(Pending) = <<mbox, Head(dchan)>>
         /\ Pending' = Tail(Pending)
  <1>1. TypeInv
    BY DEF PipeInv
  <1>2. /\ dchan # <<>> /\ dchan' = Tail(dchan)
        /\ UNCHANGED <<dmsg, mbox>>
    BY DEF WriteOldmail, FailWrite, SkipOldmail, stillVars, localVars, selVars
  <1>3. /\ dchan \in Seq(Uid) /\ Held \in Seq(Uid) /\ Queue \in Seq(Uid)
        /\ mbox \in Nat /\ Pending = Tagged(mbox, Queue)
    BY <1>1, QueueType
  <1>4. /\ Queue # <<>> /\ Head(Queue) = Head(dchan)
        /\ Tail(Queue) = Tail(dchan) \o Held
    BY <1>2, <1>3, HeadTailConcat DEF Queue
  <1>5. Pending # <<>>
    <2>1. Queue \in Seq(Uid) /\ mbox \in Nat /\ Queue # <<>>
      BY <1>3, <1>4
    <2>2. Tagged(mbox, Queue) # <<>>
      BY <2>1, TaggedNonEmpty
    <2> QED
      BY <1>3, <2>2
  <1>6. Head(Pending) = <<mbox, Head(dchan)>>
    BY <1>3, <1>4, TaggedHeadTail
  <1>7. Tail(Pending) = Tagged(mbox, Tail(dchan) \o Held)
    BY <1>3, <1>4, TaggedHeadTail
  <1>8. UNCHANGED Held
    BY <1>2 DEF Held
  <1>9. Pending' = Tagged(mbox, Tail(dchan) \o Held)
    BY <1>2, <1>8 DEF Pending, Tagged
  <1> QED
    BY <1>5, <1>6, <1>7, <1>9

\* Taking a message off the queue is one of Backup's steps: oldmail's line is
\* written, or spoils an unfinished one, or its write fails, or none is written
\* any more.
LEMMA OldmailImplements ==
  ASSUME PipeInv, WriteOldmail \/ FailWrite \/ SkipOldmail
  PROVE  Promise!Next
  <1> DEFINE m == <<mbox, Head(dchan)>>
  <1>1. /\ Pending # <<>> /\ Head(Pending) = m /\ Pending' = Tail(Pending)
    BY OldmailReceives
  <1>2. /\ openLine \cap oldmail = {} /\ \A a, b \in openLine : a = b
        /\ openLine \subseteq Message
    BY DEF PipeInv, DiskInv, TypeInv, TypeOK, TypeDisk
  <1>3. CASE WriteOldmail
    <2>1. "oldmail" \notin errCounts /\ UNCHANGED <<stored, errCounts>>
      BY <1>3 DEF WriteOldmail, MayWrite
    <2>2. CASE openLine = {}
      <3>1. oldmail' = oldmail \cup {m} /\ UNCHANGED openLine
        BY <1>3, <2>2 DEF WriteOldmail
      <3>2. Remembered' = Remembered \cup {m}
        BY <3>1 DEF Remembered
      <3> QED
        BY <1>1, <2>1, <3>2 DEF Promise!Next, Promise!Remember
    <2>3. CASE openLine # {}
      <3>1. PICK n \in openLine : openLine = {n}
        BY <1>2, <2>3
      <3>2. openLine' = {} /\ UNCHANGED oldmail
        BY <1>3, <2>3 DEF WriteOldmail
      <3>3. n \in Remembered /\ Remembered' = Remembered \ {n}
        BY <1>2, <3>1, <3>2 DEF Remembered
      <3>4. n \in Message
        BY <1>2
      <3>5. Promise!Spoil(n)
        BY <1>1, <2>1, <3>3 DEF Promise!Spoil
      <3> QED
        BY <3>4, <3>5 DEF Promise!Next
    <2> QED
      BY <2>2, <2>3
  <1>4. CASE FailWrite
    <2>1. /\ "oldmail" \notin errCounts /\ UNCHANGED <<stored, oldmail>>
          /\ "oldmail" \in errCounts'
      BY <1>4 DEF FailWrite, MayWrite, Count
    <2>2. \/ UNCHANGED Remembered
          \/ Remembered' = Remembered \cup {m}
          \/ \E n \in Remembered : Remembered' = Remembered \ {n}
      <3>1. CASE UNCHANGED openLine
        BY <2>1, <3>1 DEF Remembered
      <3>2. CASE openLine = {} /\ openLine' = {m}
        BY <2>1, <3>2 DEF Remembered
      <3>3. CASE openLine # {} /\ openLine' = {}
        <4>1. PICK n \in openLine : openLine = {n}
          BY <1>2, <3>3
        <4>2. n \in Remembered /\ Remembered' = Remembered \ {n}
          BY <1>2, <2>1, <3>3, <4>1 DEF Remembered
        <4> QED
          BY <4>2
      <3> QED
        BY <1>4, <3>1, <3>2, <3>3 DEF FailWrite
    <2>3. Promise!Fail
      <3>1. ("oldmail" \in errCounts)' = TRUE
        BY <2>1
      <3> QED
        BY <1>1, <2>1, <2>2, <3>1 DEF Promise!Fail
    <2> QED
      BY <2>3 DEF Promise!Next
  <1>5. CASE SkipOldmail
    <2>1. /\ "oldmail" \in errCounts
          /\ UNCHANGED <<stored, oldmail, openLine, errCounts>>
      BY <1>5 DEF SkipOldmail, MayWrite, diskVars
    <2>2. UNCHANGED Remembered
      BY <2>1 DEF Remembered
    <2> QED
      BY <1>1, <2>1, <2>2 DEF Promise!Next, Promise!Skip
  <1> QED
    BY <1>3, <1>4, <1>5

\* A failed close is a failure with nothing pending, and shows only when no
\* write has failed before.
LEMMA CloseImplements ==
  ASSUME PipeInv, OldmailDone
  PROVE  Promise!Fail \/ UNCHANGED Promise!vars
  <1>1. TypeInv /\ DrainInv
    BY DEF PipeInv
  <1>2. /\ dchan = <<>> /\ pc["deliver"] = "closed"
        /\ UNCHANGED <<stored, oldmail, openLine, mbox, dchan, dmsg>>
        /\ UNCHANGED errCounts \/ errCounts' = errCounts \cup {"oldmail"}
    BY DEF OldmailDone, Count, diskVars, stillVars, localVars, selVars, chanVars
  <1>3. dmsg = NoUid
    BY <1>1, <1>2 DEF DrainInv
  <1>4. UNCHANGED Remembered
    BY <1>2 DEF Remembered
  <1>5. CASE "oldmail" \in errCounts' <=> "oldmail" \in errCounts
    BY <1>2, <1>4, <1>5, BackupStutters
  <1>6. CASE "oldmail" \notin errCounts /\ "oldmail" \in errCounts'
    <2>1. Pending = <<>> /\ Pending' = <<>>
      <3>1. dchan \o Held = <<>> /\ dchan' \o Held' = <<>>
        BY <1>2, <1>3, ConcatEmptySeq DEF Held
      <3> QED
        BY <3>1 DEF Pending
    <2>2. ("oldmail" \in errCounts)' = TRUE
      BY <1>6
    <2> QED
      BY <1>2, <1>4, <1>6, <2>1, <2>2 DEF Promise!Fail
  <1> QED
    BY <1>2, <1>5, <1>6

\* The end of the process loses what is pending and forgets its failed write.
LEMMA EndImplements ==
  ASSUME ExitProcess \/ Crash
  PROVE  Promise!Restart
  <1>1. /\ dchan' = <<>> /\ dmsg' = NoUid /\ errCounts' = {}
        /\ UNCHANGED <<stored, oldmail, openLine>>
    BY DEF ExitProcess, Crash, EndProcess, diskVars
  <1>2. Pending' = <<>>
    <2>1. dchan' \o Held' = <<>>
      BY <1>1, ConcatEmptySeq DEF Held
    <2> QED
      BY <2>1 DEF Pending
  <1>3. UNCHANGED Remembered /\ ("oldmail" \in errCounts)' = FALSE
    BY <1>1 DEF Remembered
  <1> QED
    BY <1>1, <1>2, <1>3 DEF Promise!Restart

\* Nothing is stored, remembered or pending before the first run.
LEMMA InitImplements == Init => Promise!Init
  <1> SUFFICES ASSUME Init PROVE Promise!Init
    OBVIOUS
  <1>1. /\ stored = [m \in Message |-> 0] /\ Remembered = {}
        /\ dchan = <<>> /\ dmsg = NoUid /\ errCounts = {}
    BY DEF Init, Quiescent, Remembered
  <1>2. Pending = <<>>
    <2>1. dchan \o Held = <<>>
      BY <1>1, ConcatEmptySeq DEF Held
    <2> QED
      BY <2>1 DEF Pending
  <1>3. ("oldmail" \in errCounts) = FALSE
    BY <1>1
  <1> QED
    BY <1>1, <1>2, <1>3 DEF Promise!Init

\* Every other step leaves the disk and the queue alone: main's before there is
\* anything in it, those of fetch and translate, a delivery that fails, and all
\* the environment does but end the process.
LEMMA OthersStutter ==
  ASSUME PipeInv,
         \/ Main \/ FetchDone \/ Server \/ Translate
         \/ FailDelivery \/ DeliverDone \/ CloseDelivered
         \/ StartRun \/ Signal \/ Arrive \/ Renumber
         \/ \E u \in Uid : Expunge(u)
  PROVE  UNCHANGED Promise!vars
  <1> USE DEF diskVars, stillVars, runVars, localVars, selVars, pipeVars,
              chanVars
  <1>1. TypeInv /\ DrainInv /\ DiskInv
    BY DEF PipeInv
  <1>2. UNCHANGED <<stored, dchan, dmsg>>
    BY DEF Main, Server, Translate, Begin, TouchOldmail, ReadOldmail,
           SelectFolder, CheckInterrupt, ListMessages, StreamingRetrieval,
           StreamingDelivery, StreamingOldmailWriteout, WaitAll, FetchDone,
           EndFetch, FetchMessage, CheckCalled, PollInterrupt, ReportInterrupt,
           TranslateOnce, ReceiveNil, SendTranslated, FailDelivery,
           DeliverDone, CloseDelivered, StartRun, Signal, Arrive, Renumber,
           Expunge
  <1>3. "oldmail" \in errCounts' <=> "oldmail" \in errCounts
    <2>1. UNCHANGED errCounts \/ \E s \in {"fetch", "deliver"} : Count(s)
      BY DEF Main, Server, Translate, Begin, TouchOldmail, ReadOldmail,
             SelectFolder, CheckInterrupt, ListMessages, StreamingRetrieval,
             StreamingDelivery, StreamingOldmailWriteout, WaitAll, FetchDone,
             EndFetch, FetchMessage, CheckCalled, PollInterrupt,
             ReportInterrupt, TranslateOnce, ReceiveNil, SendTranslated,
             FailDelivery, DeliverDone, CloseDelivered, StartRun, Signal,
             Arrive, Renumber, Expunge
    <2> QED
      BY <2>1 DEF Count
  <1>4. CASE TouchOldmail
    <2>1. pc["main"] = "touch" /\ UNCHANGED mbox
      BY <1>4 DEF TouchOldmail
    <2>2. oldmail = {} /\ openLine = {}
      BY <1>1, <2>1 DEF DiskInv
    <2>3. oldmail' = {} /\ openLine' = {}
      BY <1>4, <2>2 DEF TouchOldmail
    <2>4. UNCHANGED Remembered
      BY <2>2, <2>3 DEF Remembered
    <2> QED
      BY <1>2, <1>3, <2>1, <2>4, BackupStutters
  <1>5. CASE SelectFolder
    <2>1. pc["main"] = "select" /\ UNCHANGED <<oldmail, openLine>>
      BY <1>5 DEF SelectFolder
    <2>2. dchan = <<>> /\ dmsg = NoUid
      BY <1>1, <2>1, SetupEmpty DEF SetupLabels
    <2>3. UNCHANGED Remembered
      BY <2>1 DEF Remembered
    <2> QED
      BY <1>2, <1>3, <2>2, <2>3, BackupStutters
  <1>6. CASE ~(TouchOldmail \/ SelectFolder)
    <2>1. UNCHANGED <<oldmail, openLine, mbox>>
      BY <1>6 DEF Main, Server, Translate, Begin, ReadOldmail,
             CheckInterrupt, ListMessages, StreamingRetrieval,
             StreamingDelivery, StreamingOldmailWriteout, WaitAll, FetchDone,
             EndFetch, FetchMessage, CheckCalled, PollInterrupt,
             ReportInterrupt, TranslateOnce, ReceiveNil, SendTranslated,
             FailDelivery, DeliverDone, CloseDelivered, StartRun, Signal,
             Arrive, Renumber, Expunge
    <2>2. UNCHANGED Remembered
      BY <2>1 DEF Remembered
    <2> QED
      BY <1>2, <1>3, <2>1, <2>2, BackupStutters
  <1> QED
    BY <1>4, <1>5, <1>6

\* Every step of the pipeline, of the processes that run it one after the other
\* and of their environment is a step of Backup's or none of its business.
LEMMA StepsImplement ==
  PipeInv /\ [Next]_vars => [Promise!Next]_(Promise!vars)
  <1> SUFFICES ASSUME PipeInv, [Next]_vars
               PROVE  Promise!Next \/ UNCHANGED Promise!vars
    OBVIOUS
  <1>1. CASE DeliverMessage
    BY <1>1, DeliverStores DEF Promise!Next
  <1>2. CASE SendDelivered
    BY <1>2, SendKeepsPending
  <1>3. CASE WriteOldmail \/ FailWrite \/ SkipOldmail
    BY <1>3, OldmailImplements
  <1>4. CASE OldmailDone
    BY <1>4, CloseImplements DEF Promise!Next
  <1>5. CASE ExitProcess \/ Crash
    BY <1>5, EndImplements DEF Promise!Next
  <1>6. CASE \/ Main \/ FetchDone \/ Server \/ Translate
             \/ FailDelivery \/ DeliverDone \/ CloseDelivered
             \/ StartRun \/ Signal \/ Arrive \/ Renumber
             \/ \E u \in Uid : Expunge(u)
    BY <1>6, OthersStutter
  <1>7. CASE UNCHANGED vars
    <2>1. UNCHANGED <<stored, oldmail, openLine, mbox, dchan, dmsg, errCounts>>
      BY <1>7 DEF vars, diskVars, localVars, selVars, pipeVars, chanVars
    <2>2. UNCHANGED Remembered
      BY <2>1 DEF Remembered
    <2> QED
      BY <2>1, <2>2, BackupStutters
  <1> QED
    BY <1>1, <1>2, <1>3, <1>4, <1>5, <1>6, <1>7
       DEF Next, Deliver, Oldmail, Environment

\* The pipeline implements Backup: over all runs, however they end, messages are
\* remembered in the order they were stored, none after a failed write, and none
\* is stored that is remembered or about to be.
THEOREM PipelineImplementsBackup == Spec => ImplementsBackup
  <1>1. Spec => []PipeInv
    BY PipeInvariant
  <1>2. Init => Promise!Init
    BY InitImplements
  <1>3. PipeInv /\ [Next]_vars => [Promise!Next]_(Promise!vars)
    BY StepsImplement
  <1> QED
    BY <1>1, <1>2, <1>3, PTL DEF Spec, ImplementsBackup, Promise!Spec
=============================================================================
