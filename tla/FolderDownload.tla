--------------------------- MODULE FolderDownload ---------------------------
(***************************************************************************)
(* The incremental download of one IMAP folder into a maildir, over any    *)
(* number of runs of the program: downloadMissingEmailsToFolder and the    *)
(* pipeline of goroutines it sets up.                                      *)
(*                                                                         *)
(*   server --UidFetch--> fetch --orgMessageChan--> translate              *)
(*     --translatedMessageChan--> deliver --deliveredChan--> oldmail       *)
(*                                                                         *)
(* A message is <<uidValidity, uid>>. What survives the process is the     *)
(* maildir (folder, stored) and the oldmail file (oldmail, openLine,       *)
(* lines), by which the next run knows what it need not fetch.             *)
(***************************************************************************)
EXTENDS Integers, Sequences, FiniteSets

CONSTANTS
    MaxUid,                  \* bound: UIDs the server hands out
    MaxValidity,             \* bound: UIDVALIDITY values of the folder
    MaxRuns,                 \* bound: runs of the program
    messageRetrievalBuffer,  \* capacity of translatedMessageChan
    messageDeliveryBuffer,   \* capacity of deliveredChan
    Faults                   \* what the environment may do, see FaultKinds

FaultKinds == {"init", "read", "select", "list", "lostListError", "fetch",
               "deliver", "open", "write", "shortTear", "longTear", "close",
               "crash", "signal", "arrive", "expunge", "renumber"}

ASSUME BoundsAssumption ==
    /\ MaxUid \in Nat \ {0}
    /\ MaxValidity \in Nat \ {0}
    /\ MaxRuns \in Nat \ {0}
ASSUME BufferAssumption ==
    /\ messageRetrievalBuffer \in Nat \ {0}
    /\ messageDeliveryBuffer \in Nat \ {0}
ASSUME FaultsAssumption == Faults \subseteq FaultKinds

Uid == 1..MaxUid
Message == (1..MaxValidity) \X Uid
Goroutines == {"main", "fetch", "translate", "deliver", "oldmail"}
Stages == {"fetch", "deliver", "oldmail"}
NoUid == 0

VARIABLES
    \* The disk.
    folder,       \* the maildir's directories: "absent", "partial", "ready"
    stored,       \* copies of each message in the maildir's new/
    oldmail,      \* messages on the whole lines of the oldmail file
    openLine,     \* the message of a last line that parses but has no newline
    lines,        \* "garbled" once a line of the oldmail file does not parse
    \* The server.
    mailbox, uidNext, uidValidity,
    \* The process.
    pc, sig, runs, failures, late,
    \* Locals of downloadMissingEmailsToFolder.
    mbox, view, missing, listing, result,
    \* The pipeline.
    wg, already, sent, tmsg, tchan, dmsg, dchan,
    errCounts     \* the stages whose error count is not 0

diskVars == <<folder, stored, oldmail, openLine, lines>>
serverVars == <<mailbox, uidNext, uidValidity>>
runVars == <<runs, failures>>
selVars == <<mbox, view, missing, listing>>
localVars == <<selVars, result>>
chanVars == <<tmsg, tchan, dmsg, dchan>>
pipeVars == <<wg, already, sent, chanVars, errCounts>>
\* What most steps of the pipeline leave alone.
stillVars == <<serverVars, sig, runVars, late, localVars>>
vars == <<diskVars, serverVars, pc, sig, runVars, late, localVars, pipeVars>>

\* What readOldmail returns when it succeeds.
Remembered == oldmail \cup openLine

Unreadable == lines = "garbled" \/ folder # "ready"

TypeDisk ==
    /\ folder \in {"absent", "partial", "ready"}
    /\ stored \in [Message -> Nat]
    /\ oldmail \subseteq Message
    /\ openLine \subseteq Message
    /\ lines \in {"whole", "garbled"}

TypeServer ==
    /\ mailbox \subseteq Uid
    /\ uidNext \in 1..(MaxUid + 1)
    /\ uidValidity \in 1..MaxValidity

TypeProcess ==
    /\ pc \in [Goroutines ->
                 {"idle", "begin", "touch", "read", "select", "check", "list",
                  "retrieve", "deliver", "open", "wait", "returned",
                  "fetching", "once", "loop", "poll", "recv", "send",
                  "caught", "receive", "close", "closed", "done"}]
    /\ sig \in {"none", "empty", "full"}
    /\ runs \in 0..MaxRuns
    /\ failures \in Nat
    /\ late \in Nat

TypeLocals ==
    /\ mbox \in 0..MaxValidity
    /\ view \subseteq Uid
    /\ missing \subseteq Uid
    /\ listing \in {"none", "complete", "failed", "lost"}
    /\ result \in {"none", "ok", "error"}

TypePipe ==
    /\ wg \in 0..3
    /\ already \in {"armed", "called"}
    /\ sent \subseteq Uid
    /\ tmsg \in Uid \cup {NoUid}
    /\ dmsg \in Uid \cup {NoUid}
    /\ tchan \in Seq(Uid) /\ Len(tchan) <= messageRetrievalBuffer
    /\ dchan \in Seq(Uid) /\ Len(dchan) <= messageDeliveryBuffer
    /\ errCounts \subseteq Stages

TypeOK == TypeDisk /\ TypeServer /\ TypeProcess /\ TypeLocals /\ TypePipe

-----------------------------------------------------------------------------
(***************************************************************************)
(* The state of a process that is not running: nothing of it is left.      *)
(***************************************************************************)
Quiescent ==
    /\ pc = [g \in Goroutines |-> "idle"]
    /\ sig = "none"
    /\ late = 0
    /\ mbox = 0 /\ view = {} /\ missing = {} /\ listing = "none"
    /\ result = "none"
    /\ wg = 0 /\ already = "armed" /\ sent = {}
    /\ tmsg = NoUid /\ tchan = <<>> /\ dmsg = NoUid /\ dchan = <<>>
    /\ errCounts = {}

Init ==
    /\ folder = "absent"
    /\ stored = [m \in Message |-> 0]
    /\ oldmail = {} /\ openLine = {} /\ lines = "whole"
    /\ \E n \in 0..MaxUid : mailbox = 1..n /\ uidNext = n + 1
    /\ uidValidity = 1
    /\ runs = 0 /\ failures = 0
    /\ Quiescent

\* errCount++ of a stage.
Count(stage) == errCounts' = errCounts \cup {stage}

Goto(g, label) == pc' = [pc EXCEPT ![g] = label]

\* downloadMissingEmailsToFolder returns.
Return(r) ==
    /\ Goto("main", "returned")
    /\ result' = r

-----------------------------------------------------------------------------
(***************************************************************************)
(* The main goroutine, up to the start of the pipeline.                    *)
(***************************************************************************)

\* authenticateClient has registered the connection's interrupter.
StartRun ==
    /\ pc["main"] = "idle" /\ runs < MaxRuns
    /\ runs' = runs + 1
    /\ Goto("main", "begin")
    /\ sig' = "empty"
    /\ UNCHANGED <<diskVars, serverVars, failures, late, localVars, pipeVars>>

\* interrupter.interrupted(): a pending signal is consumed and the channel
\* dropped, and from then on every call returns true.
Interrupted == sig # "empty"
Poll == sig' = IF Interrupted THEN "none" ELSE sig

\* Imapgrabber.downloadMissingEmailsToFolder asks for an interrupt first, then
\* initMaildir looks for the directory. All of its directories are made before
\* the oldmail file, and one failure ends it.
Begin ==
    /\ pc["main"] = "begin"
    /\ Poll
    /\ IF Interrupted THEN Return("error") /\ UNCHANGED folder
       ELSE \/ /\ folder = "absent"
               /\ folder' = "partial"
               /\ \/ Goto("main", "touch") /\ UNCHANGED result
                  \/ "init" \in Faults /\ Return("error")
            \/ /\ folder = "absent" /\ "init" \in Faults
               /\ Return("error") /\ UNCHANGED folder
            \/ /\ folder # "absent"
               /\ Goto("main", "read") /\ UNCHANGED <<folder, result>>
    /\ UNCHANGED <<stored, oldmail, openLine, lines, serverVars, runVars, late,
                   selVars, pipeVars>>

\* touch creates the oldmail file, or empties one that is there.
TouchOldmail ==
    /\ pc["main"] = "touch"
    /\ \/ /\ folder' = "ready" /\ oldmail' = {} /\ openLine' = {}
          /\ lines' = "whole"
          /\ Goto("main", "read") /\ UNCHANGED result
       \/ /\ "init" \in Faults
          /\ Return("error")
          /\ UNCHANGED <<folder, oldmail, openLine, lines>>
    /\ UNCHANGED <<stored, serverVars, sig, runVars, late, selVars, pipeVars>>

\* initExistingMaildir and readOldmail. The file's content is kept by nobody
\* but this process, so its lines are read again where they are compared.
ReadOldmail ==
    /\ pc["main"] = "read"
    /\ \/ ~Unreadable /\ Goto("main", "select") /\ UNCHANGED result
       \/ (Unreadable \/ "read" \in Faults) /\ Return("error")
    /\ UNCHANGED <<diskVars, serverVars, sig, runVars, late, selVars,
                   pipeVars>>

SelectFolder ==
    /\ pc["main"] = "select"
    /\ \/ /\ mbox' = uidValidity /\ view' = mailbox
          /\ Goto("main", "check") /\ UNCHANGED result
       \/ "select" \in Faults /\ Return("error") /\ UNCHANGED <<mbox, view>>
    /\ UNCHANGED <<diskVars, serverVars, sig, runVars, late, missing, listing,
                   pipeVars>>

CheckInterrupt ==
    /\ pc["main"] = "check"
    /\ Poll
    /\ IF Interrupted THEN Return("error")
       ELSE Goto("main", "list") /\ UNCHANGED result
    /\ UNCHANGED <<diskVars, serverVars, runVars, late, selVars, pipeVars>>

\* Mutant: the UIDVALIDITY of the stored data is not compared.
ValidityAgrees_Unchecked(uids) == TRUE

\* determineMissingUIDs: an empty listing is never compared to the stored
\* data; otherwise one foreign UIDVALIDITY on disk is an error.
ValidityAgrees(uids) ==
    uids = {} \/ \A m \in Remembered : m[1] = mbox

\* Mutant: every listed message counts as missing.
MissingUIDs_All(uids) == uids

MissingUIDs(uids) == {u \in uids : <<mbox, u>> \notin Remembered}

DetermineMissing(uids) ==
    IF ~ValidityAgrees(uids)
    THEN Return("error") /\ UNCHANGED missing
    ELSE /\ missing' = MissingUIDs(uids)
         /\ IF missing' = {} THEN Return("ok")
            ELSE Goto("main", "retrieve") /\ UNCHANGED result

\* getAllMessageUUIDs and what is made of its result. The goroutine that calls
\* Fetch assigns err after Fetch has closed the channel, and the receiver
\* returns err as soon as it sees the channel closed: a failed listing leaves
\* the UIDs received so far and, by an unsynchronised read, its error or nil.
ListMessages ==
    /\ pc["main"] = "list"
    /\ \/ DetermineMissing(view \cap mailbox) /\ listing' = "complete"
       \/ "list" \in Faults /\ view # {} /\ Return("error")
          /\ listing' = "failed" /\ UNCHANGED missing
       \/ /\ "lostListError" \in Faults /\ view # {}
          /\ \E uids \in SUBSET (view \cap mailbox) : DetermineMissing(uids)
          /\ listing' = "lost"
    /\ UNCHANGED <<diskVars, serverVars, sig, runVars, late, mbox, view,
                   pipeVars>>

\* streamingRetrieval: fetch waits for startWg, translate runs at once.
StreamingRetrieval ==
    /\ pc["main"] = "retrieve"
    /\ wg' = wg + 1
    /\ pc' = [pc EXCEPT !["main"] = "deliver", !["fetch"] = "fetching",
                        !["translate"] = "loop"]
    /\ UNCHANGED <<diskVars, stillVars, already, sent, chanVars, errCounts>>

StreamingDelivery ==
    /\ pc["main"] = "deliver"
    /\ wg' = wg + 1
    /\ pc' = [pc EXCEPT !["main"] = "open", !["deliver"] = "receive"]
    /\ UNCHANGED <<diskVars, stillVars, already, sent, chanVars, errCounts>>

\* streamingOldmailWriteout. When the file cannot be opened startWg is never
\* released: fetch and deliver wait for ever, translate on orgMessageChan.
StreamingOldmailWriteout ==
    /\ pc["main"] = "open"
    /\ \/ /\ wg' = wg + 1
          /\ pc' = [pc EXCEPT !["main"] = "wait", !["oldmail"] = "receive"]
          /\ UNCHANGED result
       \/ "open" \in Faults /\ Return("error") /\ UNCHANGED wg
    /\ UNCHANGED <<diskVars, serverVars, sig, runVars, late, selVars, already,
                   sent, chanVars, errCounts>>

\* startWg.Done() follows the last set-up step without another in between;
\* fetch, deliver and oldmail wait for it before they do anything.
Started == pc["oldmail"] # "idle"
Fetching == Started /\ pc["fetch"] = "fetching"
Delivering == Started /\ pc["deliver"] = "receive"
Remembering == Started /\ pc["oldmail"] = "receive"

\* Mutants: one of the three counts is forgotten.
PipelineErrors_NoDeliver == errCounts \ {"deliver"} # {}
PipelineErrors_NoOldmail == errCounts \ {"oldmail"} # {}

PipelineErrors == errCounts # {}

\* Mutant: one goroutine is not waited for.
AllDone_ButOne == wg <= 1

AllDone == wg = 0

WaitAll ==
    /\ pc["main"] = "wait" /\ AllDone
    /\ Return(IF PipelineErrors THEN "error" ELSE "ok")
    /\ UNCHANGED <<diskVars, serverVars, sig, runVars, late, selVars,
                   pipeVars>>

-----------------------------------------------------------------------------
(***************************************************************************)
(* fetch: UidFetch of the missing UIDs, and the report of its error. The   *)
(* counts of errors are only ever compared with 0, so they are kept as     *)
(* "was there one"; the race of fetch and translate on errCount++ may lose *)
(* one of two increments but never both.                                   *)
(***************************************************************************)
\* orgMessageChan is unbuffered: the server's next message is handed over when
\* translate receives. The server sends each message it still has once, in any
\* order. late counts what is accepted with an interrupt pending.
FetchMessage(u) ==
    /\ Fetching /\ pc["translate"] = "recv"
    /\ u \in (missing \cap mailbox) \ sent
    /\ sent' = sent \cup {u}
    /\ tmsg' = u
    /\ Goto("translate", "send")
    /\ late' = IF sig = "full" THEN late + 1 ELSE late
    /\ UNCHANGED <<diskVars, serverVars, sig, runVars, localVars, wg, already,
                   tchan, dmsg, dchan, errCounts>>

\* UidFetch returns; go-imap has closed orgMessageChan by then.
EndFetch ==
    /\ Fetching
    /\ \/ missing \cap mailbox \subseteq sent /\ UNCHANGED errCounts
       \/ "fetch" \in Faults /\ Count("fetch")
    /\ Goto("fetch", "once")
    /\ UNCHANGED <<diskVars, stillVars, wg, already, sent, chanVars>>
OrgClosed == pc["fetch"] \in {"once", "done"}

\* Mutant: both callers leave the wait group.
CallOnce_Twice == already' = "called" /\ wg' = wg - 1

\* once.call(): whoever comes first marks it called and leaves the wait group.
CallOnce ==
    /\ already' = "called"
    /\ wg' = IF already = "called" THEN wg ELSE wg - 1

FetchDone ==
    /\ pc["fetch"] = "once"
    /\ CallOnce
    /\ Goto("fetch", "done")
    /\ UNCHANGED <<diskVars, stillVars, sent, chanVars, errCounts>>

-----------------------------------------------------------------------------
(***************************************************************************)
(* translate: hands messages on, and polls for an interrupt before each.   *)
(***************************************************************************)
CheckCalled ==
    /\ pc["translate"] = "loop"
    /\ Goto("translate", IF already = "called" THEN "closed" ELSE "poll")
    /\ UNCHANGED <<diskVars, stillVars, pipeVars>>

PollInterrupt ==
    /\ pc["translate"] = "poll"
    /\ Poll
    /\ Goto("translate", IF Interrupted THEN "caught" ELSE "recv")
    /\ UNCHANGED <<diskVars, serverVars, runVars, late, localVars, pipeVars>>

\* Mutant: the interrupt is not counted as an error.
ReportInterrupt_Silent ==
    /\ pc["translate"] = "caught"
    /\ Goto("translate", "once")
    /\ UNCHANGED <<diskVars, stillVars, pipeVars>>

\* errCount++, then already.call().
ReportInterrupt ==
    /\ pc["translate"] = "caught"
    /\ Count("fetch")
    /\ Goto("translate", "once")
    /\ UNCHANGED <<diskVars, stillVars, wg, already, sent, chanVars>>

TranslateOnce ==
    /\ pc["translate"] = "once"
    /\ CallOnce
    /\ Goto("translate", "loop")
    /\ UNCHANGED <<diskVars, stillVars, sent, chanVars, errCounts>>

\* A receive from the closed channel yields nil, which is ignored.
ReceiveNil ==
    /\ pc["translate"] = "recv" /\ OrgClosed
    /\ Goto("translate", "loop")
    /\ UNCHANGED <<diskVars, stillVars, pipeVars>>

\* Mutant: translate goes on to the next message without polling.
SendTranslated_NoPoll ==
    /\ pc["translate"] = "send"
    /\ Len(tchan) < messageRetrievalBuffer
    /\ tchan' = Append(tchan, tmsg) /\ tmsg' = NoUid
    /\ Goto("translate", "recv")
    /\ UNCHANGED <<diskVars, stillVars, wg, already, sent, dmsg, dchan,
                   errCounts>>

SendTranslated ==
    /\ pc["translate"] = "send"
    /\ Len(tchan) < messageRetrievalBuffer
    /\ tchan' = Append(tchan, tmsg) /\ tmsg' = NoUid
    /\ Goto("translate", "loop")
    /\ UNCHANGED <<diskVars, stillVars, wg, already, sent, dmsg, dchan,
                   errCounts>>

-----------------------------------------------------------------------------
(***************************************************************************)
(* deliver: one file in the maildir per message, then its oldmail record.  *)
(***************************************************************************)
\* rfc822FromEmail and deliverMessage; the file appears in new/ by a rename.
DeliverMessage ==
    /\ Delivering /\ tchan # <<>>
    /\ stored' = [stored EXCEPT ![<<mbox, Head(tchan)>>] = @ + 1]
    /\ dmsg' = Head(tchan) /\ tchan' = Tail(tchan)
    /\ Goto("deliver", "send")
    /\ UNCHANGED <<folder, oldmail, openLine, lines, stillVars, wg, already,
                   sent, tmsg, dchan, errCounts>>

\* Mutant: a failed delivery is remembered all the same.
FailDelivery_Remembers ==
    /\ Delivering /\ tchan # <<>> /\ "deliver" \in Faults
    /\ Count("deliver")
    /\ dmsg' = Head(tchan) /\ tchan' = Tail(tchan)
    /\ Goto("deliver", "send")
    /\ UNCHANGED <<diskVars, stillVars, wg, already, sent, tmsg, dchan>>

\* Either of the two fails: the message is counted and passed over.
FailDelivery ==
    /\ Delivering /\ tchan # <<>> /\ "deliver" \in Faults
    /\ Count("deliver")
    /\ tchan' = Tail(tchan)
    /\ UNCHANGED <<diskVars, stillVars, wg, already, sent, tmsg, dmsg, dchan,
                   pc>>

SendDelivered ==
    /\ pc["deliver"] = "send"
    /\ Len(dchan) < messageDeliveryBuffer
    /\ dchan' = Append(dchan, dmsg) /\ dmsg' = NoUid
    /\ Goto("deliver", "receive")
    /\ UNCHANGED <<diskVars, stillVars, wg, already, sent, tmsg, tchan,
                   errCounts>>

\* wg.Done() comes before close(deliveredChan).
DeliverDone ==
    /\ Delivering /\ tchan = <<>> /\ pc["translate"] = "closed"
    /\ wg' = wg - 1
    /\ Goto("deliver", "close")
    /\ UNCHANGED <<diskVars, stillVars, already, sent, chanVars, errCounts>>

CloseDelivered ==
    /\ pc["deliver"] = "close"
    /\ Goto("deliver", "closed")
    /\ UNCHANGED <<diskVars, stillVars, pipeVars>>

-----------------------------------------------------------------------------
(***************************************************************************)
(* oldmail: appends one line per delivered message. After a failed write   *)
(* it writes no more, but goes on receiving so that deliver is not stuck.  *)
(***************************************************************************)
\* Mutant: oldmail writes on after a failed write.
MayWrite_Always == TRUE

MayWrite == "oldmail" \notin errCounts

\* A line appended to an unterminated one makes a single line of the two,
\* which does not parse.
WriteOldmail ==
    /\ Remembering /\ dchan # <<>> /\ MayWrite
    /\ IF openLine = {}
       THEN /\ oldmail' = oldmail \cup {<<mbox, Head(dchan)>>}
            /\ UNCHANGED <<openLine, lines>>
       ELSE openLine' = {} /\ lines' = "garbled" /\ UNCHANGED oldmail
    /\ dchan' = Tail(dchan)
    /\ UNCHANGED <<folder, stored, stillVars, wg, already, sent, tmsg, tchan,
                   dmsg, errCounts, pc>>

\* A failed write leaves nothing of the line, too little of it to parse, or
\* all three fields but no newline.
FailWrite ==
    /\ Remembering /\ dchan # <<>> /\ MayWrite
    /\ \/ "write" \in Faults /\ UNCHANGED <<openLine, lines>>
       \/ "shortTear" \in Faults /\ lines' = "garbled" /\ openLine' = {}
       \/ /\ "longTear" \in Faults
          /\ IF openLine = {}
             THEN openLine' = {<<mbox, Head(dchan)>>} /\ UNCHANGED lines
             ELSE openLine' = {} /\ lines' = "garbled"
    /\ Count("oldmail")
    /\ dchan' = Tail(dchan)
    /\ UNCHANGED <<folder, stored, oldmail, stillVars, wg, already, sent, tmsg,
                   tchan, dmsg, pc>>

\* Mutant: oldmail stops receiving after a failed write.
SkipOldmail_Stuck == FALSE /\ UNCHANGED vars

SkipOldmail ==
    /\ Remembering /\ dchan # <<>> /\ ~MayWrite
    /\ dchan' = Tail(dchan)
    /\ UNCHANGED <<diskVars, stillVars, wg, already, sent, tmsg, tchan, dmsg,
                   errCounts, pc>>

\* handle.Close(), whose failure counts too, and wg.Done().
OldmailDone ==
    /\ Remembering /\ dchan = <<>> /\ pc["deliver"] = "closed"
    /\ \/ UNCHANGED errCounts
       \/ "close" \in Faults /\ Count("oldmail")
    /\ wg' = wg - 1
    /\ Goto("oldmail", "done")
    /\ UNCHANGED <<diskVars, stillVars, already, sent, chanVars>>

-----------------------------------------------------------------------------
(***************************************************************************)
(* The environment: the end of the process, the user, the mail server.     *)
(***************************************************************************)

\* The process ends and takes every goroutine with it.
EndProcess ==
    /\ pc' = [g \in Goroutines |-> "idle"]
    /\ sig' = "none"
    /\ late' = 0
    /\ mbox' = 0 /\ view' = {} /\ missing' = {} /\ listing' = "none"
    /\ result' = "none"
    /\ wg' = 0 /\ already' = "armed" /\ sent' = {}
    /\ tmsg' = NoUid /\ tchan' = <<>> /\ dmsg' = NoUid /\ dchan' = <<>>
    /\ errCounts' = {}

ExitProcess ==
    /\ pc["main"] = "returned"
    /\ failures' = failures + (IF result = "error" THEN 1 ELSE 0)
    /\ EndProcess
    /\ UNCHANGED <<diskVars, serverVars, runs>>

Crash ==
    /\ "crash" \in Faults /\ pc["main"] # "idle"
    /\ failures' = failures + 1
    /\ EndProcess
    /\ UNCHANGED <<diskVars, serverVars, runs>>

\* The interrupter's channel holds one signal; further ones are dropped.
Signal ==
    /\ "signal" \in Faults /\ sig = "empty" /\ pc["main"] # "returned"
    /\ sig' = "full"
    /\ UNCHANGED <<diskVars, serverVars, runVars, late, localVars, pipeVars,
                   pc>>

Arrive ==
    /\ "arrive" \in Faults /\ uidNext <= MaxUid
    /\ mailbox' = mailbox \cup {uidNext} /\ uidNext' = uidNext + 1
    /\ UNCHANGED <<diskVars, uidValidity, sig, runVars, late, localVars,
                   pipeVars, pc>>

Expunge(u) ==
    /\ "expunge" \in Faults /\ u \in mailbox
    /\ mailbox' = mailbox \ {u}
    /\ UNCHANGED <<diskVars, uidNext, uidValidity, sig, runVars, late,
                   localVars, pipeVars, pc>>

\* The folder is made anew under another UIDVALIDITY, while nobody selects it.
Renumber ==
    /\ "renumber" \in Faults /\ pc["main"] = "idle"
    /\ uidValidity < MaxValidity
    /\ uidValidity' = uidValidity + 1
    /\ \E n \in 0..MaxUid : mailbox' = 1..n /\ uidNext' = n + 1
    /\ UNCHANGED <<diskVars, sig, runVars, late, localVars, pipeVars, pc>>

-----------------------------------------------------------------------------
Main == \/ Begin \/ TouchOldmail \/ ReadOldmail \/ SelectFolder
        \/ CheckInterrupt \/ ListMessages \/ StreamingRetrieval
        \/ StreamingDelivery \/ StreamingOldmailWriteout \/ WaitAll
Server == EndFetch \/ \E u \in Uid : FetchMessage(u)
Translate == \/ CheckCalled \/ PollInterrupt \/ ReportInterrupt
             \/ TranslateOnce \/ ReceiveNil \/ SendTranslated
Deliver == \/ DeliverMessage \/ FailDelivery \/ SendDelivered
           \/ DeliverDone \/ CloseDelivered
Oldmail == WriteOldmail \/ FailWrite \/ SkipOldmail \/ OldmailDone
Environment == \/ StartRun \/ ExitProcess \/ Crash \/ Signal \/ Arrive
               \/ Renumber \/ \E u \in Uid : Expunge(u)

Next == Main \/ FetchDone \/ Server \/ Translate \/ Deliver \/ Oldmail
        \/ Environment

Spec == Init /\ [][Next]_vars

(***************************************************************************)
(* The Go scheduler runs every goroutine that can run. Whether the mail    *)
(* server ever answers is a matter of its own, for no call has a timeout:  *)
(* FairSpec assumes it.                                                    *)
(***************************************************************************)
FairSpec ==
    /\ Spec
    /\ WF_vars(Main) /\ WF_vars(FetchDone) /\ WF_vars(Translate)
    /\ WF_vars(Deliver) /\ WF_vars(Oldmail) /\ WF_vars(Server)

-----------------------------------------------------------------------------
(***************************************************************************)
(* Properties.                                                             *)
(***************************************************************************)

\* What the oldmail file claims to have, the maildir has: no message is ever
\* passed over by a later run without a copy of it in new/. Messages are
\* delivered (deliver.go) before they are remembered (oldmail.go), by
\* different goroutines, and either may fail or be cut short by a crash.
RememberedStored == \A m \in Remembered : stored[m] >= 1

\* A message is stored twice only because a run failed or crashed between its
\* delivery and its line in the oldmail file.
DuplicatesPaidFor == \A m \in Message : stored[m] <= failures + 1

\* The oldmail file never mixes two UIDVALIDITY values, although runs, new
\* folders of the same name and lost listings come in any order
\* (determineMissingUIDs).
OneValidity == \A m, n \in Remembered : m[1] = n[1]

\* A run that ends without an error has every message it saw in the folder and
\* that is still there, unless the listing failed unnoticed or the file had
\* been spoiled by the failed write of an earlier run.
SuccessIsComplete ==
    pc["main"] = "returned" /\ result = "ok" /\ listing # "lost" /\ lines = "whole"
      => \A u \in view \cap mailbox : <<mbox, u>> \in Remembered

\* An interrupt some poll of the run has consumed is reported as an error.
InterruptReported ==
    pc["main"] = "returned" /\ sig = "none" => result = "error"

\* Once an interrupt is pending at most one more message is accepted from the
\* server: translate polls before each.
InterruptHeeded == late <= 1

\* The folder becomes unusable for later runs (half-made directories, an
\* oldmail file that does not parse or soon will not) only through a run that
\* failed, was cut short, or is about to report its failed write.
NeverSpoiledSilently ==
    lines = "garbled" \/ openLine # {} \/ folder = "partial"
      => \/ failures > 0 \/ "oldmail" \in errCounts
         \/ pc["main"] = "touch"
         \/ pc["main"] = "returned" /\ result = "error"

\* After downloadMissingEmailsToFolder has returned none of its goroutines
\* writes to the disk any more (wg, although deliver leaves it before it has
\* closed its channel).
QuietAfterReturn == [][pc["main"] = "returned" => UNCHANGED diskVars]_vars

\* Every run comes to an end, however full the channels and whatever failed,
\* as long as the server ends its replies.
Termination == pc["main"] = "begin" ~> pc["main"] \in {"returned", "idle"}

\* What getAllMessageUUIDs is tested to do: report the error of its Fetch.
ListingErrorReported ==
    pc["main"] = "returned" /\ listing = "lost" => result = "error"

-----------------------------------------------------------------------------
(***************************************************************************)
(* The pipeline implements Backup: what waits for its line is what deliver *)
(* holds and what its channel holds.                                       *)
(***************************************************************************)
Held == IF dmsg = NoUid THEN <<>> ELSE <<dmsg>>
Pending == [i \in 1..Len(dchan \o Held) |-> <<mbox, (dchan \o Held)[i]>>]

Promise == INSTANCE Backup WITH
    copies <- stored, remembered <- Remembered, pending <- Pending,
    broken <- "oldmail" \in errCounts

\* Every step of the program is one of Backup's or none of its business:
\* messages are remembered in the order they were stored, none after a failed
\* write, and none is stored that is remembered or about to be.
ImplementsBackup == Promise!Spec
=============================================================================
