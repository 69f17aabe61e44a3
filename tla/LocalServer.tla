---------------------------- MODULE LocalServer ----------------------------
(***************************************************************************)
(* ServeMaildir, start after start, and a mail client that keeps a copy of *)
(* what it has seen. The maildirs are read once, at the start; their       *)
(* messages are numbered by the time of their files, and a number is the   *)
(* message's UID under a UIDVALIDITY that never changes.                   *)
(*                                                                         *)
(* Downloads and the server exclude each other (module FolderLock), but    *)
(* another mail program may look into the maildirs at any time, and moves  *)
(* what it has shown from new/ to cur/. The bodies in memory are module    *)
(* MessageCache; flags are left out.                                       *)
(***************************************************************************)
EXTENDS Integers, Sequences, FiniteSets, SequencesExt

CONSTANTS
    Folder,
    Nested,      \* folders with a separator in their name: not directly in the base directory
    File,        \* messages
    Home,        \* each message's folder
    MaxStarts,   \* bound: starts of the server
    MaxClock,    \* bound: the time of the last delivery
    NoFolder

ASSUME FolderAssumption == Nested \subseteq Folder /\ NoFolder \notin Folder
ASSUME HomeAssumption == IsFiniteSet(File) /\ Home \in [File -> Folder]
ASSUME BoundsAssumption == MaxStarts \in Nat /\ MaxClock \in Nat

VARIABLES
    maildirs,   \* the folders that have been downloaded
    where,      \* the directory each message is in
    mtime,      \* the modification time of its file
    clock,      \* the time of the last delivery
    pc,         \* the main goroutine
    todo,       \* mailboxes still to be read
    reading,    \* the mailbox being read,
    found,      \* and what was in its new/
    box,        \* each mailbox' messages: <<directory, message>>
    readErr,
    sig,        \* the interrupter's channel: "none", "empty" or "full"
    server,     \* the goroutine of ListenAndServe
    serverErr,
    syncChan,
    result,     \* of ServeMaildir
    starts,
    sel,        \* the mailbox the client fetches from
    top, pos,   \* UIDNEXT as it was told, and the message ListMessages is at
    copy,       \* what the client keeps: <<UID, message>>
    known,      \* and the UID it will ask for next
    lost,       \* history: messages left out of a reply
    disturbed   \* history: folders with a message that got two numbers

disk == <<maildirs, where, mtime, clock>>
boxes == <<todo, reading, found, box, readErr>>
serving == <<sig, server, serverErr, syncChan, result, starts>>
session == <<sel, top, pos>>
kept == <<copy, known, lost>>
vars == <<disk, pc, boxes, serving, session, kept, disturbed>>

Entry == {"new", "cur"} \X File

TypeOK ==
    /\ maildirs \subseteq Folder
    /\ where \in [File -> {"absent", "new", "cur"}]
    /\ mtime \in [File -> 0..MaxClock] /\ clock \in 0..MaxClock
    /\ pc \in {"idle", "new", "cur", "register", "wait", "close", "sync", "returned"}
    /\ todo \subseteq Folder /\ reading \in Folder \cup {NoFolder}
    /\ found \subseteq Entry
    /\ box \in [Folder -> Seq(Entry)] /\ readErr \in BOOLEAN
    /\ sig \in {"none", "empty", "full"}
    /\ server \in {"none", "listen", "accept", "closed", "ended"}
    /\ serverErr \in {"none", "listen", "accept", "closed"}
    /\ syncChan \in BOOLEAN /\ result \in {"none", "ok", "error"}
    /\ starts \in 0..MaxStarts
    /\ sel \in Folder \cup {NoFolder}
    /\ top \in Nat /\ pos \in Nat \ {0}
    /\ copy \in [Folder -> SUBSET ((Nat \ {0}) \X File)] /\ known \in [Folder -> Nat]
    /\ lost \subseteq File /\ disturbed \subseteq Folder

NoBoxes == [f \in Folder |-> << >>]

Init ==
    /\ pc = "idle" /\ todo = {} /\ reading = NoFolder /\ found = {}
    /\ box = NoBoxes /\ readErr = FALSE
    /\ sig = "none" /\ server = "none" /\ serverErr = "none" /\ syncChan = FALSE
    /\ result = "none" /\ starts = 0
    /\ sel = NoFolder /\ top = 1 /\ pos = 1
    /\ maildirs = {}
    /\ where = [m \in File |-> "absent"] /\ mtime = [m \in File |-> 0] /\ clock = 0
    /\ copy = [f \in Folder |-> {}] /\ known = [f \in Folder |-> 1]
    /\ lost = {} /\ disturbed = {}

-----------------------------------------------------------------------------
(* The maildirs between the starts, and while the server uses them.        *)

\* By a download, which has the lock. Two files may have the same time.
Deliver(m) ==
    /\ pc = "idle" /\ where[m] = "absent"
    /\ maildirs' = maildirs \cup {Home[m]}
    /\ where' = [where EXCEPT ![m] = "new"]
    /\ clock' \in {clock, clock + 1} \cap 0..MaxClock
    /\ mtime' = [mtime EXCEPT ![m] = clock']
    /\ UNCHANGED <<pc, boxes, serving, session, kept, disturbed>>

\* Another mail program shows the message. Renaming it leaves its time alone.
Show(m) ==
    /\ where[m] = "new"
    /\ where' = [where EXCEPT ![m] = "cur"]
    /\ UNCHANGED <<maildirs, mtime, clock, pc, boxes, serving, session, kept, disturbed>>

-----------------------------------------------------------------------------
(* The main goroutine.                                                     *)

\* addMailboxes: the maildirs directly in the base directory.
Mailboxes == maildirs \ Nested

StartServe ==
    /\ pc = "idle" /\ starts < MaxStarts
    /\ starts' = starts + 1
    /\ \/ pc' = "new" /\ todo' = Mailboxes /\ UNCHANGED <<readErr, result>>
       \/ /\ pc' = "returned" /\ readErr' = TRUE /\ result' = "error"
          /\ UNCHANGED todo
    /\ UNCHANGED <<disk, reading, found, box, sig, server, serverErr, syncChan,
                   session, kept, disturbed>>

Listing(f, dir) == {e \in Entry : e[1] = dir /\ Home[e[2]] = f /\ where[e[2]] = dir}

\* A mailbox that cannot be read does not keep the others from being read.
FailRead ==
    /\ readErr' = TRUE /\ pc' = "new" /\ found' = {} /\ reading' = NoFolder

\* Mutant: cur/ is read first.
Dirs_CurFirst == <<"cur", "new">>

\* The directories addMessages reads, in its order.
Dirs == <<"new", "cur">>

\* addMessages: one directory. What has gone since its name was read is passed over.
ReadNew(f) ==
    /\ pc = "new" /\ f \in todo
    /\ todo' = todo \ {f}
    /\ \/ /\ found' = Listing(f, Dirs[1]) /\ reading' = f /\ pc' = "cur"
          /\ UNCHANGED readErr
       \/ FailRead
    /\ UNCHANGED <<disk, box, serving, session, kept, disturbed>>

\* Mutant: the messages stay in the order in which they were found.
Numberings_AsFound(entries) ==
    {s \in SetToSeqs(entries) :
       \A i, j \in DOMAIN s : i < j => ~(s[i][1] = "cur" /\ s[j][1] = "new")}

\* Sorted by time; those of the same time may come in any order.
Numberings(entries) ==
    {s \in SetToSeqs(entries) :
       \A i, j \in DOMAIN s : i < j => mtime[s[i][2]] <= mtime[s[j][2]]}

NumberedTwice(entries) == \E d, e \in entries : d # e /\ d[2] = e[2]

\* addMessages: the other directory, then the numbers.
ReadCur ==
    /\ pc = "cur"
    /\ LET entries == found \cup Listing(reading, Dirs[2]) IN
       \/ /\ \E s \in Numberings(entries) : box' = [box EXCEPT ![reading] = s]
          /\ disturbed' = IF NumberedTwice(entries) THEN disturbed \cup {reading}
                          ELSE disturbed
          /\ pc' = "new" /\ found' = {} /\ reading' = NoFolder
          /\ UNCHANGED readErr
       \/ FailRead /\ UNCHANGED <<box, disturbed>>
    /\ UNCHANGED <<disk, todo, serving, session, kept>>

\* newBackend returns: its error, or the server is started.
StartServer ==
    /\ pc = "new" /\ todo = {}
    /\ IF readErr THEN pc' = "returned" /\ result' = "error" /\ UNCHANGED server
       ELSE pc' = "register" /\ server' = "listen" /\ UNCHANGED result
    /\ UNCHANGED <<disk, boxes, sig, serverErr, syncChan, starts, session, kept, disturbed>>

Register ==
    /\ pc = "register"
    /\ pc' = "wait" /\ sig' = "empty"
    /\ UNCHANGED <<disk, boxes, server, serverErr, syncChan, result, starts, session,
                   kept, disturbed>>

\* wait, which deregisters.
Wait ==
    /\ pc = "wait" /\ sig = "full"
    /\ pc' = "close" /\ sig' = "none"
    /\ UNCHANGED <<disk, boxes, server, serverErr, syncChan, result, starts, session,
                   kept, disturbed>>

HangUp == sel' = NoFolder /\ top' = 1 /\ pos' = 1

\* server.Close: the listener, if there is one yet, and the connections.
CloseServer ==
    /\ pc = "close"
    /\ pc' = "sync"
    /\ server' = IF server = "accept" THEN "closed" ELSE server
    /\ HangUp
    /\ UNCHANGED <<disk, boxes, sig, serverErr, syncChan, result, starts, kept, disturbed>>

\* Mutant: the end of the server is not waited for.
AwaitServer_Not ==
    /\ pc = "sync"
    /\ pc' = "returned"
    /\ result' = IF serverErr \in {"none", "closed"} THEN "ok" ELSE "error"
    /\ UNCHANGED <<disk, boxes, sig, server, serverErr, syncChan, starts, session, kept,
                   disturbed>>

AwaitServer ==
    /\ pc = "sync" /\ syncChan
    /\ pc' = "returned" /\ syncChan' = FALSE
    /\ result' = IF serverErr = "closed" THEN "ok" ELSE "error"
    /\ UNCHANGED <<disk, boxes, sig, server, serverErr, starts, session, kept, disturbed>>

MainStep ==
    \/ \E f \in Folder : ReadNew(f)
    \/ ReadCur \/ StartServer \/ Register \/ Wait \/ CloseServer \/ AwaitServer

\* Nobody has to end the process at once, and it may be killed before.
EndProcess ==
    /\ pc # "idle"
    /\ pc' = "idle" /\ todo' = {} /\ reading' = NoFolder /\ found' = {}
    /\ box' = NoBoxes /\ readErr' = FALSE
    /\ sig' = "none" /\ server' = "none" /\ serverErr' = "none" /\ syncChan' = FALSE
    /\ result' = "none" /\ HangUp
    /\ UNCHANGED <<disk, starts, kept, disturbed>>

\* Without an interrupter the signal ends the process.
Interrupt ==
    /\ pc # "idle" /\ sig # "full"
    /\ IF sig = "none" THEN EndProcess
       ELSE /\ sig' = "full"
            /\ UNCHANGED <<disk, pc, boxes, server, serverErr, syncChan, result, starts,
                           session, kept, disturbed>>

-----------------------------------------------------------------------------
(* The server's goroutine: the library's ListenAndServe.                   *)

\* Mutant: only a server that has listened says that it has ended.
EndServer_Listened(err) ==
    /\ server' = "ended" /\ serverErr' = err /\ syncChan' = (err # "listen")

EndServer(err) == server' = "ended" /\ serverErr' = err /\ syncChan' = TRUE

\* The port may be in use.
Listen ==
    /\ server = "listen"
    /\ \/ server' = "accept" /\ UNCHANGED <<serverErr, syncChan>>
       \/ EndServer("listen")
    /\ UNCHANGED <<disk, pc, boxes, sig, result, starts, session, kept, disturbed>>

FailAccept ==
    /\ server = "accept"
    /\ EndServer("accept")
    /\ UNCHANGED <<disk, pc, boxes, sig, result, starts, session, kept, disturbed>>

\* The listener has been closed.
Closed ==
    /\ server = "closed"
    /\ EndServer("closed")
    /\ UNCHANGED <<disk, pc, boxes, sig, result, starts, session, kept, disturbed>>

ServerStep == Listen \/ Closed

-----------------------------------------------------------------------------
(* The client: it asks for what it does not know yet.                      *)

Disconnect ==
    /\ sel # NoFolder /\ HangUp
    /\ UNCHANGED <<disk, pc, boxes, serving, kept, disturbed>>

\* A new connection: Login with the user and the password the server was started
\* with, GetMailbox and Status.
Select(f) ==
    /\ server = "accept" /\ sel = NoFolder /\ f \in Mailboxes
    /\ sel' = f /\ top' = Len(box[f]) + 1 /\ pos' = 1
    /\ UNCHANGED <<disk, pc, boxes, serving, kept, disturbed>>

\* The file is still where it was at the start.
Readable(e) == where[e[2]] = e[1]

\* Mutant: the first message that cannot be read ends the reply.
SkipMessage_Last(e) ==
    /\ pos' = top
    /\ lost' = lost \cup {e[2]} /\ UNCHANGED copy

SkipMessage(e) ==
    /\ pos' = pos + 1
    /\ lost' = lost \cup {e[2]} /\ UNCHANGED copy

\* Mutant: the UIDs begin at 0.
SendMessage_FromZero(e) ==
    /\ pos' = pos + 1
    /\ copy' = [copy EXCEPT ![sel] = @ \cup {<<pos - 1, e[2]>>}] /\ UNCHANGED lost

SendMessage(e) ==
    /\ pos' = pos + 1
    /\ copy' = [copy EXCEPT ![sel] = @ \cup {<<pos, e[2]>>}] /\ UNCHANGED lost

\* One round of ListMessages. What cannot be read is passed over, unless its
\* body is still in memory.
ListMessage ==
    /\ sel # NoFolder /\ pos <= Len(box[sel])
    /\ LET e == box[sel][pos] IN
         IF pos < known[sel] THEN pos' = pos + 1 /\ UNCHANGED <<copy, lost>>
         ELSE SendMessage(e) \/ (~Readable(e) /\ SkipMessage(e))
    /\ UNCHANGED <<disk, pc, boxes, serving, sel, top, known, disturbed>>

\* The reply is complete: the client will not ask for these UIDs again.
EndListing ==
    /\ sel # NoFolder /\ pos > Len(box[sel])
    /\ known' = [known EXCEPT ![sel] = top]
    /\ sel' = NoFolder /\ top' = 1 /\ pos' = 1
    /\ UNCHANGED <<disk, pc, boxes, serving, copy, lost, disturbed>>

ClientStep ==
    \/ Disconnect \/ ListMessage \/ EndListing
    \/ \E f \in Folder : Select(f)

Next ==
    \/ \E m \in File : Deliver(m) \/ Show(m)
    \/ StartServe \/ MainStep \/ ServerStep \/ FailAccept \/ ClientStep
    \/ EndProcess \/ Interrupt

Spec == Init /\ [][Next]_vars

\* The two goroutines go on when they can. Nothing makes the user interrupt the
\* server or start it, and a client need not do anything.
FairSpec == Spec /\ WF_vars(MainStep) /\ WF_vars(ServerStep)

-----------------------------------------------------------------------------
(***************************************************************************)
(* Properties.                                                             *)
(***************************************************************************)
Numbers(f, m) == {i \in DOMAIN box[f] : box[f][i][2] = m}

HasBoxes == pc \in {"register", "wait", "close", "sync"}

\* While the server runs, every message a download has stored is in a mailbox,
\* even when another program has moved it while the maildir was read
\* (addMailboxes, addMessages). Folders are not nested in the run.
EveryMessageServed ==
    HasBoxes => \A m \in File :
      where[m] \in {"new", "cur"} => Numbers(Home[m], m) # {}

\* The times of the folder's files tell their order, and no message has gone.
Orderly(f) ==
    /\ f \notin disturbed
    /\ \A m, n \in File :
         Home[m] = f /\ Home[n] = f /\ m # n /\ "absent" \notin {where[m], where[n]}
           => mtime[m] # mtime[n]

\* As UIDVALIDITY says, a UID the client has seen speaks of the same message in
\* every start of the server, whatever has been delivered and moved since
\* (Status, addMessages).
CopyRight ==
    HasBoxes => \A f \in Mailboxes : Orderly(f) =>
      \A c \in copy[f] : c[1] \in DOMAIN box[f] /\ box[f][c[1]][2] = c[2]

\* A client that asks for the UIDs from the last UIDNEXT on never misses a
\* message, apart from those that had been moved when it asked (Status,
\* ListMessages).
SyncComplete ==
    HasBoxes => \A f \in Mailboxes : Orderly(f) =>
      \A i \in DOMAIN box[f] :
        i < known[f] => <<i, box[f][i][2]>> \in copy[f] \/ box[f][i][2] \in lost

\* When ServeMaildir has returned nothing listens any more and, if it was closed
\* while it accepted, nobody is served, so that the lock can be given back; its
\* error tells of every failure but the one that closing the listener brings about.
ReturnIsFinal ==
    pc = "returned" =>
      /\ server \in {"none", "ended"}
      /\ serverErr = "closed" => sel = NoFolder
      /\ result = "error" <=> readErr \/ serverErr \in {"listen", "accept"}

\* An interrupt ends the server, whether it listens, could not, or has failed. It
\* need not when it is handled before the listener is there.
InterruptEnds ==
    pc = "wait" /\ sig = "full" /\ server # "listen" ~> pc \in {"returned", "idle"}
=============================================================================
