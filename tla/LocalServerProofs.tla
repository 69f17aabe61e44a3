-------------------------- MODULE LocalServerProofs -------------------------
(***************************************************************************)
(* Theorems about LocalServer, for any number of folders, messages and     *)
(* starts.                                                                 *)
(***************************************************************************)
EXTENDS LocalServer, FiniteSetTheorems, TLAPS

USE DEF disk, boxes, serving, session, kept

-----------------------------------------------------------------------------
(* Numbering the messages of a mailbox.                                    *)

\* A numbering of a finite set is a sequence of all its elements (addMessages).
LEMMA NumberingComplete ==
    ASSUME NEW S \in SUBSET Entry, NEW s \in Numberings(S)
    PROVE  s \in Seq(Entry) /\ \A e \in S : \E i \in DOMAIN s : s[i] = e
<1> DEFINE n == Cardinality(S)
<1>1. IsFiniteSet({"new", "cur"})
    <2>1. IsFiniteSet({"new"})
        BY FS_Singleton
    <2>2. IsFiniteSet({"new"} \cup {"cur"})
        BY <2>1, FS_AddElement
    <2> QED
        BY <2>2
<1>2. IsFiniteSet(S)
    BY <1>1, FS_Product, FS_Subset, HomeAssumption DEF Entry
<1>3. n \in Nat
    BY <1>2, FS_CardinalityType
<1>4. IsFiniteSet(1..n) /\ Cardinality(1..n) = n
    BY <1>3, FS_Interval
<1>5. s \in [1..n -> S] /\ \A i, j \in 1..n : i # j => s[i] # s[j]
    BY DEF Numberings, SetToSeqs
<1>6. s \in Injection(1..n, S)
    BY <1>5 DEF Injection, IsInjective
<1>7. s \in Surjection(1..n, S)
    BY <1>2, <1>4, <1>6, FS_Injection
<1>8. s \in Seq(S)
    BY <1>3, <1>5
<1> QED
    BY <1>5, <1>7, <1>8 DEF Surjection

\* What is read of a maildir.
LEMMA ListingType ==
    ASSUME NEW f, NEW dir
    PROVE  Listing(f, dir) \subseteq Entry
  BY DEF Listing

-----------------------------------------------------------------------------
(* Types.                                                                  *)

\* TypeOK in parts: the disk, the goroutines, the mailboxes, of which one is read
\* while cur/ is, and the client.
DiskType ==
    /\ maildirs \subseteq Folder
    /\ where \in [File -> {"absent", "new", "cur"}]
    /\ mtime \in [File -> 0..MaxClock] /\ clock \in 0..MaxClock

ControlType ==
    /\ pc \in {"idle", "new", "cur", "register", "wait", "close", "sync", "returned"}
    /\ sig \in {"none", "empty", "full"}
    /\ server \in {"none", "listen", "accept", "closed", "ended"}
    /\ serverErr \in {"none", "listen", "accept", "closed"}
    /\ syncChan \in BOOLEAN /\ result \in {"none", "ok", "error"}
    /\ starts \in 0..MaxStarts

BoxType ==
    /\ todo \subseteq Folder /\ reading \in Folder \cup {NoFolder}
    /\ found \subseteq Entry
    /\ box \in [Folder -> Seq(Entry)] /\ readErr \in BOOLEAN
    /\ disturbed \subseteq Folder
    /\ pc = "cur" => reading \in Folder

ClientType ==
    /\ sel \in Folder \cup {NoFolder}
    /\ top \in Nat /\ pos \in Nat \ {0}
    /\ copy \in [Folder -> SUBSET ((Nat \ {0}) \X File)] /\ known \in [Folder -> Nat]
    /\ lost \subseteq File

TypeInv == DiskType /\ ControlType /\ BoxType /\ ClientType

LEMMA NoBoxesType == NoBoxes \in [Folder -> Seq(Entry)]
<1>1. << >> \in Seq(Entry)
    OBVIOUS
<1> QED
    BY <1>1 DEF NoBoxes

LEMMA TypeInvInit == Init => TypeInv
<1> SUFFICES ASSUME Init PROVE TypeInv
    OBVIOUS
<1>1. DiskType
    BY BoundsAssumption DEF Init, DiskType
<1>2. ControlType
    <2>1. starts \in 0..MaxStarts
        BY BoundsAssumption DEF Init
    <2> QED
        BY <2>1 DEF Init, ControlType
<1>3. BoxType
    BY NoBoxesType DEF Init, BoxType
<1>4. ClientType
    BY DEF Init, ClientType
<1> QED
    BY <1>1, <1>2, <1>3, <1>4 DEF TypeInv

\* What the next step is of, as far as one of the parts is concerned.
LEMMA DiskTypeNext == DiskType /\ [Next]_vars => DiskType'
<1> SUFFICES ASSUME DiskType, [Next]_vars PROVE DiskType'
    OBVIOUS
<1>1. ASSUME NEW m \in File, Deliver(m) PROVE DiskType'
    BY <1>1, HomeAssumption, BoundsAssumption DEF Deliver, DiskType
<1>2. ASSUME NEW m \in File, Show(m) PROVE DiskType'
    BY <1>2 DEF Show, DiskType
<1>3. CASE UNCHANGED disk
    BY <1>3 DEF DiskType
<1> QED
    BY <1>1, <1>2, <1>3
       DEF Next, vars, StartServe, MainStep, ReadNew, ReadCur, StartServer, Register, Wait,
           CloseServer, AwaitServer, ServerStep, Listen, Closed, FailAccept, ClientStep,
           Disconnect, Select, ListMessage, EndListing, EndProcess, Interrupt

LEMMA ControlTypeNext == ControlType /\ [Next]_vars => ControlType'
<1> SUFFICES ASSUME ControlType, [Next]_vars PROVE ControlType'
    OBVIOUS
<1> USE BoundsAssumption DEF ControlType
<1>1. CASE StartServe
    <2>1. starts' \in 0..MaxStarts
        BY <1>1 DEF StartServe
    <2> QED
        BY <1>1, <2>1 DEF StartServe
<1>2. CASE MainStep
    BY <1>2 DEF MainStep, ReadNew, ReadCur, FailRead, StartServer, Register, Wait,
                CloseServer, AwaitServer
<1>3. CASE ServerStep \/ FailAccept
    BY <1>3 DEF ServerStep, Listen, Closed, FailAccept, EndServer
<1>4. CASE EndProcess
    BY <1>4 DEF EndProcess
<1>5. CASE Interrupt
    BY <1>4, <1>5 DEF Interrupt
<1>6. CASE UNCHANGED <<pc, serving>>
    BY <1>6
<1> QED
    BY <1>1, <1>2, <1>3, <1>4, <1>5, <1>6
       DEF Next, vars, Deliver, Show, ClientStep, Disconnect, Select, ListMessage, EndListing

LEMMA BoxTypeNext == DiskType /\ BoxType /\ [Next]_vars => BoxType'
<1> SUFFICES ASSUME DiskType, BoxType, [Next]_vars PROVE BoxType'
    OBVIOUS
<1> USE DEF BoxType
<1>1. CASE StartServe
    BY <1>1 DEF StartServe, Mailboxes, DiskType
<1>2. ASSUME NEW f \in Folder, ReadNew(f) PROVE BoxType'
    BY <1>2, ListingType DEF ReadNew, FailRead
<1>3. CASE ReadCur
    <2> DEFINE entries == found \cup Listing(reading, Dirs[2])
    <2>1. entries \in SUBSET Entry
        BY ListingType
    <2>2. ASSUME NEW s \in Numberings(entries), box' = [box EXCEPT ![reading] = s]
          PROVE  box' \in [Folder -> Seq(Entry)]
        BY <2>1, <2>2, NumberingComplete
    <2>3. box' \in [Folder -> Seq(Entry)]
        BY <1>3, <2>2 DEF ReadCur
    <2>4. disturbed' \subseteq Folder
        BY <1>3 DEF ReadCur
    <2> QED
        BY <1>3, <2>3, <2>4 DEF ReadCur, FailRead
<1>4. CASE EndProcess
    BY <1>4, NoBoxesType DEF EndProcess
<1>5. CASE UNCHANGED <<boxes, disturbed>> /\ (pc' = "cur" => pc = "cur")
    BY <1>5
<1> QED
    BY <1>1, <1>2, <1>3, <1>4, <1>5
       DEF Next, vars, Deliver, Show, MainStep, StartServer, Register, Wait,
           CloseServer, AwaitServer, ServerStep, Listen, Closed, FailAccept, ClientStep,
           Disconnect, Select, ListMessage, EndListing, Interrupt

LEMMA ClientTypeNext == BoxType /\ ClientType /\ [Next]_vars => ClientType'
<1> SUFFICES ASSUME BoxType, ClientType, [Next]_vars PROVE ClientType'
    OBVIOUS
<1> USE DEF ClientType
<1>1. ASSUME HangUp, UNCHANGED kept PROVE ClientType'
    BY <1>1 DEF HangUp
<1>2. ASSUME NEW f \in Folder, Select(f) PROVE ClientType'
    <2>1. Len(box[f]) \in Nat
        BY DEF BoxType
    <2> QED
        BY <1>2, <2>1 DEF Select
<1>3. CASE ListMessage
    <2> DEFINE e == box[sel][pos]
    <2>1. sel \in Folder /\ pos \in DOMAIN box[sel]
        BY <1>3 DEF ListMessage, BoxType
    <2>2. e[2] \in File
        BY <2>1 DEF BoxType, Entry
    <2>3. CASE SendMessage(e) /\ UNCHANGED <<sel, top, known>>
        BY <2>1, <2>2, <2>3 DEF SendMessage
    <2>4. CASE SkipMessage(e) /\ UNCHANGED <<sel, top, known>>
        BY <2>1, <2>2, <2>4 DEF SkipMessage
    <2>5. CASE pos' = pos + 1 /\ UNCHANGED <<copy, lost, sel, top, known>>
        BY <2>5
    <2> QED
        BY <1>3, <2>3, <2>4, <2>5 DEF ListMessage
<1>4. CASE EndListing
    BY <1>4 DEF EndListing
<1>5. CASE UNCHANGED <<session, kept>>
    BY <1>5
<1> QED
    BY <1>1, <1>2, <1>3, <1>4, <1>5
       DEF Next, vars, Deliver, Show, StartServe, MainStep, ReadNew, ReadCur, StartServer,
           Register, Wait, CloseServer, AwaitServer, ServerStep, Listen, Closed, FailAccept,
           ClientStep, Disconnect, EndProcess, Interrupt

LEMMA TypeInvNext == TypeInv /\ [Next]_vars => TypeInv'
  BY DiskTypeNext, ControlTypeNext, BoxTypeNext, ClientTypeNext DEF TypeInv

\* Types: above all, UIDs are positive, and only folders are listed (all of
\* LocalServer).
THEOREM TypeCorrect == Spec => []TypeOK
<1>1. TypeInv => TypeOK
    BY DEF TypeInv, DiskType, ControlType, BoxType, ClientType, TypeOK
<1> QED
    BY <1>1, TypeInvInit, TypeInvNext, PTL DEF Spec

-----------------------------------------------------------------------------
(* The end of the server.                                                  *)

\* Where the server's goroutine is when the main goroutine is at pc; what has
\* been put into syncChan; and that closing the listener comes after the last
\* connection was hung up.
EndInv ==
    /\ pc \in {"idle", "new", "cur"} => server = "none"
    /\ HasBoxes => server # "none" /\ ~readErr
    /\ pc = "returned" => server = (IF readErr THEN "none" ELSE "ended")
    /\ pc = "returned" => (result = "error" <=> readErr \/ serverErr \in {"listen", "accept"})
    /\ server = "ended" <=> serverErr # "none"
    /\ syncChan => server = "ended"
    /\ HasBoxes /\ server = "ended" => syncChan
    /\ server = "closed" => pc = "sync"
    /\ server = "closed" \/ serverErr = "closed" => sel = NoFolder

LEMMA EndInvInit == Init => EndInv
  BY DEF Init, EndInv, HasBoxes

\* Only the goroutine that has ended the server lets the main one return.
LEMMA EndInvNext == TypeInv /\ EndInv /\ [Next]_vars => EndInv'
<1> SUFFICES ASSUME ControlType, EndInv, [Next]_vars PROVE EndInv'
    BY DEF TypeInv
<1> USE DEF ControlType, EndInv, HasBoxes
<1>1. CASE StartServe
    BY <1>1 DEF StartServe
<1>2. ASSUME NEW f \in Folder, ReadNew(f) PROVE EndInv'
    BY <1>2 DEF ReadNew, FailRead
<1>3. CASE ReadCur
    BY <1>3 DEF ReadCur, FailRead
<1>4. CASE StartServer
    BY <1>4 DEF StartServer
<1>5. CASE Register \/ Wait
    BY <1>5 DEF Register, Wait
<1>6. CASE CloseServer
    BY <1>6 DEF CloseServer, HangUp
<1>7. CASE AwaitServer
    BY <1>7 DEF AwaitServer
<1>8. CASE Listen \/ FailAccept
    BY <1>8 DEF Listen, FailAccept, EndServer
<1>9. CASE Closed
    BY <1>9 DEF Closed, EndServer
<1>10. CASE EndProcess
    BY <1>10 DEF EndProcess, HangUp
<1>11. CASE Interrupt
    BY <1>10, <1>11 DEF Interrupt
<1>12. CASE Disconnect \/ ListMessage \/ EndListing
    BY <1>12 DEF Disconnect, HangUp, ListMessage, EndListing
<1>13. ASSUME NEW f \in Folder, Select(f) PROVE EndInv'
    BY <1>13 DEF Select
<1>14. CASE UNCHANGED <<pc, boxes, serving, session>>
    BY <1>14
<1> QED
    BY <1>1, <1>2, <1>3, <1>4, <1>5, <1>6, <1>7, <1>8, <1>9, <1>10, <1>11, <1>12, <1>13,
       <1>14
       DEF Next, vars, Deliver, Show, MainStep, ServerStep, ClientStep

\* After the return nothing listens, nobody is served by a server that was closed,
\* and the error tells of every failure (ServeMaildir).
THEOREM ReturnedIsFinal == Spec => []ReturnIsFinal
<1>1. EndInv => ReturnIsFinal
    BY DEF EndInv, ReturnIsFinal
<1> QED
    BY <1>1, TypeInvInit, TypeInvNext, EndInvInit, EndInvNext, PTL DEF Spec

\* The server has ended and said so, or its goroutine will, as its listener is closed.
Ends == syncChan \/ server = "closed"

\* What CloseServer brings about, and what the wait for syncChan keeps.
EndIsComing ==
    /\ pc = "close" /\ server # "listen" /\ pc' = "sync" => Ends'
    /\ pc = "sync" /\ Ends /\ pc' = "sync" => Ends'

StaysEnding == [][EndIsComing]_vars

\* ServeMaildir never waits in vain for the end of a server it has closed, however the
\* server came to its end, unless it was closed before it listened.
THEOREM ClosedServerEnds == Spec => StaysEnding
<1>1. TypeInv /\ EndInv /\ [Next]_vars => [EndIsComing]_vars
  <2> SUFFICES ASSUME ControlType, EndInv, Next PROVE EndIsComing
    BY DEF TypeInv
  <2> USE DEF EndInv, HasBoxes, EndIsComing, Ends
  <2>1. CASE StartServe \/ StartServer \/ Register \/ Wait \/ AwaitServer
    BY <2>1 DEF StartServe, StartServer, Register, Wait, AwaitServer
  <2>2. CASE CloseServer
    BY <2>2 DEF ControlType, CloseServer
  <2>3. CASE ServerStep \/ FailAccept
    BY <2>3 DEF ServerStep, Listen, Closed, FailAccept, EndServer
  <2>4. CASE ReadCur \/ \E f \in Folder : ReadNew(f)
    BY <2>4 DEF ReadCur, ReadNew, FailRead
  <2>5. CASE EndProcess \/ Interrupt
    BY <2>5 DEF EndProcess, Interrupt
  <2>6. CASE UNCHANGED <<pc, server, syncChan>>
    BY <2>6
  <2> QED
    BY <2>1, <2>2, <2>3, <2>4, <2>5, <2>6
       DEF Next, MainStep, ClientStep, Deliver, Show, Disconnect, ListMessage, EndListing,
           Select, serving
<1> QED
    BY <1>1, TypeInvInit, TypeInvNext, EndInvInit, EndInvNext, PTL DEF Spec, StaysEnding

-----------------------------------------------------------------------------
(* The mailboxes. The UID of a message is explained without the mailboxes, *)
(* which are gone between the starts: it tells how many messages of the    *)
(* folder are not younger.                                                 *)

Present(f) == {m \in File : Home[m] = f /\ where[m] # "absent"}

UpTo(m) == {n \in Present(Home[m]) : mtime[n] <= mtime[m]}

Uid(m) == Cardinality(UpTo(m))

MessageAt(f, i) == box[f][i][2]

\* The mailbox has the messages of the folder, in the order of their times, and
\* no message twice unless that is on record.
Numbered(f) ==
    /\ \A i \in DOMAIN box[f] : MessageAt(f, i) \in Present(f)
    /\ \A m \in Present(f) : \E i \in DOMAIN box[f] : MessageAt(f, i) = m
    /\ \A i, j \in DOMAIN box[f] :
         i < j => mtime[MessageAt(f, i)] <= mtime[MessageAt(f, j)]
    /\ f \notin disturbed => \A i, j \in DOMAIN box[f] :
         MessageAt(f, i) = MessageAt(f, j) => i = j

\* No file is younger than the clock tells. A mailbox that is being read has all
\* that is in new/, one that has been read is numbered, and once the server is
\* started all have been read.
MailboxInv ==
    /\ \A m \in File :
         where[m] # "absent" => Home[m] \in maildirs /\ mtime[m] <= clock
    /\ pc = "cur" =>
         /\ \A e \in found : e[1] = "new" /\ e[2] \in Present(reading)
         /\ \A m \in Present(reading) : where[m] = "new" => <<"new", m>> \in found
    /\ pc # "idle" /\ ~readErr => \A f \in Mailboxes :
         f \in todo \/ (pc = "cur" /\ f = reading) \/ Numbered(f)
    /\ pc \notin {"idle", "new", "cur"} /\ ~readErr => todo = {}

\* A numbering numbers each element once, by the times (addMessages).
LEMMA NumberingSorted ==
    ASSUME NEW S \in SUBSET Entry, NEW s \in Numberings(S)
    PROVE  /\ \A i \in DOMAIN s : s[i] \in S
           /\ \A i, j \in DOMAIN s : s[i] = s[j] => i = j
           /\ \A i, j \in DOMAIN s : i < j => mtime[s[i][2]] <= mtime[s[j][2]]
<1> DEFINE n == Cardinality(S)
<1>1. s \in [1..n -> S] /\ \A i, j \in 1..n : i # j => s[i] # s[j]
    BY DEF Numberings, SetToSeqs
<1>2. \A i, j \in DOMAIN s : i < j => mtime[s[i][2]] <= mtime[s[j][2]]
    BY DEF Numberings
<1> QED
    BY <1>1, <1>2

\* The mailbox that is read is numbered (addMessages).
LEMMA ReadCurNumbers ==
    ASSUME TypeInv, MailboxInv, ReadCur, ~readErr', NEW f \in Folder, f = reading
    PROVE  Numbered(f)'
<1> DEFINE entries == found \cup Listing(reading, Dirs[2])
<1>0. pc = "cur" /\ reading \in Folder /\ box \in [Folder -> Seq(Entry)]
    BY DEF ReadCur, TypeInv, BoxType
<1>1. PICK s \in Numberings(entries) : box' = [box EXCEPT ![reading] = s]
    BY DEF ReadCur, FailRead
<1>2. /\ disturbed' = IF NumberedTwice(entries) THEN disturbed \cup {reading}
                      ELSE disturbed
      /\ UNCHANGED <<where, mtime>>
    BY DEF ReadCur, FailRead
<1>3. box'[f] = s
    BY <1>0, <1>1
<1>4. entries \in SUBSET Entry
    BY ListingType DEF TypeInv, BoxType
<1>5. \A e \in entries : e[2] \in Present(reading)
    BY <1>0 DEF MailboxInv, Listing, Present, Dirs, Entry
<1>6. ASSUME NEW m \in Present(reading) PROVE \E i \in DOMAIN s : s[i][2] = m
    <2>1. m \in File /\ Home[m] = reading /\ where[m] \in {"new", "cur"}
        BY DEF Present, TypeInv, DiskType
    <2>2. CASE where[m] = "new"
        <3>1. <<"new", m>> \in entries
            BY <1>0, <2>2 DEF MailboxInv
        <3>2. PICK i \in DOMAIN s : s[i] = <<"new", m>>
            BY <1>4, <3>1, NumberingComplete
        <3> QED
            BY <3>2
    <2>3. CASE where[m] = "cur"
        <3>1. <<"cur", m>> \in entries
            BY <2>1, <2>3 DEF Listing, Dirs, Entry
        <3>2. PICK i \in DOMAIN s : s[i] = <<"cur", m>>
            BY <1>4, <3>1, NumberingComplete
        <3> QED
            BY <3>2
    <2> QED
        BY <2>1, <2>2, <2>3
<1> HIDE DEF entries
<1>7. ASSUME f \notin disturbed', NEW i \in DOMAIN s, NEW j \in DOMAIN s,
             s[i][2] = s[j][2]
      PROVE  i = j
    <2>1. ~NumberedTwice(entries)
        BY <1>2, <1>7
    <2>2. s[i] \in entries /\ s[j] \in entries
        BY <1>4, NumberingSorted
    <2>3. s[i] = s[j]
        BY <1>7, <2>1, <2>2 DEF NumberedTwice
    <2> QED
        BY <1>4, <2>3, NumberingSorted
<1>8. \A i \in DOMAIN s : s[i][2] \in Present(reading)
    BY <1>4, <1>5, NumberingSorted
<1>9. \A i, j \in DOMAIN s : i < j => mtime[s[i][2]] <= mtime[s[j][2]]
    BY <1>4, NumberingSorted
<1> QED
    BY <1>2, <1>3, <1>6, <1>7, <1>8, <1>9 DEF Numbered, MessageAt, Present

LEMMA MailboxInvInit == Init => MailboxInv
  BY DEF Init, MailboxInv

LEMMA MailboxInvNext == TypeInv /\ EndInv /\ MailboxInv /\ [Next]_vars => MailboxInv'
<1> SUFFICES ASSUME TypeInv, EndInv, MailboxInv, [Next]_vars PROVE MailboxInv'
    OBVIOUS
<1>0. ASSUME ReadCur, ~readErr', NEW f \in Folder, f = reading
      PROVE  Numbered(f)'
    BY <1>0, ReadCurNumbers
<1> USE HomeAssumption DEF TypeInv, DiskType, ControlType, BoxType
<1>1. ASSUME NEW m \in File, Deliver(m) PROVE MailboxInv'
    <2>1. clock \in Int /\ clock' \in Int /\ clock <= clock'
        BY <1>1, BoundsAssumption DEF Deliver
    <2>2. ASSUME NEW n \in File, where'[n] # "absent"
          PROVE  Home[n] \in maildirs' /\ mtime'[n] <= clock'
        <3>1. CASE n = m
            BY <1>1, <2>1, <3>1 DEF Deliver
        <3>2. CASE n # m
            <4>1. Home[n] \in maildirs /\ mtime[n] <= clock /\ mtime[n] \in Int
                BY <1>1, <2>2, <3>2, BoundsAssumption DEF Deliver, MailboxInv
            <4> QED
                BY <1>1, <2>1, <3>2, <4>1 DEF Deliver
        <3> QED
            BY <3>1, <3>2
    <2>3. pc' = "idle"
        BY <1>1 DEF Deliver
    <2> QED
        BY <2>2, <2>3 DEF MailboxInv
<1>2. ASSUME NEW m \in File, Show(m) PROVE MailboxInv'
    <2>1. \A f : Present(f)' = Present(f)
        BY <1>2 DEF Show, Present
    <2>2. \A f \in Folder : Numbered(f)' <=> Numbered(f)
        BY <1>2, <2>1 DEF Show, Numbered, MessageAt
    <2>3. \A n \in File : where'[n] = "new" => where[n] = "new"
        BY <1>2 DEF Show
    <2>4. \A n \in File : where'[n] # "absent" => where[n] # "absent"
        BY <1>2 DEF Show
    <2>5. UNCHANGED <<maildirs, mtime, clock, pc, boxes>>
        BY <1>2 DEF Show
    <2>6. UNCHANGED Present(reading)
        BY <2>1, <2>5
    <2>7. Mailboxes' = Mailboxes /\ Mailboxes \subseteq Folder
        BY <2>5 DEF Mailboxes
    <2> HIDE DEF Mailboxes
    <2>8. \A n \in File :
            where'[n] # "absent" => Home[n] \in maildirs' /\ mtime'[n] <= clock'
        BY <2>4, <2>5 DEF MailboxInv
    <2>9. pc' = "cur" =>
           /\ \A e \in found' : e[1] = "new" /\ e[2] \in Present(reading)'
           /\ \A n \in Present(reading)' : where'[n] = "new" => <<"new", n>> \in found'
        <3>1. Present(reading) \subseteq File
            BY DEF Present
        <3> QED
            BY <2>3, <2>5, <2>6, <3>1 DEF MailboxInv
    <2>10. pc' # "idle" /\ ~readErr' => \A f \in Mailboxes' :
             f \in todo' \/ (pc' = "cur" /\ f = reading') \/ Numbered(f)'
        BY <2>2, <2>5, <2>7 DEF MailboxInv
    <2> QED
        BY <2>5, <2>8, <2>9, <2>10 DEF MailboxInv
<1> USE DEF MailboxInv
<1>3. CASE StartServe
    BY <1>3 DEF StartServe, Mailboxes
<1>4. ASSUME NEW f \in Folder, ReadNew(f) PROVE MailboxInv'
    <2>1. \A g : Present(g)' = Present(g) /\ (Numbered(g)' <=> Numbered(g))
        BY <1>4 DEF ReadNew, Numbered, Present, MessageAt
    <2>2. ASSUME pc' = "cur"
          PROVE  /\ reading' = f
                 /\ \A e \in found' : e[1] = "new" /\ e[2] \in Present(f)
                 /\ \A m \in Present(f) : where[m] = "new" => <<"new", m>> \in found'
        BY <1>4, <2>2 DEF ReadNew, FailRead, Listing, Dirs, Entry, Present
    <2>3. /\ pc = "new" /\ f \in todo /\ todo' = todo \ {f}
          /\ UNCHANGED <<maildirs, where, mtime, clock>>
          /\ pc' \in {"new", "cur"} /\ (pc' = "new" => readErr')
          /\ pc' = "cur" => UNCHANGED readErr
        BY <1>4 DEF ReadNew, FailRead
    <2>4. Mailboxes' = Mailboxes /\ Mailboxes \subseteq Folder
        BY <2>3 DEF Mailboxes
    <2> HIDE DEF Mailboxes
    <2>5. ASSUME pc' = "cur", ~readErr', NEW g \in Mailboxes
          PROVE  g \in todo' \/ g = f \/ Numbered(g)'
        BY <2>1, <2>3, <2>5
    <2>6. pc' = "cur" =>
           /\ \A e \in found' : e[1] = "new" /\ e[2] \in Present(reading)'
           /\ \A m \in Present(reading)' : where'[m] = "new" => <<"new", m>> \in found'
        BY <2>2, <2>3 DEF Present
    <2>7. \A n \in File :
            where'[n] # "absent" => Home[n] \in maildirs' /\ mtime'[n] <= clock'
        BY <2>3
    <2>8. pc' # "idle" /\ ~readErr' => \A g \in Mailboxes' :
             g \in todo' \/ (pc' = "cur" /\ g = reading') \/ Numbered(g)'
        BY <2>2, <2>3, <2>4, <2>5
    <2> QED
        BY <2>3, <2>6, <2>7, <2>8
<1>5. CASE ReadCur
    <2>1. ASSUME ~readErr', NEW f \in Folder, f \in Mailboxes, f \notin todo
          PROVE  Numbered(f)'
        <3>1. CASE f = reading
            BY <1>0, <1>5, <2>1, <3>1
        <3>2. CASE f # reading
            <4>1. Numbered(f)
                BY <1>5, <2>1, <3>2 DEF ReadCur, FailRead
            <4>2. box'[f] = box[f] /\ (f \in disturbed' <=> f \in disturbed)
                BY <1>5, <2>1, <3>2 DEF ReadCur, FailRead
            <4> QED
                BY <1>5, <4>1, <4>2 DEF ReadCur, Numbered, Present, MessageAt
        <3> QED
            BY <3>1, <3>2
    <2>2. pc' = "new" /\ UNCHANGED <<disk, todo>>
        BY <1>5 DEF ReadCur, FailRead
    <2> QED
        BY <2>1, <2>2 DEF Mailboxes
<1>6. CASE StartServer
    <2>1. \A g : Present(g)' = Present(g) /\ (Numbered(g)' <=> Numbered(g))
        BY <1>6 DEF StartServer, Numbered, Present, MessageAt
    <2> QED
        BY <1>6, <2>1 DEF StartServer, Mailboxes
<1>7. CASE EndProcess
    BY <1>7 DEF EndProcess
<1>8. CASE /\ UNCHANGED <<disk, boxes, disturbed>>
           /\ pc' = pc \/ {pc, pc'} \cap {"idle", "new", "cur"} = {}
    <2>1. \A g : Present(g)' = Present(g) /\ (Numbered(g)' <=> Numbered(g))
        BY <1>8 DEF Numbered, Present, MessageAt
    <2>2. UNCHANGED <<todo, reading, found, readErr, where, maildirs>>
        BY <1>8
    <2>3. Mailboxes' = Mailboxes
        BY <1>8 DEF Mailboxes
    <2>4. UNCHANGED Present(reading)
        BY <2>1, <2>2
    <2> HIDE DEF Mailboxes
    <2> QED
        BY <1>8, <2>1, <2>3, <2>4
<1>9. CASE Interrupt
    BY <1>7, <1>8, <1>9 DEF Interrupt
<1>10. CASE Register \/ Wait \/ CloseServer \/ AwaitServer
    BY <1>8, <1>10 DEF Register, Wait, CloseServer, AwaitServer
<1> QED
    BY <1>1, <1>2, <1>3, <1>4, <1>5, <1>6, <1>7, <1>8, <1>9, <1>10
       DEF Next, vars, MainStep, ServerStep, Listen, Closed, FailAccept, ClientStep,
           Disconnect, Select, ListMessage, EndListing

\* Whatever another mail program moves while the maildirs are read, every message
\* of a folder that is not nested is served (addMailboxes, addMessages).
THEOREM AllAreServed ==
    ASSUME Nested = {}
    PROVE  Spec => []EveryMessageServed
<1>1. TypeInv /\ EndInv /\ MailboxInv => EveryMessageServed
    <2> SUFFICES ASSUME TypeInv, EndInv, MailboxInv, HasBoxes, NEW m \in File,
                        where[m] \in {"new", "cur"}
                 PROVE  Numbers(Home[m], m) # {}
        BY DEF EveryMessageServed
    <2>1. Numbered(Home[m])
        BY HomeAssumption DEF HasBoxes, EndInv, MailboxInv, Mailboxes
    <2>2. m \in Present(Home[m])
        BY DEF Present
    <2> QED
        BY <2>1, <2>2 DEF Numbered, Numbers, MessageAt
<1> QED
    BY <1>1, TypeInvInit, TypeInvNext, EndInvInit, EndInvNext, MailboxInvInit,
       MailboxInvNext, PTL DEF Spec

-----------------------------------------------------------------------------
(* The copy of the client.                                                 *)

\* The client fetches from a mailbox that has been read, and was told its size.
SessionInv ==
    sel # NoFolder =>
      /\ pc \notin {"idle", "new", "cur"} /\ ~readErr /\ sel \in Mailboxes
      /\ top = Len(box[sel]) + 1 /\ pos <= top

\* What the client keeps has the UID that the message has had ever since.
CopyInv ==
    \A f \in Folder : Orderly(f) =>
      \A c \in copy[f] : c[2] \in Present(f) /\ c[1] = Uid(c[2])

HasOrLost(f, m) == <<Uid(m), m>> \in copy[f] \/ m \in lost

\* The client has what is before the UID it will ask for next, which is never
\* beyond that of the next message, and what this session has been through.
SyncInv ==
    /\ \A f \in Folder : Orderly(f) =>
         /\ known[f] <= Cardinality(Present(f)) + 1
         /\ \A m \in Present(f) : Uid(m) < known[f] => HasOrLost(f, m)
    /\ sel # NoFolder /\ Orderly(sel) =>
         \A m \in Present(sel) : Uid(m) < pos => HasOrLost(sel, m)

\* The elements that are not younger than x.
NotYounger(T, t, x) == {y \in T : t[y] <= t[x]}

\* s has all of T, once each, and in the order of t, which tells them apart.
SortedBy(T, n, s, t) ==
    /\ s \in [1..n -> T] /\ t \in [T -> Nat]
    /\ \A x \in T : \E i \in 1..n : s[i] = x
    /\ \A i, j \in 1..n : s[i] = s[j] => i = j
    /\ \A i, j \in 1..n : i < j => t[s[i]] <= t[s[j]]
    /\ \A x, y \in T : x # y => t[x] # t[y]

\* The position of an element in a sequence without repetitions, sorted by
\* distinct times, is the number of the elements that are not younger.
LEMMA RankIsPosition ==
    ASSUME NEW T, NEW n \in Nat, NEW s, NEW t, SortedBy(T, n, s, t)
    PROVE  /\ Cardinality(T) = n
           /\ \A i \in 1..n : Cardinality(NotYounger(T, t, s[i])) = i
<1> USE DEF SortedBy
<1>1. Cardinality(T) = n
    <2>1. s \in Bijection(1..n, T)
        BY DEF Bijection, Injection, Surjection, IsInjective
    <2> QED
        BY <2>1, FS_CountingElements DEF ExistsBijection
<1>2. ASSUME NEW i \in 1..n
      PROVE  Cardinality(NotYounger(T, t, s[i])) = i
    <2> DEFINE U == {x \in T : t[x] <= t[s[i]]}
               r == [j \in 1..i |-> s[j]]
    <2>1. i \in Nat /\ 1..i \subseteq 1..n
        OBVIOUS
    <2>2. ASSUME NEW j \in 1..i PROVE s[j] \in U
        <3>1. j \in 1..n /\ (j < i \/ j = i)
            BY <2>1
        <3>2. t[s[j]] \in Nat
            BY <3>1
        <3> QED
            BY <3>1, <3>2
    <2>3. ASSUME NEW x \in U PROVE \E j \in 1..i : s[j] = x
        <3>1. PICK j \in 1..n : s[j] = x
            OBVIOUS
        <3>2. CASE i < j
            <4>1. t[s[i]] <= t[s[j]] /\ s[i] # s[j]
                BY <3>2
            <4>2. t[s[i]] \in Nat /\ t[s[j]] \in Nat /\ t[s[i]] # t[s[j]]
                BY <4>1
            <4>3. t[s[j]] <= t[s[i]]
                BY <3>1
            <4> QED
                BY <4>1, <4>2, <4>3
        <3>3. CASE ~(i < j)
            <4>1. j \in 1..i
                BY <3>3
            <4> QED
                BY <3>1, <4>1
        <3> QED
            BY <3>2, <3>3
    <2> HIDE DEF U
    <2>4. r \in [1..i -> U]
        BY <2>2
    <2>5. \A x \in U : \E j \in 1..i : r[j] = x
        BY <2>3
    <2>6. \A j, k \in 1..i : r[j] = r[k] => j = k
        BY <2>1
    <2> HIDE DEF r
    <2>7. r \in Bijection(1..i, U)
        BY <2>4, <2>5, <2>6 DEF Bijection, Injection, Surjection, IsInjective
    <2>8. Cardinality(U) = i
        BY <2>1, <2>7, FS_CountingElements DEF ExistsBijection
    <2> QED
        BY <2>8 DEF U, NotYounger
<1> QED
    BY <1>1, <1>2

\* The messages of a folder can be counted.
LEMMA PresentFinite ==
    ASSUME NEW f
    PROVE  IsFiniteSet(Present(f)) /\ Cardinality(Present(f)) \in Nat
<1>1. Present(f) \subseteq File
    BY DEF Present
<1>2. IsFiniteSet(Present(f))
    BY <1>1, HomeAssumption, FS_Subset
<1> QED
    BY <1>2, FS_CardinalityType

\* In an orderly folder a mailbox' numbers are the UIDs (addMessages).
LEMMA NumberIsUid ==
    ASSUME TypeInv, NEW f \in Folder, Numbered(f), Orderly(f)
    PROVE  /\ Len(box[f]) = Cardinality(Present(f))
           /\ DOMAIN box[f] = 1..Len(box[f]) /\ Len(box[f]) \in Nat
           /\ \A i \in DOMAIN box[f] : Uid(MessageAt(f, i)) = i
<1> DEFINE n == Len(box[f])
           T == Present(f)
           s == [i \in 1..n |-> MessageAt(f, i)]
           t == [m \in T |-> mtime[m]]
<1>1. n \in Nat /\ DOMAIN box[f] = 1..n
    BY DEF TypeInv, BoxType
<1>2. s \in [1..n -> T] /\ \A x \in T : \E i \in 1..n : s[i] = x
    BY <1>1 DEF Numbered
<1>3. t \in [T -> Nat]
    BY BoundsAssumption DEF TypeInv, DiskType, Present
<1>4. \A i, j \in 1..n : s[i] = s[j] => i = j
    BY <1>1 DEF Numbered, Orderly
<1>5. \A i, j \in 1..n : i < j => t[s[i]] <= t[s[j]]
    BY <1>1, <1>2 DEF Numbered
<1>6. \A x, y \in T : x # y => t[x] # t[y]
    BY DEF Orderly, Present
<1> HIDE DEF n, T, s, t
<1>7. /\ Cardinality(T) = n
      /\ \A i \in 1..n : Cardinality(NotYounger(T, t, s[i])) = i
    <2>1. SortedBy(T, n, s, t)
        BY <1>2, <1>3, <1>4, <1>5, <1>6 DEF SortedBy
    <2> QED
        BY <1>1, <2>1, RankIsPosition
<1>8. ASSUME NEW i \in 1..n
      PROVE  UpTo(MessageAt(f, i)) = NotYounger(T, t, s[i])
    <2>1. MessageAt(f, i) = s[i] /\ s[i] \in T
        BY <1>2 DEF s
    <2>2. Home[s[i]] = f
        BY <2>1 DEF T, Present
    <2> QED
        BY <2>1, <2>2 DEF UpTo, NotYounger, T, t
<1>9. ASSUME NEW i \in 1..n PROVE Uid(MessageAt(f, i)) = i
    BY <1>7, <1>8 DEF Uid
<1>10. n = Cardinality(T) /\ \A i \in DOMAIN box[f] : Uid(MessageAt(f, i)) = i
    BY <1>1, <1>7, <1>9
<1> QED
    BY <1>1, <1>10 DEF n, T

\* What a step that delivers nothing leaves alone.
LEMMA OthersDeliverNothing ==
    ASSUME TypeInv, [Next]_vars, ~ \E m \in File : Deliver(m)
    PROVE  /\ UNCHANGED <<maildirs, mtime, clock>>
           /\ \A m \in File : where'[m] = "absent" <=> where[m] = "absent"
<1>1. ASSUME NEW m \in File, Show(m)
      PROVE  \A n \in File : where'[n] = "absent" <=> where[n] = "absent"
    BY <1>1 DEF Show, TypeInv, DiskType
<1>2. CASE \E m \in File : Show(m)
    BY <1>1, <1>2 DEF Show
<1>3. CASE UNCHANGED disk
    BY <1>3
<1> QED
    BY <1>2, <1>3
       DEF Next, vars, StartServe, MainStep, ReadNew, ReadCur, StartServer, Register, Wait,
           CloseServer, AwaitServer, ServerStep, Listen, Closed, FailAccept, ClientStep,
           Disconnect, Select, ListMessage, EndListing, EndProcess, Interrupt

\* A folder stays as disturbed as it is.
LEMMA DisturbedStays == [Next]_vars => disturbed \subseteq disturbed'
  BY DEF Next, vars, Deliver, Show, StartServe, MainStep, ReadNew, ReadCur, StartServer,
         Register, Wait, CloseServer, AwaitServer, ServerStep, Listen, Closed, FailAccept,
         ClientStep, Disconnect, Select, ListMessage, EndListing, EndProcess, Interrupt

\* The messages of a folder stay, with their times.
LEMMA MessagesStay ==
    ASSUME TypeInv, [Next]_vars
    PROVE  \A m \in File : where[m] # "absent" =>
             where'[m] # "absent" /\ mtime'[m] = mtime[m]
<1>1. ASSUME NEW m \in File, Deliver(m)
      PROVE  \A n \in File : where[n] # "absent" =>
               where'[n] # "absent" /\ mtime'[n] = mtime[n]
    BY <1>1 DEF Deliver, TypeInv, DiskType
<1> QED
    BY <1>1, OthersDeliverNothing

\* So, a folder in which the order cannot be told stays one.
LEMMA OrderlyBefore ==
    ASSUME TypeInv, [Next]_vars, NEW f \in Folder, Orderly(f)'
    PROVE  Orderly(f)
<1>1. f \notin disturbed
    BY DisturbedStays DEF Orderly
<1>2. ASSUME NEW m \in File, NEW n \in File, Home[m] = f, Home[n] = f, m # n,
             "absent" \notin {where[m], where[n]}
      PROVE  mtime[m] # mtime[n]
    <2>1. /\ where'[m] # "absent" /\ mtime'[m] = mtime[m]
          /\ where'[n] # "absent" /\ mtime'[n] = mtime[n]
        BY <1>2, MessagesStay
    <2> QED
        BY <1>2, <2>1 DEF Orderly
<1> QED
    BY <1>1, <1>2 DEF Orderly

\* The UID of a message stays: what is delivered later is younger, or has the
\* same time, in which case the order cannot be told (Deliver).
LEMMA UidStays ==
    ASSUME TypeInv, MailboxInv, [Next]_vars, NEW f \in Folder, Orderly(f)',
           NEW m \in Present(f)
    PROVE  m \in Present(f)' /\ Uid(m)' = Uid(m)
<1>1. m \in File /\ Home[m] = f /\ where[m] # "absent"
    BY DEF Present
<1>2. where'[m] # "absent" /\ mtime'[m] = mtime[m]
    BY <1>1, MessagesStay
<1>3. ASSUME NEW n \in File, Deliver(n) PROVE UpTo(m)' = UpTo(m)
    <2>1. /\ n # m /\ mtime'[n] = clock' /\ where'[n] # "absent" /\ where[n] = "absent"
          /\ \A k \in File \ {n} : where'[k] = where[k] /\ mtime'[k] = mtime[k]
        BY <1>1, <1>3 DEF Deliver, TypeInv, DiskType
    <2>2. clock \in Int /\ clock' \in Int /\ clock <= clock'
        BY <1>3, BoundsAssumption DEF Deliver, TypeInv, DiskType
    <2>3. mtime[m] \in Int /\ mtime[m] <= clock
        BY <1>1, BoundsAssumption DEF MailboxInv, TypeInv, DiskType
    <2>4. ASSUME Home[n] = f PROVE ~(mtime'[n] <= mtime'[m])
        <3>1. mtime'[n] # mtime'[m]
            BY <1>1, <1>2, <2>1, <2>4 DEF Orderly
        <3> QED
            BY <1>2, <2>1, <2>2, <2>3, <3>1
    <2> QED
        BY <1>1, <1>2, <2>1, <2>4 DEF UpTo, Present
<1>4. CASE ~ \E n \in File : Deliver(n)
    <2>1. UNCHANGED mtime
        BY <1>4, OthersDeliverNothing
    <2>2. \A n \in File : where'[n] = "absent" <=> where[n] = "absent"
        BY <1>4, OthersDeliverNothing
    <2>3. UpTo(m)' = UpTo(m)
        BY <2>1, <2>2 DEF UpTo, Present
    <2> QED
        BY <1>1, <1>2, <2>3 DEF Uid, Present
<1> QED
    BY <1>1, <1>2, <1>3, <1>4 DEF Uid, Present

LEMMA SessionInvInit == Init => SessionInv
  BY DEF Init, SessionInv

LEMMA SessionInvNext ==
    TypeInv /\ EndInv /\ SessionInv /\ [Next]_vars => SessionInv'
<1> SUFFICES ASSUME TypeInv, EndInv, SessionInv, [Next]_vars PROVE SessionInv'
    OBVIOUS
<1> USE DEF SessionInv, ControlType
<1>0. ControlType /\ BoxType /\ ClientType /\ NoFolder \notin Folder
    BY FolderAssumption DEF TypeInv
<1>1. CASE sel' = NoFolder
    BY <1>1
<1>2. ASSUME NEW f \in Folder, Select(f) PROVE SessionInv'
    <2>1. pc \notin {"idle", "new", "cur"} /\ ~readErr
        BY <1>0, <1>2 DEF Select, EndInv, HasBoxes
    <2>2. Len(box[f]) \in Nat
        BY <1>0 DEF BoxType
    <2> QED
        BY <1>2, <2>1, <2>2 DEF Select, Mailboxes
<1>3. CASE ListMessage
    <2>1. pos' = pos + 1 /\ UNCHANGED <<disk, pc, boxes, sel, top>> /\ sel \in Folder
        BY <1>0, <1>3 DEF ListMessage, SendMessage, SkipMessage, ClientType
    <2>2. Len(box[sel]) \in Nat /\ pos \in Nat
        BY <1>0, <2>1 DEF BoxType, ClientType
    <2> QED
        BY <1>3, <2>1, <2>2 DEF ListMessage, Mailboxes
<1>4. CASE /\ UNCHANGED <<session, maildirs, boxes>>
           /\ pc' = pc \/ {pc, pc'} \cap {"idle", "new", "cur"} = {}
    BY <1>0, <1>4 DEF Mailboxes
<1>5. CASE UNCHANGED session /\ pc \in {"idle", "new", "cur"}
    BY <1>5
<1>6. CASE Interrupt
    BY <1>1, <1>4, <1>6 DEF Interrupt, EndProcess, HangUp
<1> QED
    BY <1>1, <1>2, <1>3, <1>4, <1>5, <1>6
       DEF Next, vars, Deliver, Show, StartServe, MainStep, ReadNew, ReadCur, StartServer,
           Register, Wait, CloseServer, AwaitServer, ServerStep, Listen, Closed, FailAccept,
           ClientStep, Disconnect, EndListing, EndProcess, HangUp

\* The mailbox that the client fetches from is numbered.
LEMMA SelectedIsNumbered ==
    ASSUME TypeInv, MailboxInv, SessionInv, sel # NoFolder
    PROVE  sel \in Folder /\ Numbered(sel)
<1>1. sel \in Mailboxes /\ pc \notin {"idle", "new", "cur"} /\ ~readErr
    BY DEF SessionInv
<1> QED
    BY <1>1 DEF MailboxInv, TypeInv, ClientType

\* Only ListMessage gives the client something to keep or loses something.
LEMMA KeptStays ==
    ASSUME [Next]_vars, ~ListMessage
    PROVE  UNCHANGED <<copy, lost>> /\ (EndListing \/ UNCHANGED known)
  BY DEF Next, vars, Deliver, Show, StartServe, MainStep, ReadNew, ReadCur, StartServer,
         Register, Wait, CloseServer, AwaitServer, ServerStep, Listen, Closed, FailAccept,
         ClientStep, Disconnect, Select, EndListing, EndProcess, Interrupt

\* What one round of ListMessages does to what the client has.
LEMMA ListMessageKeeps ==
    ASSUME TypeInv, ListMessage
    PROVE  LET m == MessageAt(sel, pos) IN
           /\ sel \in Folder /\ pos \in DOMAIN box[sel]
           /\ sel' = sel /\ pos' = pos + 1 /\ UNCHANGED known
           /\ \/ UNCHANGED <<copy, lost>> /\ pos < known[sel]
              \/ copy' = [copy EXCEPT ![sel] = @ \cup {<<pos, m>>}] /\ UNCHANGED lost
              \/ lost' = lost \cup {m} /\ UNCHANGED copy
<1>1. sel \in Folder /\ pos \in DOMAIN box[sel]
    BY DEF ListMessage, TypeInv, BoxType, ClientType
<1> QED
    BY <1>1 DEF ListMessage, SendMessage, SkipMessage, MessageAt

LEMMA CopyInvInit == Init => CopyInv
  BY DEF Init, CopyInv

LEMMA CopyInvNext ==
    TypeInv /\ MailboxInv /\ SessionInv /\ CopyInv /\ [Next]_vars => CopyInv'
<1> SUFFICES ASSUME TypeInv, MailboxInv, SessionInv, CopyInv, [Next]_vars,
                    NEW f \in Folder, Orderly(f)', NEW c \in copy'[f]
             PROVE  c[2] \in Present(f)' /\ c[1] = Uid(c[2])'
    BY DEF CopyInv
<1>1. Orderly(f)
    BY OrderlyBefore
<1>2. c \in copy[f] \/ (ListMessage /\ f = sel /\ c = <<pos, MessageAt(sel, pos)>>)
    <2>1. CASE ListMessage
        BY <2>1, ListMessageKeeps DEF TypeInv, ClientType
    <2>2. CASE ~ListMessage
        BY <2>2, KeptStays
    <2> QED
        BY <2>1, <2>2
<1>3. c[2] \in Present(f) /\ c[1] = Uid(c[2])
    <2>1. CASE c \in copy[f]
        BY <1>1, <2>1 DEF CopyInv
    <2>2. CASE ListMessage /\ f = sel /\ c = <<pos, MessageAt(sel, pos)>>
        <3>1. Numbered(f) /\ pos \in DOMAIN box[f]
            BY <2>2, SelectedIsNumbered, ListMessageKeeps, FolderAssumption
        <3>2. Uid(MessageAt(f, pos)) = pos
            BY <1>1, <3>1, NumberIsUid
        <3> QED
            BY <2>2, <3>1, <3>2 DEF Numbered
    <2> QED
        BY <1>2, <2>1, <2>2
<1> QED
    BY <1>3, UidStays

\* As UIDVALIDITY says, in a folder whose order can be told a UID speaks of the
\* same message in every start of the server (Status, addMessages).
THEOREM UidsAreStable == Spec => []CopyRight
<1>1. TypeInv /\ EndInv /\ MailboxInv /\ CopyInv => CopyRight
    <2> SUFFICES ASSUME TypeInv, EndInv, MailboxInv, CopyInv, HasBoxes,
                        NEW f \in Mailboxes, Orderly(f), NEW c \in copy[f]
                 PROVE  c[1] \in DOMAIN box[f] /\ box[f][c[1]][2] = c[2]
        BY DEF CopyRight
    <2>1. f \in Folder
        BY DEF Mailboxes, TypeInv, DiskType
    <2>2. Numbered(f)
        BY <2>1 DEF HasBoxes, EndInv, MailboxInv
    <2>3. c[2] \in Present(f) /\ c[1] = Uid(c[2])
        BY <2>1 DEF CopyInv
    <2>4. PICK i \in DOMAIN box[f] : MessageAt(f, i) = c[2]
        BY <2>2, <2>3 DEF Numbered
    <2>5. i = c[1]
        BY <2>1, <2>2, <2>3, <2>4, NumberIsUid
    <2> QED
        BY <2>4, <2>5 DEF MessageAt
<1> QED
    BY <1>1, TypeInvInit, TypeInvNext, EndInvInit, EndInvNext, MailboxInvInit,
       MailboxInvNext, SessionInvInit, SessionInvNext, CopyInvInit, CopyInvNext, PTL
       DEF Spec

LEMMA SyncInvInit == Init => SyncInv
<1>1. ASSUME NEW f \in Folder PROVE Cardinality(Present(f)) \in Nat
    BY PresentFinite
<1>2. ASSUME Init, NEW f \in Folder
      PROVE  known[f] <= Cardinality(Present(f)) + 1 /\ Present(f) = {}
    BY <1>1, <1>2 DEF Init, Present
<1>3. Init => sel = NoFolder
    BY DEF Init
<1> QED
    BY <1>2, <1>3 DEF SyncInv

\* The UIDs are positive.
LEMMA UidPositive ==
    ASSUME TypeInv, NEW f \in Folder, NEW m \in Present(f)
    PROVE  Uid(m) \in Nat \ {0}
<1>1. m \in File /\ Home[m] = f
    BY DEF Present
<1>2. m \in UpTo(m)
    <2>1. mtime[m] \in Int
        BY <1>1, BoundsAssumption DEF TypeInv, DiskType
    <2> QED
        BY <1>1, <2>1 DEF UpTo
<1>3. UpTo(m) \in SUBSET Present(f)
    BY <1>1 DEF UpTo
<1>4. IsFiniteSet(UpTo(m))
    BY <1>3, PresentFinite, FS_Subset
<1>5. Cardinality(UpTo(m)) \in Nat /\ Cardinality(UpTo(m)) # 0
    BY <1>2, <1>4, FS_CardinalityType, FS_EmptySet
<1> QED
    BY <1>5 DEF Uid

\* A message that is delivered to an orderly folder gets the UID after the last,
\* and the folder has one message more.
LEMMA DeliveredIsLast ==
    ASSUME TypeInv, MailboxInv, NEW m \in File, Deliver(m)
    PROVE  LET n == Cardinality(Present(Home[m])) IN
           Uid(m)' = n + 1 /\ Cardinality(Present(Home[m]))' = n + 1
<1> DEFINE T == Present(Home[m])
<1>1. /\ where[m] = "absent" /\ where'[m] # "absent" /\ mtime'[m] = clock'
      /\ \A k \in File \ {m} : where'[k] = where[k] /\ mtime'[k] = mtime[k]
    BY DEF Deliver, TypeInv, DiskType
<1>2. T' = T \cup {m} /\ m \notin T
    BY <1>1 DEF Present
<1>3. clock \in Int /\ clock' \in Int /\ clock <= clock'
    BY BoundsAssumption DEF Deliver, TypeInv, DiskType
<1>4. ASSUME NEW k \in T' PROVE mtime'[k] <= mtime'[m]
    <2>1. CASE k = m
        BY <1>1, <1>3, <2>1
    <2>2. CASE k # m
        <3>1. k \in File /\ where[k] # "absent" /\ mtime'[k] = mtime[k]
            BY <1>1, <1>2, <2>2 DEF Present
        <3>2. mtime[k] \in Int /\ mtime[k] <= clock
            BY <3>1, BoundsAssumption DEF MailboxInv, TypeInv, DiskType
        <3> QED
            BY <1>1, <1>3, <3>1, <3>2
    <2> QED
        BY <2>1, <2>2
<1>5. UpTo(m)' = T'
    BY <1>4 DEF UpTo
<1>6. IsFiniteSet(T) /\ Cardinality(T) \in Nat
    BY PresentFinite
<1> HIDE DEF T
<1>7. Cardinality(T \cup {m}) = Cardinality(T) + 1
    BY <1>2, <1>6, FS_AddElement
<1>8. Cardinality(T)' = Cardinality(T) + 1
    BY <1>2, <1>7
<1> QED
    BY <1>5, <1>8 DEF Uid, T

\* A round of ListMessages leaves the client with the message or the message
\* lost, unless the client knows it (ListMessages).
LEMMA ListMessageAdvances ==
    ASSUME TypeInv, MailboxInv, SessionInv, SyncInv, [Next]_vars, ListMessage,
           Orderly(sel), NEW m \in Present(sel), Uid(m) < pos + 1
    PROVE  <<Uid(m), m>> \in copy'[sel] \/ m \in lost'
<1>1. sel \in Folder /\ Numbered(sel)
    BY SelectedIsNumbered, FolderAssumption DEF ListMessage
<1>2. Uid(m) \in Nat /\ pos \in Nat
    BY <1>1, UidPositive DEF TypeInv, ClientType
<1>3. CASE Uid(m) < pos
    BY <1>1, <1>3, ListMessageKeeps DEF SyncInv, HasOrLost, ListMessage, TypeInv, ClientType
<1>4. CASE Uid(m) = pos
    <2>1. PICK i \in DOMAIN box[sel] : MessageAt(sel, i) = m
        BY <1>1 DEF Numbered
    <2>2. i = pos
        BY <1>1, <1>4, <2>1, NumberIsUid
    <2>3. Uid(m) < known[sel] => HasOrLost(sel, m)
        BY <1>1 DEF SyncInv
    <2> QED
        BY <1>1, <1>4, <2>1, <2>2, <2>3, ListMessageKeeps DEF HasOrLost, TypeInv, ClientType
<1> QED
    BY <1>2, <1>3, <1>4

\* What the client has, or what was lost, stays so.
LEMMA HadStays ==
    ASSUME TypeInv, MailboxInv, [Next]_vars, NEW f \in Folder, Orderly(f)',
           NEW m \in Present(f), HasOrLost(f, m)
    PROVE  HasOrLost(f, m)'
<1>1. copy[f] \subseteq copy'[f] /\ lost \subseteq lost'
    <2>1. CASE ListMessage
        BY <2>1, ListMessageKeeps DEF TypeInv, ClientType
    <2>2. CASE ~ListMessage
        BY <2>2, KeptStays
    <2> QED
        BY <2>1, <2>2
<1>2. Uid(m)' = Uid(m)
    BY UidStays
<1> QED
    BY <1>1, <1>2 DEF HasOrLost

\* A session begins with the first message, and only ListMessage goes on.
LEMMA SessionMoves ==
    ASSUME [Next]_vars, ~ListMessage
    PROVE  sel' = NoFolder \/ pos' = 1 \/ UNCHANGED <<sel, pos>>
  BY DEF Next, vars, Deliver, Show, StartServe, MainStep, ReadNew, ReadCur, StartServer,
         Register, Wait, CloseServer, AwaitServer, ServerStep, Listen, Closed, FailAccept,
         ClientStep, Disconnect, Select, EndListing, EndProcess, Interrupt, HangUp

LEMMA SyncInvNext ==
    TypeInv /\ MailboxInv /\ SessionInv /\ SyncInv /\ EndInv /\ [Next]_vars => SyncInv'
<1> SUFFICES ASSUME TypeInv, MailboxInv, SessionInv, EndInv, SyncInv, [Next]_vars
             PROVE  SyncInv'
    OBVIOUS
<1>1. ASSUME NEW f \in Folder, Orderly(f)'
      PROVE  known'[f] <= Cardinality(Present(f))' + 1
    <2>1. Orderly(f) /\ known[f] <= Cardinality(Present(f)) + 1
        BY <1>1, OrderlyBefore DEF SyncInv
    <2>2. known[f] \in Nat /\ Cardinality(Present(f)) \in Nat
        BY PresentFinite DEF TypeInv, ClientType
    <2>3. ASSUME NEW m \in File, Deliver(m)
          PROVE  known'[f] <= Cardinality(Present(f))' + 1
        <3>1. UNCHANGED known
            BY <2>3 DEF Deliver
        <3>2. CASE Home[m] = f
            <4>1. Cardinality(Present(f))' = Cardinality(Present(f)) + 1
                BY <2>3, <3>2, DeliveredIsLast
            <4> QED
                BY <2>1, <2>2, <3>1, <4>1
        <3>3. CASE Home[m] # f
            <4>1. Present(f)' = Present(f)
                BY <2>3, <3>3 DEF Deliver, Present, TypeInv, DiskType
            <4> QED
                BY <2>1, <3>1, <4>1
        <3> QED
            BY <3>2, <3>3
    <2>4. CASE ~ \E m \in File : Deliver(m)
        <3>1. Present(f)' = Present(f)
            BY <2>4, OthersDeliverNothing DEF Present
        <3>2. CASE EndListing /\ f = sel
            <4>1. Numbered(sel) /\ top = Len(box[sel]) + 1
                BY <3>2, SelectedIsNumbered DEF EndListing, SessionInv
            <4>2. Len(box[sel]) = Cardinality(Present(f))
                BY <2>1, <3>2, <4>1, NumberIsUid
            <4>3. known'[f] = top
                BY <3>2 DEF EndListing, TypeInv, ClientType
            <4> QED
                BY <2>2, <3>1, <4>1, <4>2, <4>3
        <3>3. CASE ~(EndListing /\ f = sel)
            <4>1. known'[f] = known[f]
                BY <3>3, KeptStays, ListMessageKeeps DEF EndListing, TypeInv, ClientType
            <4> QED
                BY <2>1, <3>1, <4>1
        <3> QED
            BY <3>2, <3>3
    <2> QED
        BY <2>3, <2>4
<1>2. ASSUME NEW f \in Folder, Orderly(f)', NEW m \in Present(f)', Uid(m)' < known'[f]
      PROVE  HasOrLost(f, m)'
    <2>1. Orderly(f)
        BY <1>2, OrderlyBefore
    <2>2. known[f] \in Nat /\ known[f] <= Cardinality(Present(f)) + 1
          /\ Cardinality(Present(f)) \in Nat
        BY <2>1, PresentFinite DEF SyncInv, TypeInv, ClientType
    <2>3. CASE m \notin Present(f)
        <3>1. m \in File /\ Home[m] = f
            BY <1>2 DEF Present
        <3>2. Deliver(m)
            <4>1. PICK n \in File : Deliver(n)
                BY <1>2, <2>3, OthersDeliverNothing DEF Present
            <4>2. n = m
                BY <1>2, <2>3, <4>1 DEF Deliver, Present, TypeInv, DiskType
            <4> QED
                BY <4>1, <4>2
        <3>3. Uid(m)' = Cardinality(Present(f)) + 1
            BY <3>1, <3>2, DeliveredIsLast
        <3>4. known'[f] = known[f]
            BY <3>2 DEF Deliver
        <3> QED
            BY <1>2, <2>2, <3>3, <3>4
    <2>4. CASE m \in Present(f)
        <3>1. Uid(m)' = Uid(m) /\ Uid(m) \in Nat
            BY <1>2, <2>4, UidStays, UidPositive
        <3>2. CASE EndListing /\ f = sel
            <4>1. Numbered(f)
                BY <3>2, SelectedIsNumbered DEF EndListing
            <4>2. PICK i \in DOMAIN box[f] : MessageAt(f, i) = m
                BY <2>4, <4>1 DEF Numbered
            <4>3. i = Uid(m) /\ i <= Len(box[f]) /\ Len(box[f]) \in Nat
                BY <2>1, <4>1, <4>2, NumberIsUid
            <4>4. pos > Len(box[f]) /\ pos \in Nat /\ sel # NoFolder
                BY <3>2 DEF EndListing, TypeInv, ClientType
            <4>5. HasOrLost(f, m)
                BY <2>1, <2>4, <3>1, <3>2, <4>3, <4>4 DEF SyncInv
            <4> QED
                BY <1>2, <2>4, <4>5, HadStays
        <3>3. CASE ~(EndListing /\ f = sel)
            <4>1. known'[f] = known[f]
                BY <3>3, KeptStays, ListMessageKeeps DEF EndListing, TypeInv, ClientType
            <4>2. HasOrLost(f, m)
                BY <1>2, <2>1, <2>4, <3>1, <4>1 DEF SyncInv
            <4> QED
                BY <1>2, <2>4, <4>2, HadStays
        <3> QED
            BY <3>2, <3>3
    <2> QED
        BY <2>3, <2>4
<1>3. ASSUME NEW f \in Folder, sel' = f, Orderly(f)', NEW m \in Present(f)',
             Uid(m)' < pos'
      PROVE  HasOrLost(f, m)'
    <2>1. Orderly(f) /\ f # NoFolder
        BY <1>3, OrderlyBefore, FolderAssumption
    <2>2. ~ \E n \in File : Deliver(n)
        BY <1>3, <2>1 DEF Deliver, SessionInv
    <2>3. m \in Present(f)
        BY <2>2, <1>3, OthersDeliverNothing DEF Present
    <2>4. Uid(m)' = Uid(m) /\ Uid(m) \in Nat \ {0}
        BY <1>3, <2>3, UidStays, UidPositive
    <2>5. CASE ListMessage
        <3>1. sel = f /\ pos' = pos + 1
            BY <1>3, <2>5, ListMessageKeeps
        <3>2. <<Uid(m), m>> \in copy'[f] \/ m \in lost'
            BY <1>3, <2>1, <2>3, <2>4, <2>5, <3>1, ListMessageAdvances
        <3> QED
            BY <2>4, <3>2 DEF HasOrLost
    <2>6. CASE ~ListMessage
        <3>1. sel = f /\ pos' = pos
            <4>1. pos' # 1
                BY <1>3, <2>4
            <4> QED
                BY <1>3, <2>1, <2>6, <4>1, SessionMoves
        <3>2. HasOrLost(f, m)
            BY <1>3, <2>1, <2>3, <2>4, <3>1 DEF SyncInv
        <3> QED
            BY <1>3, <2>3, <3>2, HadStays
    <2> QED
        BY <2>5, <2>6
<1>4. TypeInv'
    BY TypeInvNext
<1> QED
    BY <1>1, <1>2, <1>3, <1>4 DEF SyncInv, TypeInv, ClientType

\* A client that asks for the UIDs from the last UIDNEXT on misses no message but
\* those that had been moved when it asked (Status, ListMessages).
THEOREM SyncIsComplete == Spec => []SyncComplete
<1>1. TypeInv /\ EndInv /\ MailboxInv /\ SyncInv => SyncComplete
    <2> SUFFICES ASSUME TypeInv, EndInv, MailboxInv, SyncInv, HasBoxes,
                        NEW f \in Mailboxes, Orderly(f), NEW i \in DOMAIN box[f],
                        i < known[f]
                 PROVE  <<i, box[f][i][2]>> \in copy[f] \/ box[f][i][2] \in lost
        BY DEF SyncComplete
    <2>1. f \in Folder
        BY DEF Mailboxes, TypeInv, DiskType
    <2>2. Numbered(f)
        BY <2>1 DEF HasBoxes, EndInv, MailboxInv
    <2>3. MessageAt(f, i) \in Present(f) /\ Uid(MessageAt(f, i)) = i
        BY <2>1, <2>2, NumberIsUid DEF Numbered
    <2>4. HasOrLost(f, MessageAt(f, i))
        BY <2>1, <2>3 DEF SyncInv
    <2> QED
        BY <2>3, <2>4 DEF HasOrLost, MessageAt
<1> QED
    BY <1>1, TypeInvInit, TypeInvNext, EndInvInit, EndInvNext, MailboxInvInit,
       MailboxInvNext, SessionInvInit, SessionInvNext, SyncInvInit, SyncInvNext, PTL
       DEF Spec
=============================================================================
