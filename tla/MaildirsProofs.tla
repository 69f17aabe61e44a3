--------------------------- MODULE MaildirsProofs ---------------------------
(***************************************************************************)
(* What holds of the maildirs of several folders, for any number of        *)
(* folders, messages and runs and any selections: of the oldmail files if  *)
(* every folder has one of its own, and of the directories if, besides, no *)
(* folder is nested in another.                                            *)
(***************************************************************************)
EXTENDS Maildirs, SequenceTheorems, TLAPS

\* Names that differ in more than their separators.
OwnOldmails == \A f, g \in Folder : OldmailName(f) = OldmailName(g) => f = g

NotNested == \A f, g \in Folder : IsPrefix(f, g) => f = g

TypeInv ==
    /\ stored \in [Folder -> [Uid -> Nat]]
    /\ selected \subseteq Folder
    /\ pc \in [Folder -> {"idle", "check", "mkdir", "sub", "touch", "verify",
                          "download", "done", "failed"}]
    /\ DOMAIN uids = Folder

\* A folder's file is only made by making the folder, of which nothing is there
\* before. Its lines are of the folder, and they are what was stored, once.
OldmailInv(f) ==
    LET n == OldmailName(f) IN
    /\ f \notin selected => pc[f] = "idle"
    /\ n \in DOMAIN oldmail => f \in dirs
    /\ pc[f] \in {"sub", "touch"} => f \in dirs
    /\ pc[f] \in {"mkdir", "sub", "touch"} => n \notin DOMAIN oldmail
    /\ pc[f] = "download" => n \in DOMAIN oldmail /\ uids[f] = oldmail[n]
    /\ n \in DOMAIN oldmail => \A m \in oldmail[n] : m[1] = Validity[f]
    /\ \A u \in Uid :
         stored[f][u] = IF n \in DOMAIN oldmail /\ <<Validity[f], u>> \in oldmail[n]
                        THEN 1 ELSE 0

\* Only the making of a folder lets its directory be there without the rest.
ReadyInv(f) ==
    /\ f \in dirs /\ pc[f] \notin {"mkdir", "sub", "touch"} =>
         IsMaildir(f) /\ OldmailName(f) \in DOMAIN oldmail
    /\ pc[f] = "touch" => IsMaildir(f)
    /\ pc[f] = "verify" => f \in dirs
    /\ pc[f] # "failed"

-----------------------------------------------------------------------------
(* The names.                                                              *)

LEMMA NameType == \A f \in Folder : f \in Seq(Seq(STRING)) /\ Len(f) \in Nat \ {0}
  BY NameAssumption

\* MkdirAll makes the folder's own directory.
LEMMA OwnPath ==
  ASSUME NEW f \in Folder
  PROVE  f \in {SubSeq(f, 1, i) : i \in 1..Len(f)}
  <1>1. f \in Seq(Seq(STRING)) /\ Len(f) \in 1..Len(f)
    BY NameType
  <1>2. SubSeq(f, 1, Len(f)) = f
    BY <1>1
  <1> QED
    BY <1>1, <1>2

\* On the way to a folder there is no other, unless one is nested in the other.
LEMMA OtherPath ==
  ASSUME NotNested, NEW f \in Folder, NEW g \in Folder,
         f \in {SubSeq(g, 1, i) : i \in 1..Len(g)}
  PROVE  f = g
  <1>1. PICK i \in 1..Len(g) : f = SubSeq(g, 1, i)
    OBVIOUS
  <1>2. f \in Seq(Seq(STRING)) /\ g \in Seq(Seq(STRING)) /\ Len(g) \in Nat
    BY NameType
  <1>3. Len(f) = i /\ i <= Len(g)
    BY <1>1, <1>2
  <1>4. SubSeq(f, 1, Len(f)) = SubSeq(g, 1, Len(f))
    <2>1. SubSeq(f, 1, Len(f)) = f
      BY <1>2
    <2> QED
      BY <1>1, <1>3, <2>1
  <1>5. IsPrefix(f, g)
    BY <1>3, <1>4 DEF IsPrefix
  <1> QED
    BY <1>5 DEF NotNested

\* Nor is a folder a sub-directory of a maildir.
LEMMA SubDirPath ==
  ASSUME NotNested, NEW f \in Folder, NEW g \in Folder, NEW i \in DOMAIN subMaildirs
  PROVE  f # SubPath(g, subMaildirs[i])
  <1> DEFINE x == <<subMaildirs[i]>>
             S == Seq(STRING) \cup {x}
  <1>1. g \in Seq(Seq(STRING)) /\ Len(g) \in Nat \ {0}
    BY NameType
  <1>2. g \in Seq(S) /\ x \in S
    BY <1>1
  <1> HIDE DEF x, S
  <1>3. SUFFICES ASSUME f = Append(g, x) PROVE FALSE
    BY DEF SubPath, x
  <1>4. Len(f) = Len(g) + 1
    BY <1>2, <1>3
  <1>5. SubSeq(g, 1, Len(g)) = SubSeq(f, 1, Len(g))
    BY <1>1, <1>2, <1>3
  <1>6. IsPrefix(g, f)
    BY <1>1, <1>4, <1>5 DEF IsPrefix
  <1> QED
    BY <1>1, <1>4, <1>6 DEF NotNested

-----------------------------------------------------------------------------
(* The types.                                                              *)

\* The path of a folder, and what is in the folder.
LEMMA PathsOfFolder ==
  ASSUME NEW f \in Folder
  PROVE  /\ \A i \in 1..Len(f) : IsPrefix(SubSeq(f, 1, i), f)
         /\ \A dir : IsPrefix(f, SubPath(f, dir))
  <1>1. f \in Seq(Seq(STRING)) /\ Len(f) \in Nat
    BY NameType
  <1>2. ASSUME NEW i \in 1..Len(f) PROVE IsPrefix(SubSeq(f, 1, i), f)
    <2>1. /\ SubSeq(f, 1, i) \in Seq(Seq(STRING)) /\ Len(SubSeq(f, 1, i)) = i
          /\ i \in Nat /\ i <= Len(f)
      BY <1>1
    <2> QED
      BY <1>1, <2>1 DEF IsPrefix
  <1>3. ASSUME NEW dir PROVE IsPrefix(f, SubPath(f, dir))
    <2> DEFINE g == Append(f, <<dir>>)
    <2>1. Len(g) = Len(f) + 1 /\ \A i \in 1..Len(f) : g[i] = f[i]
      BY <1>1
    <2> QED
      BY <1>1, <2>1 DEF IsPrefix, SubPath
  <1> QED
    BY <1>2, <1>3

LEMMA TypesInit == Init => TypeOK
  BY FolderAssumption, BoundsAssumption DEF Init, TypeOK

LEMMA TypesNext == TypeOK /\ [Next]_vars => TypeOK'
  <1> SUFFICES ASSUME TypeOK, [Next]_vars PROVE TypeOK'
    OBVIOUS
  <1> USE FolderAssumption, BoundsAssumption DEF TypeOK, Goto, disk, OldmailNames
  <1>1. ASSUME NEW S \in Selections, StartRun(S) PROVE TypeOK'
    BY <1>1 DEF StartRun
  <1>2. ASSUME NEW f \in Folder, BeginFolder(f) \/ CheckDir(f) PROVE TypeOK'
    BY <1>2 DEF BeginFolder, CheckDir
  <1>3. ASSUME NEW f \in Folder, MakeFolder(f) PROVE TypeOK'
    <2>1. ASSUME NEW d \in dirs'
          PROVE  \E g \in Folder : IsPrefix(d, g) \/ IsPrefix(g, d)
      <3>1. CASE d \in dirs
        BY <3>1
      <3>2. CASE \E i \in 1..Len(f) : d = SubSeq(f, 1, i)
        BY <3>2, PathsOfFolder
      <3> QED
        BY <1>3, <2>1, <3>1, <3>2 DEF MakeFolder
    <2>2. pc' \in [Folder -> {"idle", "check", "mkdir", "sub", "touch", "verify",
                              "download", "done", "failed"}]
      BY <1>3 DEF MakeFolder
    <2>3. UNCHANGED <<oldmail, stored, mailbox, selected, uids, runs>>
      BY <1>3 DEF MakeFolder
    <2> HIDE DEF Goto
    <2> QED
      BY <2>1, <2>2, <2>3
  <1>4. ASSUME NEW f \in Folder, MakeSubDir(f) PROVE TypeOK'
    <2>1. ASSUME NEW d \in dirs'
          PROVE  \E g \in Folder : IsPrefix(d, g) \/ IsPrefix(g, d)
      <3>1. CASE d \in dirs
        BY <3>1
      <3>2. CASE \E i \in DOMAIN subMaildirs : d = SubPath(f, subMaildirs[i])
        BY <3>2, PathsOfFolder
      <3> QED
        BY <1>4, <2>1, <3>1, <3>2 DEF MakeSubDir
    <2>2. pc' \in [Folder -> {"idle", "check", "mkdir", "sub", "touch", "verify",
                              "download", "done", "failed"}]
      BY <1>4 DEF MakeSubDir
    <2>3. UNCHANGED <<oldmail, stored, mailbox, selected, uids, runs>>
      BY <1>4 DEF MakeSubDir
    <2> HIDE DEF Goto
    <2> QED
      BY <2>1, <2>2, <2>3
  <1>5. ASSUME NEW f \in Folder, TouchOldmail(f) PROVE TypeOK'
    BY <1>5 DEF TouchOldmail
  <1>6. ASSUME NEW f \in Folder, VerifyMaildir(f) PROVE TypeOK'
    BY <1>6 DEF VerifyMaildir
  <1>7. ASSUME NEW f \in Folder, Download(f) PROVE TypeOK'
    <2>1. CASE UNCHANGED disk
      BY <1>7, <2>1 DEF Download
    <2>2. CASE /\ stored' = [stored EXCEPT ![f] =
                     [u \in Uid |-> IF u \in Missing(f) THEN @[u] + 1 ELSE @[u]]]
               /\ oldmail' = [oldmail EXCEPT ![OldmailName(f)] =
                                @ \cup {<<Validity[f], u>> : u \in Missing(f)}]
               /\ UNCHANGED dirs
      <3>1. \A s \in [Uid -> Nat] :
              [u \in Uid |-> IF u \in Missing(f) THEN s[u] + 1 ELSE s[u]]
                \in [Uid -> Nat]
        OBVIOUS
      <3>2. [u \in Uid |-> IF u \in Missing(f) THEN stored[f][u] + 1 ELSE stored[f][u]]
              \in [Uid -> Nat]
        BY <3>1
      <3>3. stored' \in [Folder -> [Uid -> Nat]]
        BY <2>2, <3>2
      <3>4. mailbox[f] \in Nat /\ mailbox[f] <= MaxUid /\ Validity[f] \in Nat
        OBVIOUS
      <3>5. Missing(f) \subseteq Uid
        BY <3>4 DEF Missing, Uid
      <3>6. /\ DOMAIN oldmail' = DOMAIN oldmail
            /\ \A n \in DOMAIN oldmail' : oldmail'[n] \subseteq Nat \X Uid
        BY <2>2, <3>4, <3>5
      <3> QED
        BY <1>7, <2>2, <3>3, <3>6 DEF Download
    <2> QED
      BY <1>7, <2>1, <2>2 DEF Download
  <1>8. ASSUME NEW f \in Folder, Arrive(f) PROVE TypeOK'
    BY <1>8 DEF Arrive
  <1>9. CASE UNCHANGED vars
    BY <1>9 DEF vars
  <1> QED
    BY <1>1, <1>2, <1>3, <1>4, <1>5, <1>6, <1>7, <1>8, <1>9 DEF Next

\* The types; no directory is made but on the paths of folders and below them, and
\* no file but folders' (initMaildir, oldmailFileName).
THEOREM TypeCorrect == Spec => []TypeOK
  BY TypesInit, TypesNext, PTL DEF Spec

-----------------------------------------------------------------------------
(* The oldmail files.                                                      *)

LEMMA TypeInvInit == Init => TypeInv
  BY DEF Init, TypeInv

LEMMA TypeInvNext == TypeInv /\ [Next]_vars => TypeInv'
  <1> SUFFICES ASSUME TypeInv, [Next]_vars PROVE TypeInv'
    OBVIOUS
  <1> USE DEF TypeInv, Goto, disk
  <1>1. ASSUME NEW S \in Selections, StartRun(S) PROVE TypeInv'
    BY <1>1, FolderAssumption DEF StartRun
  <1>2. ASSUME NEW f \in Folder,
               BeginFolder(f) \/ CheckDir(f) \/ MakeFolder(f) \/ MakeSubDir(f)
               \/ TouchOldmail(f) \/ Arrive(f)
        PROVE  TypeInv'
    BY <1>2 DEF BeginFolder, CheckDir, MakeFolder, MakeSubDir, TouchOldmail, Arrive
  <1>3. ASSUME NEW f \in Folder, VerifyMaildir(f) PROVE TypeInv'
    BY <1>3 DEF VerifyMaildir
  <1>4. ASSUME NEW f \in Folder, Download(f) PROVE TypeInv'
    <2>1. \A s \in [Uid -> Nat] :
            [u \in Uid |-> IF u \in Missing(f) THEN s[u] + 1 ELSE s[u]] \in [Uid -> Nat]
      OBVIOUS
    <2>2. stored' \in [Folder -> [Uid -> Nat]]
      BY <1>4, <2>1 DEF Download
    <2> QED
      BY <1>4, <2>2 DEF Download
  <1> QED
    BY <1>1, <1>2, <1>3, <1>4 DEF Next, vars

LEMMA OldmailInvInit == Init => \A f \in Folder : OldmailInv(f)
  BY DEF Init, OldmailInv

\* A step of a folder that leaves the file of the other alone.
LEMMA OtherFile ==
  ASSUME OwnOldmails, TypeInv, NEW f \in Folder, NEW g \in Folder, f # g,
         OldmailInv(f), dirs \subseteq dirs',
         pc'[f] = pc[f], uids'[f] = uids[f], stored'[f] = stored[f], UNCHANGED selected,
         \A n : n # OldmailName(g) =>
           /\ n \in DOMAIN oldmail' <=> n \in DOMAIN oldmail
           /\ n \in DOMAIN oldmail => oldmail'[n] = oldmail[n]
  PROVE  OldmailInv(f)'
  BY DEF OwnOldmails, OldmailInv

LEMMA OldmailInvNext ==
  ASSUME OwnOldmails, TypeInv, \A f \in Folder : OldmailInv(f), [Next]_vars
  PROVE  \A f \in Folder : OldmailInv(f)'
  <1> USE DEF TypeInv, Goto, disk
  <1>1. ASSUME NEW S \in Selections, StartRun(S), NEW f \in Folder PROVE OldmailInv(f)'
    BY <1>1 DEF StartRun, OldmailInv
  <1>2. ASSUME NEW g \in Folder, BeginFolder(g), NEW f \in Folder PROVE OldmailInv(f)'
    BY <1>2 DEF BeginFolder, OldmailInv
  <1>3. ASSUME NEW g \in Folder, CheckDir(g), NEW f \in Folder PROVE OldmailInv(f)'
    BY <1>3 DEF CheckDir, OldmailInv
  <1>4. ASSUME NEW g \in Folder, MakeFolder(g), NEW f \in Folder PROVE OldmailInv(f)'
    <2>1. dirs \subseteq dirs' /\ g \in dirs'
      BY <1>4, OwnPath DEF MakeFolder
    <2> QED
      BY <1>4, <2>1 DEF MakeFolder, OldmailInv
  <1>5. ASSUME NEW g \in Folder, MakeSubDir(g), NEW f \in Folder PROVE OldmailInv(f)'
    <2>1. /\ dirs \subseteq dirs'
          /\ UNCHANGED pc \/ pc' = [pc EXCEPT ![g] = "touch"]
          /\ pc[g] = "sub" /\ UNCHANGED <<oldmail, stored, selected, uids>>
      BY <1>5 DEF MakeSubDir
    <2> QED
      BY <2>1 DEF OldmailInv
  <1>6. ASSUME NEW g \in Folder, TouchOldmail(g), NEW f \in Folder PROVE OldmailInv(f)'
    <2> DEFINE n == OldmailName(g)
    <2>1. /\ DOMAIN oldmail' = DOMAIN oldmail \cup {n} /\ oldmail'[n] = {}
          /\ \A k \in DOMAIN oldmail : k # n => oldmail'[k] = oldmail[k]
      BY <1>6 DEF TouchOldmail
    <2>2. CASE f = g
      BY <1>6, <2>1, <2>2 DEF TouchOldmail, OldmailInv
    <2>3. CASE f # g
      BY <1>6, <2>1, <2>3, OtherFile DEF TouchOldmail
    <2> QED
      BY <2>2, <2>3
  <1>7. ASSUME NEW g \in Folder, VerifyMaildir(g), NEW f \in Folder PROVE OldmailInv(f)'
    BY <1>7 DEF VerifyMaildir, OldmailInv
  <1>8. ASSUME NEW g \in Folder, Download(g), NEW f \in Folder PROVE OldmailInv(f)'
    <2> DEFINE n == OldmailName(g)
    <2>1. /\ pc[g] = "download" /\ n \in DOMAIN oldmail /\ uids[g] = oldmail[n]
          /\ pc' = [pc EXCEPT ![g] = "done"] \/ pc' = [pc EXCEPT ![g] = "failed"]
          /\ UNCHANGED <<selected, uids, dirs>>
      BY <1>8 DEF Download, OldmailInv
    <2>2. CASE UNCHANGED disk
      BY <2>1, <2>2 DEF OldmailInv
    <2>3. CASE /\ stored' = [stored EXCEPT ![g] =
                   [u \in Uid |-> IF u \in Missing(g) THEN @[u] + 1 ELSE @[u]]]
               /\ oldmail' = [oldmail EXCEPT ![n] =
                                @ \cup {<<Validity[g], u>> : u \in Missing(g)}]
      <3>1. /\ DOMAIN oldmail' = DOMAIN oldmail
            /\ oldmail'[n] = oldmail[n] \cup {<<Validity[g], u>> : u \in Missing(g)}
            /\ \A k \in DOMAIN oldmail : k # n => oldmail'[k] = oldmail[k]
        BY <2>1, <2>3
      <3>2. CASE f = g
        <4>1. \A m \in oldmail'[n] : m[1] = Validity[g]
          BY <2>1, <3>1 DEF OldmailInv
        <4>2. ASSUME NEW u \in Uid
              PROVE  stored'[g][u] = IF <<Validity[g], u>> \in oldmail'[n] THEN 1 ELSE 0
          <5>1. stored[g][u] = IF <<Validity[g], u>> \in oldmail[n] THEN 1 ELSE 0
            BY <2>1 DEF OldmailInv
          <5>2. CASE u \in Missing(g)
            <6>1. <<Validity[g], u>> \notin oldmail[n]
              BY <2>1, <5>2 DEF Missing
            <6> QED
              BY <2>3, <3>1, <5>1, <5>2, <6>1
          <5>3. CASE u \notin Missing(g)
            <6>1. <<Validity[g], u>> \in oldmail'[n] <=> <<Validity[g], u>> \in oldmail[n]
              BY <3>1, <5>3
            <6> QED
              BY <2>3, <5>1, <5>3, <6>1
          <5> QED
            BY <5>2, <5>3
        <4> HIDE DEF n
        <4>3. n = OldmailName(f)
          BY <3>2 DEF n
        <4> QED
          BY <2>1, <3>1, <3>2, <4>1, <4>2, <4>3 DEF OldmailInv
      <3>3. CASE f # g
        <4>1. pc'[f] = pc[f] /\ uids'[f] = uids[f] /\ stored'[f] = stored[f]
          BY <2>1, <2>3, <3>3
        <4> QED
          BY <2>1, <3>1, <3>3, <4>1, OtherFile
      <3> QED
        BY <3>2, <3>3
    <2> QED
      BY <1>8, <2>2, <2>3 DEF Download
  <1>9. ASSUME UNCHANGED <<disk, selected, pc, uids>>, NEW f \in Folder
        PROVE  OldmailInv(f)'
    BY <1>9 DEF OldmailInv
  <1> QED
    BY <1>1, <1>2, <1>3, <1>4, <1>5, <1>6, <1>7, <1>8, <1>9 DEF Next, vars, Arrive

\* OldmailInv holds of every folder in every state.
LEMMA OldmailsInvariant ==
  ASSUME OwnOldmails
  PROVE  Spec => [](TypeInv /\ \A f \in Folder : OldmailInv(f))
  <1>1. TypeInv /\ (\A f \in Folder : OldmailInv(f)) /\ [Next]_vars
          => TypeInv' /\ (\A f \in Folder : OldmailInv(f))'
    BY OldmailInvNext, TypeInvNext
  <1> QED
    BY <1>1, TypeInvInit, OldmailInvInit, PTL DEF Spec

\* If every folder has an oldmail file of its own, what the file claims to have is
\* in the folder's maildir (oldmailFileName).
THEOREM RememberedIsOwn == OwnOldmails => (Spec => []RememberedInOwnMaildir)
  <1> SUFFICES ASSUME OwnOldmails PROVE Spec => []RememberedInOwnMaildir
    OBVIOUS
  <1>1. TypeInv /\ (\A f \in Folder : OldmailInv(f)) => RememberedInOwnMaildir
    BY DEF OldmailInv, RememberedInOwnMaildir
  <1> QED
    BY <1>1, OldmailsInvariant, PTL

\* And no message is ever stored twice: nothing is there of a folder that is made
\* (initMaildir).
THEOREM StoredOnceOnly == OwnOldmails => (Spec => []StoredOnce)
  <1> SUFFICES ASSUME OwnOldmails PROVE Spec => []StoredOnce
    OBVIOUS
  <1>1. TypeInv /\ (\A f \in Folder : OldmailInv(f)) => StoredOnce
    <2> SUFFICES ASSUME \A f \in Folder : OldmailInv(f), NEW f \in Folder, NEW u \in Uid
                 PROVE  stored[f][u] <= 1
      BY DEF StoredOnce
    <2>1. stored[f][u] = 0 \/ stored[f][u] = 1
      BY DEF OldmailInv
    <2> QED
      BY <2>1
  <1> QED
    BY <1>1, OldmailsInvariant, PTL

-----------------------------------------------------------------------------
(* The directories.                                                        *)

LEMMA ReadyInvInit == Init => \A f \in Folder : ReadyInv(f)
  BY DEF Init, ReadyInv

\* A step of another folder that makes neither this folder's directory nor its file.
LEMMA OtherFolder ==
  ASSUME NEW f \in Folder, ReadyInv(f), dirs \subseteq dirs', f \in dirs' => f \in dirs,
         pc'[f] = pc[f], DOMAIN oldmail \subseteq DOMAIN oldmail'
  PROVE  ReadyInv(f)'
  BY DEF ReadyInv, IsMaildir

LEMMA ReadyInvNext ==
  ASSUME OwnOldmails, NotNested, TypeInv, [Next]_vars,
         \A f \in Folder : OldmailInv(f), \A f \in Folder : ReadyInv(f)
  PROVE  \A f \in Folder : ReadyInv(f)'
  <1> USE DEF TypeInv, Goto, disk
  <1>1. ASSUME NEW S \in Selections, StartRun(S), NEW f \in Folder PROVE ReadyInv(f)'
    <2>1. pc[f] \notin {"mkdir", "sub", "touch"}
      BY <1>1 DEF StartRun, Ended, OldmailInv
    <2> QED
      BY <1>1, <2>1 DEF StartRun, ReadyInv, IsMaildir
  <1>2. ASSUME NEW g \in Folder, BeginFolder(g), NEW f \in Folder PROVE ReadyInv(f)'
    BY <1>2 DEF BeginFolder, ReadyInv, IsMaildir
  <1>3. ASSUME NEW g \in Folder, CheckDir(g), NEW f \in Folder PROVE ReadyInv(f)'
    BY <1>3 DEF CheckDir, ReadyInv, IsMaildir
  <1>4. ASSUME NEW g \in Folder, MakeFolder(g), NEW f \in Folder PROVE ReadyInv(f)'
    <2>1. CASE f = g
      BY <1>4, <2>1 DEF MakeFolder, ReadyInv
    <2>2. CASE f # g
      <3>1. f \in dirs' => f \in dirs
        BY <1>4, <2>2, OtherPath DEF MakeFolder
      <3> QED
        BY <1>4, <2>2, <3>1, OtherFolder DEF MakeFolder
    <2> QED
      BY <2>1, <2>2
  <1>5. ASSUME NEW g \in Folder, MakeSubDir(g), NEW f \in Folder PROVE ReadyInv(f)'
    <2>1. dirs \subseteq dirs' /\ (f \in dirs' => f \in dirs)
      BY <1>5, SubDirPath DEF MakeSubDir
    <2>2. UNCHANGED oldmail /\ pc[g] = "sub"
      BY <1>5 DEF MakeSubDir
    <2>3. CASE UNCHANGED pc
      BY <2>1, <2>2, <2>3, OtherFolder
    <2>4. CASE pc' = [pc EXCEPT ![g] = "touch"] /\ IsMaildir(g) /\ UNCHANGED dirs
      BY <2>2, <2>4 DEF ReadyInv, IsMaildir
    <2> QED
      BY <1>5, <2>3, <2>4 DEF MakeSubDir
  <1>6. ASSUME NEW g \in Folder, TouchOldmail(g), NEW f \in Folder PROVE ReadyInv(f)'
    <2>1. /\ DOMAIN oldmail' = DOMAIN oldmail \cup {OldmailName(g)} /\ pc[g] = "touch"
          /\ UNCHANGED dirs /\ pc' = [pc EXCEPT ![g] = "verify"]
      BY <1>6 DEF TouchOldmail
    <2>2. g \in dirs /\ IsMaildir(g)
      BY <2>1 DEF OldmailInv, ReadyInv
    <2> QED
      BY <2>1, <2>2 DEF ReadyInv, IsMaildir
  <1>7. ASSUME NEW g \in Folder, VerifyMaildir(g), NEW f \in Folder PROVE ReadyInv(f)'
    <2>1. IsMaildir(g) /\ OldmailName(g) \in DOMAIN oldmail
      BY <1>7 DEF VerifyMaildir, ReadyInv
    <2> QED
      BY <1>7, <2>1 DEF VerifyMaildir, ReadyInv, IsMaildir
  <1>8. ASSUME NEW g \in Folder, Download(g), NEW f \in Folder PROVE ReadyInv(f)'
    <2>1. \A m \in uids[g] : m[1] = Validity[g]
      BY <1>8 DEF Download, OldmailInv
    <2>2. /\ UNCHANGED dirs /\ DOMAIN oldmail' = DOMAIN oldmail
          /\ pc' = [pc EXCEPT ![g] = "done"] /\ pc[g] = "download"
      BY <1>8, <2>1 DEF Download
    <2> QED
      BY <2>2 DEF ReadyInv, IsMaildir
  <1>9. ASSUME UNCHANGED <<disk, pc>>, NEW f \in Folder PROVE ReadyInv(f)'
    BY <1>9 DEF ReadyInv, IsMaildir
  <1> QED
    BY <1>1, <1>2, <1>3, <1>4, <1>5, <1>6, <1>7, <1>8, <1>9 DEF Next, vars, Arrive

\* If, besides, no folder is nested in another, none is ever refused: a directory
\* that is there when a folder is begun is a complete maildir with its file, for
\* however many folders are made at the same time (initMaildir).
THEOREM NoneIsRefused == OwnOldmails /\ NotNested => (Spec => []NoFolderRefused)
  <1> SUFFICES ASSUME OwnOldmails, NotNested PROVE Spec => []NoFolderRefused
    OBVIOUS
  <1>1. (\A f \in Folder : ReadyInv(f)) => NoFolderRefused
    BY DEF ReadyInv, NoFolderRefused
  <1>2. TypeInv /\ (\A f \in Folder : OldmailInv(f)) /\ (\A f \in Folder : ReadyInv(f))
          /\ [Next]_vars => (\A f \in Folder : ReadyInv(f))'
    BY ReadyInvNext
  <1> QED
    BY <1>1, <1>2, OldmailsInvariant, ReadyInvInit, PTL DEF Spec
=============================================================================
