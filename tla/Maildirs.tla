------------------------------ MODULE Maildirs ------------------------------
(***************************************************************************)
(* The maildirs of several folders side by side below one base directory,  *)
(* with their oldmail files, as the threads of one run and the runs after  *)
(* it find and make them (initMaildir). What goes wrong inside one folder  *)
(* is module FolderDownload; here every step succeeds, and a folder's      *)
(* download, which touches nothing else, is one step.                      *)
(*                                                                         *)
(* A name is a sequence of path elements, each of which is a sequence of   *)
(* words: the folder "A/B.C" is << <<"A">>, <<"B", "C">> >>.               *)
(***************************************************************************)
EXTENDS Integers, Sequences, FiniteSets, SequencesExt

CONSTANTS
    Folder,      \* the folders of the mailbox
    Validity,    \* each folder's UIDVALIDITY
    MaxUid,      \* bound: messages per folder
    MaxRuns,     \* bound: runs of the program
    Selections   \* the sets of folders a run may select

ASSUME NameAssumption == Folder \subseteq Seq(Seq(STRING)) \ {<< >>}
ASSUME FolderAssumption ==
    /\ Selections \subseteq SUBSET Folder
    /\ Validity \in [Folder -> Nat]
ASSUME BoundsAssumption == MaxUid \in Nat /\ MaxRuns \in Nat

Uid == 1..MaxUid

\* Mutant: the file is named after the first path element.
OldmailName_First(f) == f[1]

\* oldmailFileName and initMaildir: a separator becomes a dot, which words are
\* separated by already.
OldmailName(f) == FlattenSeq(f)

subMaildirs == <<"new", "cur", "tmp">>

SubPath(f, dir) == Append(f, <<dir>>)

VARIABLES
    dirs,      \* the directories below the base directory
    oldmail,   \* the lines of each oldmail file that exists
    stored,    \* copies of each message in each maildir
    mailbox,   \* how many messages each folder has on the server
    selected,  \* the folders of this run
    pc, uids,  \* each folder's download, and the UIDs it has read
    runs

disk == <<dirs, oldmail, stored>>
vars == <<disk, mailbox, selected, pc, uids, runs>>

OldmailNames == {OldmailName(f) : f \in Folder}

\* The types; every directory made belongs to the path of a folder.
TypeOK ==
    /\ \A d \in dirs : \E f \in Folder : IsPrefix(d, f) \/ IsPrefix(f, d)
    /\ DOMAIN oldmail \subseteq OldmailNames
    /\ \A n \in DOMAIN oldmail : oldmail[n] \subseteq Nat \X Uid
    /\ stored \in [Folder -> [Uid -> Nat]]
    /\ mailbox \in [Folder -> 0..MaxUid]
    /\ selected \in Selections \cup {{}}
    /\ pc \in [Folder -> {"idle", "check", "mkdir", "sub", "touch", "verify",
                          "download", "done", "failed"}]
    /\ uids \in [Folder -> SUBSET (Nat \X Uid)]
    /\ runs \in 0..MaxRuns

Init ==
    /\ dirs = {} /\ oldmail = << >>
    /\ stored = [f \in Folder |-> [u \in Uid |-> 0]]
    /\ mailbox \in [Folder -> 0..MaxUid]
    /\ selected = {} /\ pc = [f \in Folder |-> "idle"]
    /\ uids = [f \in Folder |-> {}] /\ runs = 0

Goto(f, label) == pc' = [pc EXCEPT ![f] = label]

Ended(f) == pc[f] \in {"done", "failed"}

\* A run begins; those before it have ended.
StartRun(S) ==
    /\ runs < MaxRuns /\ \A f \in selected : Ended(f)
    /\ runs' = runs + 1 /\ selected' = S
    /\ pc' = [f \in Folder |-> "idle"]
    /\ uids' = [f \in Folder |-> {}]
    /\ UNCHANGED <<disk, mailbox>>

\* The folder's thread, of which there is one per folder by default.
BeginFolder(f) ==
    /\ f \in selected /\ pc[f] = "idle"
    /\ Goto(f, "check")
    /\ UNCHANGED <<disk, mailbox, selected, uids, runs>>

\* Mutant: the directories are always made.
CheckDir_Always(f) ==
    /\ pc[f] = "check"
    /\ Goto(f, "mkdir")
    /\ UNCHANGED <<disk, mailbox, selected, uids, runs>>

\* Mutant: the directory above is looked for.
CheckDir_Parent(f) ==
    /\ pc[f] = "check"
    /\ Goto(f, IF Front(f) \in dirs THEN "verify" ELSE "mkdir")
    /\ UNCHANGED <<disk, mailbox, selected, uids, runs>>

\* A maildir that is there is taken to be complete.
CheckDir(f) ==
    /\ pc[f] = "check"
    /\ Goto(f, IF f \in dirs THEN "verify" ELSE "mkdir")
    /\ UNCHANGED <<disk, mailbox, selected, uids, runs>>

\* os.MkdirAll(folderPath): with every directory on the way.
MakeFolder(f) ==
    /\ pc[f] = "mkdir"
    /\ dirs' = dirs \cup {SubSeq(f, 1, i) : i \in 1..Len(f)}
    /\ Goto(f, "sub")
    /\ UNCHANGED <<oldmail, stored, mailbox, selected, uids, runs>>

IsMaildir(f) == \A d \in ToSet(subMaildirs) : SubPath(f, d) \in dirs

\* The first sub-directory that is not there yet.
MakeSubDir(f) ==
    /\ pc[f] = "sub"
    /\ \/ \E i \in DOMAIN subMaildirs :
            /\ SubPath(f, subMaildirs[i]) \notin dirs
            /\ \A j \in 1..(i - 1) : SubPath(f, subMaildirs[j]) \in dirs
            /\ dirs' = dirs \cup {SubPath(f, subMaildirs[i])} /\ UNCHANGED pc
       \/ IsMaildir(f) /\ Goto(f, "touch") /\ UNCHANGED dirs
    /\ UNCHANGED <<oldmail, stored, mailbox, selected, uids, runs>>

\* touch creates the oldmail file or empties it.
TouchOldmail(f) ==
    /\ pc[f] = "touch"
    /\ oldmail' = [n \in DOMAIN oldmail \cup {OldmailName(f)} |->
                     IF n = OldmailName(f) THEN {} ELSE oldmail[n]]
    /\ Goto(f, "verify")
    /\ UNCHANGED <<dirs, stored, mailbox, selected, uids, runs>>

\* initExistingMaildir: isMaildir, and the lines of the oldmail file.
VerifyMaildir(f) ==
    /\ pc[f] = "verify"
    /\ IF IsMaildir(f) /\ OldmailName(f) \in DOMAIN oldmail
       THEN uids' = [uids EXCEPT ![f] = oldmail[OldmailName(f)]] /\ Goto(f, "download")
       ELSE Goto(f, "failed") /\ UNCHANGED uids
    /\ UNCHANGED <<disk, mailbox, selected, runs>>

\* determineMissingUIDs and the pipeline, by what was read from the file.
Missing(f) == {u \in 1..mailbox[f] : <<Validity[f], u>> \notin uids[f]}

Download(f) ==
    /\ pc[f] = "download"
    /\ IF mailbox[f] > 0 /\ \E m \in uids[f] : m[1] # Validity[f]
       THEN Goto(f, "failed") /\ UNCHANGED disk
       ELSE /\ stored' = [stored EXCEPT ![f] =
                  [u \in Uid |-> IF u \in Missing(f) THEN @[u] + 1 ELSE @[u]]]
            /\ oldmail' = [oldmail EXCEPT ![OldmailName(f)] =
                             @ \cup {<<Validity[f], u>> : u \in Missing(f)}]
            /\ Goto(f, "done")
            /\ UNCHANGED dirs
    /\ UNCHANGED <<mailbox, selected, uids, runs>>

Arrive(f) ==
    /\ mailbox[f] < MaxUid /\ \A g \in selected : Ended(g)
    /\ mailbox' = [mailbox EXCEPT ![f] = @ + 1]
    /\ UNCHANGED <<disk, selected, pc, uids, runs>>

Next ==
    \/ \E S \in Selections : StartRun(S)
    \/ \E f \in Folder :
         \/ BeginFolder(f) \/ CheckDir(f) \/ MakeFolder(f) \/ MakeSubDir(f)
         \/ TouchOldmail(f) \/ VerifyMaildir(f) \/ Download(f) \/ Arrive(f)

Spec == Init /\ [][Next]_vars

-----------------------------------------------------------------------------
(***************************************************************************)
(* Properties.                                                             *)
(***************************************************************************)

\* What a folder's oldmail file claims to have is in that folder's maildir and
\* not in another's: every folder has a file of its own (oldmailFileName).
RememberedInOwnMaildir ==
    \A f \in Folder :
      OldmailName(f) \in DOMAIN oldmail =>
        \A u \in Uid : <<Validity[f], u>> \in oldmail[OldmailName(f)]
                         => stored[f][u] >= 1

\* Without failures no message is ever stored twice: no folder's making empties
\* an oldmail file with lines in it (initMaildir).
StoredOnce == \A f \in Folder, u \in Uid : stored[f][u] <= 1

\* Where nothing fails no folder is refused, however the threads interleave and
\* whatever earlier runs have selected: a directory that is there when a folder
\* is begun is a complete maildir with its file (initMaildir).
NoFolderRefused == \A f \in Folder : pc[f] # "failed"
=============================================================================
