------------------------------ MODULE Commands ------------------------------
(***************************************************************************)
(* The program's commands as processes on one keyring and one download     *)
(* folder: where each gets its password from, what it leaves in the        *)
(* keyring, and, for download and serve, the lock they work under (module  *)
(* FolderLock). What they then do on the folder are modules                *)
(* DownloadThreads and LocalServer.                                        *)
(***************************************************************************)
EXTENDS FolderLock

CONSTANTS
    Password,       \* what a user may type or put into the environment
    ValidPassword,  \* the one the mail server wants
    NoPassword

ASSUME PasswordAssumption == NoPassword \notin Password /\ ValidPassword \in Password

VARIABLES
    stage,      \* how far each process' command is
    cmd,
    noKeyring,  \* its flag
    password,   \* rootConf.password, or what was typed
    keyring     \* the password kept for the account

config == <<cmd, noKeyring, password>>
allVars == <<vars, stage, config, keyring>>

Command == {"login", "list", "download", "serve"}

\* The types, FolderLock's included.
CommandsTypeOK ==
    /\ TypeOK
    /\ stage \in [Process -> {"none", "prompt", "connect", "store", "credentials", "run",
                              "folder", "ended"}]
    /\ cmd \in [Process -> Command]
    /\ noKeyring \in [Process -> BOOLEAN]
    /\ password \in [Process -> Password \cup {NoPassword}]
    /\ keyring \in Password \cup {NoPassword}

CommandsInit ==
    /\ Init
    /\ stage = [p \in Process |-> "none"]
    /\ cmd = [p \in Process |-> "list"]
    /\ noKeyring = [p \in Process |-> FALSE]
    /\ password = [p \in Process |-> NoPassword]
    /\ keyring = NoPassword

Goto(p, s) == stage' = [stage EXCEPT ![p] = s]
Use(p, pw) == password' = [password EXCEPT ![p] = pw]
Configure(p, c, b) ==
    cmd' = [cmd EXCEPT ![p] = c] /\ noKeyring' = [noKeyring EXCEPT ![p] = b]

EndCommand(p) == Goto(p, "none") /\ Use(p, NoPassword) /\ Configure(p, "list", FALSE)

\* login has no PreRunE: it asks for the password instead.
StartCommand(p, c) ==
    /\ stage[p] = "none"
    /\ Goto(p, IF c = "login" THEN "prompt" ELSE "credentials")
    /\ \E b \in BOOLEAN : Configure(p, c, b)
    /\ UNCHANGED <<vars, password, keyring>>

-----------------------------------------------------------------------------
(* PreRunE of list, download and serve: initCredentials.                   *)

\* addToKeyring, unless it fails.
AddToKeyring(pw) == keyring' = pw \/ UNCHANGED keyring

\* Mutant: the flag is looked at only where there is no password.
FromEnvironment_Always(p, pw) ==
    /\ Use(p, pw)
    /\ \/ keyring' = pw /\ Goto(p, "run")
       \/ UNCHANGED keyring /\ Goto(p, "ended")

\* The variable is set; its password replaces the one in the keyring untried.
FromEnvironment(p, pw) ==
    /\ Use(p, pw)
    /\ IF noKeyring[p] THEN UNCHANGED keyring /\ Goto(p, "run")
       ELSE \/ keyring' = pw /\ Goto(p, "run")
            \/ UNCHANGED keyring /\ Goto(p, "ended")

\* Mutant: a keyring without the password is one with an empty password.
FromKeyring_Empty(p) ==
    /\ \/ ~noKeyring[p] /\ Use(p, keyring) /\ Goto(p, "run")
       \/ Goto(p, "ended") /\ UNCHANGED password
    /\ UNCHANGED keyring

\* It is not set: the keyring has a password, or nothing, or cannot be asked.
FromKeyring(p) ==
    /\ \/ ~noKeyring[p] /\ keyring # NoPassword /\ Use(p, keyring) /\ Goto(p, "run")
       \/ Goto(p, "ended") /\ UNCHANGED password
    /\ UNCHANGED keyring

InitCredentials(p) ==
    /\ stage[p] = "credentials"
    /\ FromKeyring(p) \/ \E pw \in Password : FromEnvironment(p, pw)
    /\ UNCHANGED <<vars, cmd, noKeyring>>

-----------------------------------------------------------------------------
(* RunE of login.                                                          *)

ReadPassword(p) ==
    /\ stage[p] = "prompt"
    /\ \/ \E pw \in Password : Use(p, pw) /\ Goto(p, "connect")
       \/ Goto(p, "ended") /\ UNCHANGED password
    /\ UNCHANGED <<vars, cmd, noKeyring, keyring>>

\* Mutant: the keyring gets the password whether or not it works.
AfterConnect_Stores(works) == "store"

AfterConnect(works) == IF works THEN "store" ELSE "ended"

\* tryConnect: logging in, and logging out. Either may fail.
TryConnect(p) ==
    /\ stage[p] = "connect"
    /\ \E works \in BOOLEAN :
         /\ works => password[p] = ValidPassword
         /\ Goto(p, AfterConnect(works))
    /\ UNCHANGED <<vars, config, keyring>>

\* That the keyring fails is only said.
Store(p) ==
    /\ stage[p] = "store"
    /\ IF noKeyring[p] THEN UNCHANGED keyring ELSE AddToKeyring(password[p])
    /\ Goto(p, "ended")
    /\ UNCHANGED <<vars, config>>

-----------------------------------------------------------------------------
(* RunE of list, download and serve.                                       *)

\* GetAllFolders: its result is printed.
ListFolders(p) ==
    /\ stage[p] = "run" /\ cmd[p] = "list"
    /\ Goto(p, "ended")
    /\ UNCHANGED <<vars, config, keyring>>

LockFolder(p) ==
    /\ stage[p] = "run" /\ cmd[p] \in {"download", "serve"}
    /\ Goto(p, "folder") /\ Lock(p)
    /\ UNCHANGED <<config, keyring>>

LockStep(p) == Local(p) /\ UNCHANGED <<stage, config, keyring>>

\* The command's error; the goroutines of lock live until the process ends.
NoLock(p) ==
    /\ stage[p] = "folder" /\ pc[p] = "failed"
    /\ Goto(p, "ended")
    /\ UNCHANGED <<vars, config, keyring>>

\* downloadFolder or serveMaildir has returned: the deferred unlock, and the end.
FinishFolder(p) ==
    /\ Unlock(p)
    /\ EndCommand(p)
    /\ UNCHANGED keyring

\* The process ends after its command, or is killed at any time before.
Exit(p) ==
    /\ stage[p] # "none"
    /\ IF pc[p] = "idle" THEN UNCHANGED vars ELSE End(p)
    /\ EndCommand(p)
    /\ UNCHANGED keyring

RunStep(p) ==
    \/ InitCredentials(p) \/ TryConnect(p) \/ Store(p) \/ ListFolders(p)
    \/ LockFolder(p) \/ NoLock(p)

CommandsNext ==
    \E p \in Process :
      \/ \E c \in Command : StartCommand(p, c)
      \/ ReadPassword(p) \/ RunStep(p) \/ LockStep(p) \/ FinishFolder(p) \/ Exit(p)

CommandsSpec == CommandsInit /\ [][CommandsNext]_allVars

\* Goroutines that can run do, and the timer of the lock fires; the mail server and
\* the keyring answer; and a download ends (DownloadThreads). A user need not type
\* a password, an error may never come, and who serves may do so for ever.
CommandsFairSpec ==
    /\ CommandsSpec
    /\ \A p \in Process :
         /\ WF_allVars(RunStep(p))
         /\ WF_allVars(DoLock(p) /\ LockStep(p)) /\ WF_allVars(SendResult(p) /\ LockStep(p))
         /\ WF_allVars(TimeOut(p) /\ LockStep(p))
         /\ WF_allVars(ReceiveResult(p) /\ LockStep(p))
         /\ WF_allVars(ReleaseLate(p) /\ LockStep(p))
         /\ WF_allVars(cmd[p] = "download" /\ FinishFolder(p))

-----------------------------------------------------------------------------
(***************************************************************************)
(* Properties. Those of FolderLock are checked of the commands, too.       *)
(***************************************************************************)

\* No command goes to the mail server or to the folder without a password: what
\* keeps it from getting one ends it (initCredentials, login's RunE).
CommandHasPassword ==
    \A p \in Process :
      stage[p] \in {"connect", "store", "run", "folder"} => password[p] # NoPassword

\* The keyring only changes for a process that may use it, to the password that
\* process goes on with; a login puts in nothing the server has not accepted,
\* whatever other commands do meanwhile. A password from the environment goes in
\* untried (initCredentials, login's RunE).
KeyringGuarded ==
    [][keyring' # keyring =>
         \E p \in Process :
           /\ ~noKeyring[p] /\ keyring' = password'[p]
           /\ cmd[p] = "login" => password[p] = ValidPassword]_allVars

\* Every command comes to its end once its password is there, even if another
\* process serves the folder for ever; only serve need not (RunE of the commands).
CommandReturns ==
    \A p \in Process :
      stage[p] \in {"connect", "store", "credentials", "run", "folder"} ~>
        stage[p] \in {"none", "ended"} \/ (cmd[p] = "serve" /\ pc[p] = "working")
=============================================================================
