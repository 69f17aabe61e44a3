-------------------------- MODULE CommandsProofs ---------------------------
(***************************************************************************)
(* What holds of the lock and of the commands for any number of processes  *)
(* and passwords: one process at a time works on a folder, the commands    *)
(* use its lock as FolderLock has it, and the keyring is changed by nobody *)
(* who must not change it.                                                 *)
(***************************************************************************)
EXTENDS Commands, TLAPS

-----------------------------------------------------------------------------
(* The lock, whoever calls it.                                             *)

\* Somebody will take what is in the channel: the caller or the goroutine left behind.
Receiving(p) == pc[p] = "select" \/ releasing[p] = "waiting"

\* Where the lock is that a process has.
InHand(p) == pc[p] = "working" \/ acquiring[p] = "locked" \/ resultChan[p] = "unlock"

\* The lock is in one place: with the goroutine that obtained it, in the
\* channel, or with the caller, who leaves nobody behind to release it.
LockInv ==
    /\ TypeOK
    /\ \A p \in Process :
         /\ acquiring[p] = "locked" \/ resultChan[p] = "unlock" \/ pc[p] = "working"
              => owner = p
         /\ resultChan[p] # "empty" \/ pc[p] = "working" => acquiring[p] = "done"
         /\ pc[p] = "working" => resultChan[p] = "empty"
         /\ pc[p] = "idle" => acquiring[p] = "none"
         /\ owner = p => InHand(p)
         /\ acquiring[p] \in {"locking", "locked", "error"} \/ resultChan[p] # "empty"
              => Receiving(p)

\* Nobody has the lock before the first call of lock.
LEMMA LockInvInit == Init => LockInv
  BY NoOneAssumption DEF Init, LockInv, TypeOK, InHand, Receiving

\* Each step of lock, of the two goroutines it starts and of their process'
\* end hands the lock on or gives it up.
LEMMA LockInvNext == LockInv /\ [Next]_vars => LockInv'
<1> SUFFICES ASSUME LockInv, [Next]_vars PROVE LockInv'
    OBVIOUS
<1> USE NoOneAssumption DEF LockInv, TypeOK, InHand, Receiving
<1>1. ASSUME NEW p \in Process, Lock(p) PROVE LockInv'
    BY <1>1 DEF Lock
<1>2. ASSUME NEW p \in Process, DoLock(p) PROVE LockInv'
    BY <1>2 DEF DoLock
<1>3. ASSUME NEW p \in Process, FailLock(p) PROVE LockInv'
    BY <1>3 DEF FailLock
<1>4. ASSUME NEW p \in Process, SendResult(p) PROVE LockInv'
    BY <1>4 DEF SendResult
<1>5. ASSUME NEW p \in Process, TimeOut(p) PROVE LockInv'
    BY <1>5 DEF TimeOut
<1>6. ASSUME NEW p \in Process, ReceiveResult(p) PROVE LockInv'
    BY <1>6 DEF ReceiveResult
<1>7. ASSUME NEW p \in Process, ReleaseLate(p) PROVE LockInv'
    BY <1>7 DEF ReleaseLate
<1>8. ASSUME NEW p \in Process, Gone(p) PROVE LockInv'
    BY <1>8 DEF Gone
<1>9. CASE UNCHANGED vars
    BY <1>9 DEF vars
<1> QED
    BY <1>1, <1>2, <1>3, <1>4, <1>5, <1>6, <1>7, <1>8, <1>9
       DEF Next, Local, Unlock, End

\* Who works on the folder has its lock: the result of lock's goroutine goes to
\* the caller or to the goroutine left behind after the timeout, never to both.
THEOREM WorkerHasLock == Spec => []WorkerOwnsLock
<1>1. LockInv => WorkerOwnsLock
    BY DEF LockInv, WorkerOwnsLock
<1> QED
    BY <1>1, LockInvInit, LockInvNext, PTL DEF Spec

\* Who has the lock works with it, or has it on its way to somebody who receives it.
LockIsHeld ==
    \A p \in Process : owner = p =>
      \/ pc[p] = "working"
      \/ acquiring[p] = "locked" /\ resultChan[p] = "empty" /\ Receiving(p)
      \/ resultChan[p] = "unlock" /\ Receiving(p)

\* The lock is never lost: whenever the timeout fires, what a process obtains is used by
\* its caller or taken by the goroutine that gives it back (lock).
THEOREM LockIsNotLost == Spec => []LockIsHeld
<1>1. LockInv => LockIsHeld
    BY DEF LockInv, TypeOK, LockIsHeld, InHand
<1> QED
    BY <1>1, LockInvInit, LockInvNext, PTL DEF Spec

-----------------------------------------------------------------------------
(* The commands, which call it.                                            *)

\* A step of a command is a step of lock, or leaves the lock alone.
LEMMA CommandsStepLock == [CommandsNext]_allVars => [Next]_vars
<1> SUFFICES ASSUME [CommandsNext]_allVars PROVE [Next]_vars
    OBVIOUS
<1>1. ASSUME NEW p \in Process, NEW c \in Command, StartCommand(p, c)
      PROVE UNCHANGED vars
    BY <1>1 DEF StartCommand
<1>2. ASSUME NEW p \in Process, ReadPassword(p) PROVE UNCHANGED vars
    BY <1>2 DEF ReadPassword
<1>3. ASSUME NEW p \in Process, RunStep(p) PROVE UNCHANGED vars \/ Lock(p)
    BY <1>3 DEF RunStep, InitCredentials, TryConnect, Store, ListFolders, LockFolder, NoLock
<1>4. ASSUME NEW p \in Process, Exit(p) PROVE UNCHANGED vars \/ End(p)
    BY <1>4 DEF Exit
<1>5. CASE UNCHANGED allVars
    BY <1>5 DEF allVars
<1> QED
    BY <1>1, <1>2, <1>3, <1>4, <1>5 DEF CommandsNext, LockStep, FinishFolder, Next

\* The commands implement FolderLock: they call lock only when they have their
\* password, and unlock only what they hold.
THEOREM CommandsUseLock == CommandsSpec => Spec
<1>1. CommandsInit => Init
    BY DEF CommandsInit
<1> QED
    BY <1>1, CommandsStepLock, PTL DEF CommandsSpec, Spec

\* A command that works on the folder has its lock (RunE of download and serve).
THEOREM CommandWorkerHasLock == CommandsSpec => []WorkerOwnsLock
  BY CommandsUseLock, WorkerHasLock, PTL

-----------------------------------------------------------------------------
(* Their passwords.                                                        *)

\* What a process knows at each stage of its command.
CredentialsInv ==
    /\ stage \in [Process -> {"none", "prompt", "connect", "store", "credentials", "run",
                              "folder", "ended"}]
    /\ cmd \in [Process -> Command]
    /\ noKeyring \in [Process -> BOOLEAN]
    /\ password \in [Process -> Password \cup {NoPassword}]
    /\ keyring \in Password \cup {NoPassword}
    /\ \A p \in Process :
         /\ stage[p] \in {"connect", "store", "run", "folder"} => password[p] # NoPassword
         /\ stage[p] = "store" => password[p] = ValidPassword
         /\ stage[p] = "credentials" => cmd[p] # "login"

\* No command has begun.
LEMMA CredentialsInvInit == CommandsInit => CredentialsInv
  BY DEF CommandsInit, CredentialsInv, Command

\* Each step of a command takes its password along.
LEMMA CredentialsInvNext == CredentialsInv /\ [CommandsNext]_allVars => CredentialsInv'
<1> SUFFICES ASSUME CredentialsInv, [CommandsNext]_allVars PROVE CredentialsInv'
    OBVIOUS
<1> USE PasswordAssumption DEF CredentialsInv, Goto, Use, config
<1>1. ASSUME NEW p \in Process, NEW c \in Command, StartCommand(p, c)
      PROVE CredentialsInv'
    BY <1>1 DEF StartCommand, Configure
<1>2. ASSUME NEW p \in Process, InitCredentials(p) PROVE CredentialsInv'
    <2>1. CASE FromKeyring(p)
        BY <1>2, <2>1 DEF InitCredentials, FromKeyring
    <2>2. ASSUME NEW pw \in Password, FromEnvironment(p, pw) PROVE CredentialsInv'
        BY <1>2, <2>2 DEF InitCredentials, FromEnvironment
    <2> QED
        BY <1>2, <2>1, <2>2 DEF InitCredentials
<1>3. ASSUME NEW p \in Process, ReadPassword(p) PROVE CredentialsInv'
    BY <1>3 DEF ReadPassword
<1>4. ASSUME NEW p \in Process, TryConnect(p) PROVE CredentialsInv'
    BY <1>4 DEF TryConnect, AfterConnect
<1>5. ASSUME NEW p \in Process, Store(p) PROVE CredentialsInv'
    BY <1>5 DEF Store, AddToKeyring
<1>6. ASSUME NEW p \in Process, ListFolders(p) PROVE CredentialsInv'
    BY <1>6 DEF ListFolders
<1>7. ASSUME NEW p \in Process, LockFolder(p) PROVE CredentialsInv'
    BY <1>7 DEF LockFolder
<1>8. ASSUME NEW p \in Process, LockStep(p) PROVE CredentialsInv'
    BY <1>8 DEF LockStep
<1>9. ASSUME NEW p \in Process, NoLock(p) PROVE CredentialsInv'
    BY <1>9 DEF NoLock
<1>10. ASSUME NEW p \in Process, EndCommand(p), UNCHANGED keyring PROVE CredentialsInv'
    BY <1>10 DEF EndCommand, Configure, Command
<1>11. CASE UNCHANGED allVars
    BY <1>11 DEF allVars
<1> QED
    BY <1>1, <1>2, <1>3, <1>4, <1>5, <1>6, <1>7, <1>8, <1>9, <1>10, <1>11
       DEF CommandsNext, RunStep, FinishFolder, Exit

\* The types of the commands and of the lock they use.
THEOREM CommandsTypeCorrect == CommandsSpec => []CommandsTypeOK
<1>1. LockInv /\ CredentialsInv => CommandsTypeOK
    BY DEF LockInv, CredentialsInv, CommandsTypeOK
<1>2. CommandsInit => Init
    BY DEF CommandsInit
<1> QED
    BY <1>1, <1>2, LockInvInit, LockInvNext, CommandsStepLock, CredentialsInvInit,
       CredentialsInvNext, PTL DEF CommandsSpec

\* No command goes to the mail server or to the folder without a password.
THEOREM CommandsHavePassword == CommandsSpec => []CommandHasPassword
<1>1. CredentialsInv => CommandHasPassword
    BY DEF CredentialsInv, CommandHasPassword
<1> QED
    BY <1>1, CredentialsInvInit, CredentialsInvNext, PTL DEF CommandsSpec

\* The step property KeyringGuarded is about.
GuardedStep ==
    keyring' # keyring =>
      \E p \in Process :
        /\ ~noKeyring[p] /\ keyring' = password'[p]
        /\ cmd[p] = "login" => password[p] = ValidPassword

\* Only initCredentials and a login that was accepted write to the keyring.
LEMMA CommandsGuarded == CredentialsInv /\ [CommandsNext]_allVars => [GuardedStep]_allVars
<1> SUFFICES ASSUME CredentialsInv, [CommandsNext]_allVars, keyring' # keyring
             PROVE GuardedStep
    BY DEF GuardedStep
<1> USE DEF CredentialsInv, GuardedStep, Use, config
<1>1. ASSUME NEW p \in Process, InitCredentials(p) PROVE GuardedStep
    <2>1. PICK pw \in Password : FromEnvironment(p, pw)
        BY <1>1 DEF InitCredentials, FromKeyring
    <2>2. ~noKeyring[p] /\ keyring' = password'[p] /\ cmd[p] # "login"
        BY <1>1, <2>1 DEF InitCredentials, FromEnvironment
    <2> QED
        BY <2>2
<1>2. ASSUME NEW p \in Process, Store(p) PROVE GuardedStep
    <2>1. ~noKeyring[p] /\ keyring' = password'[p] /\ password[p] = ValidPassword
        BY <1>2 DEF Store, AddToKeyring
    <2> QED
        BY <2>1
<1> QED
    BY <1>1, <1>2
       DEF CommandsNext, RunStep, StartCommand, ReadPassword, TryConnect, ListFolders,
           LockFolder, LockStep, NoLock, FinishFolder, Exit, allVars

\* The keyring changes only for a process that may use it, and a login puts in
\* only what the mail server has accepted.
THEOREM KeyringIsGuarded == CommandsSpec => KeyringGuarded
<1>1. [GuardedStep]_allVars =>
        [keyring' # keyring =>
           \E p \in Process :
             /\ ~noKeyring[p] /\ keyring' = password'[p]
             /\ cmd[p] = "login" => password[p] = ValidPassword]_allVars
    BY DEF GuardedStep
<1> QED
    BY <1>1, CommandsGuarded, CredentialsInvInit, CredentialsInvNext, PTL
       DEF CommandsSpec, KeyringGuarded
=============================================================================
