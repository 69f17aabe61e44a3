# Specifications of go-imapgrab

go-imapgrab backs up the folders of an IMAP mailbox into maildirs, message by
message and run by run, and serves such maildirs to mail clients. These TLA+
modules model the parts of it in which the order of steps matters, TLC checks
them on small instances, and TLAPS proves some of the results for instances of
any size. `PROJECT.json` lists the components, the runs, the line of the source
behind every definition, a plausible bug for every property that the property
would catch, and the hazards the properties were written for.

A module `X` is checked as `MCX` where its constants need values a configuration
cannot express:

    tlc -workers 2 -config FolderSingleRun.cfg MCFolderDownload
    tlapm FolderDownloadProofs.tla

Definitions named `Operator_Word` are mutants: how the operator would look with
a bug. No specification uses them; putting one in its operator's place makes the
property it was written for fail.

## The system

| component | state | operations | module |
|---|---|---|---|
| folder download pipeline (`core/download.go`, `imap_client.go`, `deliver.go`, `oldmail.go`, `ids.go`) | maildir, oldmail file, four goroutines, two buffered and one unbuffered channel, wait group, error counts | find or make the maildir, read the oldmail file, select, list, determine what is missing, fetch, deliver, remember | `FolderDownload`, `Backup` |
| download threads (`core/core.go`, `threading.go`) | folders, partitions, one session and one interrupter per thread, joined errors | log in, list folders, start threads, stop on an interrupt or error, log out | `DownloadThreads` |
| interrupter (`core/interrupt.go`) | a channel of one signal, or none | register, poll, deregister, wait | inside the two above; `wait` in `LocalServer` |
| maildirs of several folders (`core/maildir.go`, `maildir_path.go`, `fs.go`) | directories, oldmail files | find, make and verify a maildir | `Maildirs` |
| folder specs (`core/folder.go`, `ordered_set.go`) | an ordered set of names | select and deselect names, all folders, Gmail's folders | `FolderSpecs` |
| folder lock (`cli/lock.go`) | a lock file, two goroutines, a channel | lock with a timeout, unlock | `FolderLock` |
| message cache of the local server (`core/srvbackend_message.go`) | bodies in memory, their total size, a lock per message and one for the total | fill, account, clear | `MessageCache` |
| mailboxes of the local server (`core/srvbackend*.go`) | lists of messages numbered at start | read the maildirs, select, list; search and flags are left out | `LocalServer` |
| `ServeMaildir` (`core/core.go`) | server goroutine, interrupter | start, wait, shut down | `LocalServer` |
| rfc822 extraction (`core/email.go`) | fields already seen | set a field, validate | `EmailFields` |
| credentials (`cli/keyring.go`) | environment, keyring | look up, store | `Commands` |
| commands (`cli/login.go`, `list.go`, `download.go`, `serve.go`) | how far each process is | what `PreRunE` and `RunE` do one after the other | `Commands` |
| flags, prompts, logging, unique names | — | wording, output, the format of a file name | not modelled |

A command gets its password from the environment or the keyring, which `login`
fills. `download` and `serve` then take the lock of the download folder.
`download` calls `DownloadFolder`, which interprets the folder specs and deals the folders out to threads; every
thread runs one folder's pipeline after the other, each of which makes or finds
its maildir. `serve` reads the maildirs once at its start and shares their
messages among all client connections.

What each component has to get right, and what makes it hard:

- *Pipeline.* A message passed over by later runs must be in the maildir,
  although storing and remembering are done by different goroutines, each of
  which may fail, and the process may end between any two steps. A run that
  reports success must be complete. No goroutine may block another for ever:
  channels are bounded, and stages go on after errors. An interrupt must be
  noticed, reported and obeyed.
- *Threads.* Every selected folder is downloaded exactly once for every number
  of threads. Thread 0 borrows the session and the interrupter of the main
  goroutine, so that the order of deferred calls matters. A signal reaches all
  interrupters registered at that moment, and each forgets it when polled.
- *Maildirs.* Folder names are paths, so that directories of one folder come
  into being with those of another, and the oldmail file's name is a lossy
  function of the folder's.
- *Specs.* The last spec that speaks of a folder decides.
- *Lock.* The lock cannot be waited for with a timeout; what is obtained too
  late must be given back, and by exactly one of two goroutines.
- *Cache.* Two kinds of locks are taken in both orders; the body is used after
  the lock is released; what is counted and what is kept must agree.
- *Local server.* A client relies on UIDs that are positions in the order of file
  times, made anew at every start. Mail programs move files while the maildirs
  are read and served. Three parties end the server: the listener's error, the
  interrupt, and the closing of the listener; none may be waited for in vain.
- *Extraction.* The fields of a reply are told apart by type and order alone.
- *Commands.* Several processes read and write one keyring and wait for one lock.
  None may go on without a password, and what `login` leaves must work.

## How the modules fit together

    Commands            processes, their passwords and the keyring
      FolderLock        one process per download folder
      DownloadThreads   download: sessions, threads, partitions
        FolderSpecs     which folders
        Maildirs        the directories and files of all folders
          FolderDownload  one folder, all goroutines, many runs
            EmailFields   one message's fields
            Backup        what a maildir and its oldmail file promise
      LocalServer       serve: ServeMaildir, the mailboxes, a mail client
        MessageCache    the bodies in memory

The modules meet at the assumptions they make of one another:

- `Commands` extends `FolderLock` and has its actions as part of its own:
  `CommandsUseLock` proves that it implements it. That a download ends is a
  fairness condition of it, which `DownloadThreads` shows (`Termination`); that a
  server ends after an interrupt is shown by `LocalServer` (`InterruptEnds`).
- `LocalServer` delivers only while no server runs, since both have the lock
  (`WorkerOwnsLock`). A body that is no longer on the disk may or may not be in
  memory, as `MessageCache` decides.
- `FolderDownload` takes it as a choice whether a message's text can be extracted;
  `EmailFields` says from which replies it can.
- `FolderDownload` has the folder to itself: `FolderLock` shows that one process
  at a time works on it (`WorkerOwnsLock`), `DownloadThreads` that it has one
  pipeline in a run (`OnePipelinePerFolder`), `Maildirs` for which folder names
  it shares its oldmail file with no other (`RememberedInOwnMaildir`).
- `DownloadThreads` takes a folder's download to be one step that succeeds,
  fails, or consumes an interrupt and then fails: `FolderDownload` shows the
  latter (`InterruptReported`) and that it ends (`Termination`).
- `Maildirs` has the steps of `initMaildir` and takes the rest of a folder's
  download, which touches that folder's maildir and oldmail file only, as one.

The pipeline, the threads and the commands are not put into one module. A product
of them would have every interleaving of several pipelines that share nothing
but the assumptions above.

## The modules

### FolderDownload

The variables are grouped by what survives what. The disk (`folder`, `stored`,
`oldmail`, `openLine`, `lines`) survives everything; the server (`mailbox`,
`uidNext`, `uidValidity`) goes its own way; the rest is gone with the process
(`EndProcess`).

- A message is `<<UIDVALIDITY, UID>>`; `stored` counts its copies in `new/`.
  Writing to `tmp/` and renaming is one action, because nobody looks into `tmp/`.
- The oldmail file is the set of messages on whole lines, at most one message on
  a last line that has all its fields but no newline (`openLine`), and whether
  some line does not parse (`lines`). `readOldmail` returns the first two, or an
  error for the third. A failed write leaves any prefix of a line, of which
  these are the cases a reader can tell apart.
- `folder` tells whether the maildir's directories and oldmail file are absent,
  partly there or all there.
- The main goroutine's `pc` goes through `downloadMissingEmailsToFolder`; each
  action is one call it makes, with the early returns after it. `fetch`,
  `translate`, `deliver` and `oldmail` are the goroutines started by
  `streamingRetrieval` (two), `streamingDelivery` and `streamingOldmailWriteout`.
- `orgMessageChan` is unbuffered: a message is handed over in the step in which
  translate receives it (`FetchMessage`). `tchan` and `dchan` are the buffered
  channels. `already` and `wg` are the `once` and the wait group.
- `translate` reads `already.called` without synchronisation. It does so in a
  step of its own (`CheckCalled`), at any time after the write or before it.
- Error counts are only compared with 0, so `errCounts` is the set of stages that
  have counted an error.
- `err` of `getAllMessageUUIDs` is written by a goroutine after `Fetch` has
  closed the channel and read as soon as the channel is closed. The read may see
  the error or nil: `listing` is then "failed" or "lost".
- `late` counts the messages accepted while an interrupt was pending; it is
  history, nothing reads it.

`Faults` says which failures an instance allows, so that every run names what it
is about. `Backup` is the abstract specification, with four variables: a message
is stored, waits for its line, is remembered. `ImplementsBackup` instantiates it
with the copies, the readable lines, and the messages that deliver holds or that
wait in `deliveredChan`.

### DownloadThreads

`pc` and `idx` are the loop over the partitions, then the deferred calls in
reverse order; `tpc`, `left` the threads; `session` and `sig` the two parts of
each `Imapgrabber`. `mainSig` is `DownloadFolder`'s own interrupter. A signal
fills every registered interrupter; without any, it kills the process
(`signal.Stop` restores the default). `authenticateClient` registers an
interrupter even if the login fails, and leaves a nil client then. The logout
with such a client is a call on a nil interface: the panic unwinds through the
deferred calls (`Abort`).

### Maildirs

A folder name is a sequence of path elements, an element a sequence of words
separated by dots, which is all `strings.ReplaceAll` of separators by dots can
tell apart (`OldmailName`). `MakeFolder` is `os.MkdirAll`, with all directories
on the way. Every folder has a thread of its own, which is the default.

### FolderSpecs

A string is a number of leading dashes and the rest of it. `orderedSet` is a
record of the entries with their numbers and the counter; `Unions` has one
result per order in which the map may be iterated. The loops that add to it are a
function of how far they are (`AddEntries`), and what is sorted is the one order of a
set with its elements in order, which TLAPS can reason about and TLC finds in small
sets.

### FolderLock

Per process the caller of `lock`, the goroutine that calls `doLock` and the one
left behind by the timeout, and the result channel of capacity 1. In the
`select` both branches may be ready, and either is taken. The lock on the file
is `owner`; the system gives it back when its process is gone.

### Commands

`stage` is how far `PreRunE` and `RunE` of each process' command are; a process
runs one command and ends, or is killed. `password` is `rootConf.password`, or
what was typed. Every call of the mail server and of the keyring may fail, and an
empty keyring is `NoPassword`. `folder` is the stage in which `FolderLock` has the
process. All processes use the same account, so that there is one keyring entry.

### LocalServer

- The disk: in which directory each message is, and the time of its file.
  `Deliver` is a download, between two servers; `Show` is another mail program,
  at any time. Two files may have the same time, and then `sort.Slice`, which is
  not stable, may leave them in either order (`Numberings`).
- The main goroutine's `pc` goes through `newBackend`, one action per directory
  read (`ReadNew`, `ReadCur`), then through `ServeMaildir`. `box` holds each
  mailbox' paths in the order of their UIDs. A mailbox that cannot be read does
  not keep the others from being read, but the server from being started.
- `server` is the goroutine with `ListenAndServe`: not listening yet, accepting,
  its listener closed, ended with `serverErr`. `sig` is the interrupter's channel.
- The client asks for the UIDs from the last UIDNEXT on, as UIDVALIDITY 1 allows,
  and keeps what it gets as `copy`. One step is one round of the loop of
  `ListMessages`. `lost` and `disturbed` are history, nothing reads them.

### EmailFields

A field is a UID, a time, a raw name, or something else that mentions "rfc822" or
does not. `email` has the position of the field each member was set from, so that
"the right text" can be said. `MCInputs` puts it beside `FolderSpecs`: both are
functions of what comes from outside, and a behaviour is one call of either.

### MessageCache

`fill`, `clear` and `clearBackendMessageMemoryIfNeeded`, one action from one
acquisition or release of a lock to the next. `Finish` is what `Fetch` and
`Match` do after `fill` has released the message's lock.

## Runs

| run | instance | result |
|---|---|---|
| `folder_single_run` | 3 messages, 1 run, all I/O faults, torn writes, an interrupt | a consumed interrupt is reported and at most one more message accepted; nothing is written after the return; the run ends |
| `folder_restarts` | 2 messages, 2 UIDVALIDITYs, 3 runs, crashes, torn writes, arrivals, expunges, a folder made anew | what is remembered is stored; success is complete; duplicates only after failures; never two UIDVALIDITYs in one file; the files are never spoiled without an error; the pipeline implements `Backup` |
| `folder_lost_listing` | 2 messages | *violated*: a failed listing can end in success |
| `threads_all` | up to 3 folders, 0 to 4 threads, every fault, 2 interrupts | each folder exactly once, sessions open while used and closed at the end, no folder after an interrupt, the first interrupt never kills, `DownloadFolder` ends |
| `threads_failed_login` | 2 folders, failing logins | *violated*: the special-case logout panics |
| `inputs` | 2 plain folders and a Gmail one, 3 specs; lists of up to 7 fields | the last spec decides, and the result is sorted; every complete reply yields its own text; no other list yields a wrong one |
| `commands` | 2 processes, 2 passwords | who works has the lock and a password; the keyring gets what it should; a late lock is given back; commands return |
| `local_server` | 1 folder, 2 messages, 2 starts | every message is served; a client's copy stays right and complete; after the return nothing listens; an interrupt ends the server |
| `maildirs_siblings` | `A/B`, `C/B`, `A/C`, a thread each, any selection, 2 runs | own oldmail files, stored once, nobody refused |
| `maildirs_race` | `A` and `A/B`, a thread each | *violated*: `A` can be refused |
| `cache_concurrent` | 2 connections, 3 readable messages | books balance, memory is bounded, no cycle of locks, every `Fetch` returns |
| `cache_empty_body` | 2 connections | *violated*: it may be cleared in between |

### Why the bounds are enough

- Three messages and channels of capacity 1 fill every channel and block every
  stage (translate holds one message, `tchan` one, deliver one, `dchan` one).
  The code's 20 and 10 only delay that. Two messages suffice over runs: one that
  is torn or lost, one that is written after it.
- Three runs: one that fails, one that meets what it left, one that meets both.
  Two UIDVALIDITYs, because a third is to the second what the second is to the first.
- Three folders and 0 to 4 threads have partitions of one, two and three folders,
  unequal ones, one thread that ends while another works, and more threads than
  folders. Two interrupts: the second can kill.
- Three specs: select, remove, select again, with overlapping sets.
- Message sizes 1, 2 and 4 with a limit of 3: two that fit together, two that do
  not, and one that never fits.
- Two processes: one that works or serves for ever and one that waits, times out
  or gets the lock late; one that logs in while the other reads the keyring. That
  more change nothing for the lock, the passwords and the keyring is proved. Two
  passwords: one that works and one that does not.
- Replies of six fields are all there are to extract from; five and seven are
  rejected by their length, and lists of six of every kind include all replies of
  three items.
- One folder for the server: mailboxes share nothing but the order in which they
  are read. Two messages have two orders, or none if their times are equal; with
  two starts one is delivered, shown or listed before, between and after. The
  third message a longer run would add is to the second what that is to the first.
- No symmetry is used where liveness is checked.

`CHECK_DEADLOCK FALSE` is set where the modelled program stops: runs are bounded
(`FolderDownload`, `Maildirs`), so are starts (`LocalServer`), and
`DownloadFolder`, `expandFolders` and `rfc822FromEmail` return.
`Commands` and `MessageCache` are checked for deadlock.

The type invariants of `MessageCache`, `Maildirs`, `FolderSpecs`, `EmailFields`,
`FolderLock` and `Commands` hold in the same instances; the runs spend their checks
on other properties, and those of all but `EmailFields` and `FolderLock` by itself
are theorems.

### Fairness

The Go scheduler runs every goroutine that can go on, so that each has weak
fairness. That the mail server goes on with its replies is an assumption of
`FairSpec`: no call has a timeout.
`FolderDownload` has one condition per goroutine; that of the main goroutine
covers whichever step is next. `sync.Mutex` prevents starvation, so that a
connection of `MessageCache` has strong fairness. In `Commands` the timer of the
lock fires, the mail server and the keyring answer and a download ends, but
nothing makes a server stop, a user type a password or `doLock` fail. In
`LocalServer` the main goroutine and the library's go on; clients, the user and
the end of the process are never forced. Nor are interrupts, crashes, arrivals
and expunges anywhere.

## Disagreements between code and documentation

Each is a run that TLC finds violated; `PROJECT.json` quotes the lines.

1. `folder_lost_listing`: `getAllMessageUUIDs` may return a shortened list and no
   error, because it reads `err` before the goroutine has written it. Later runs
   make up for it; this one reports success.
2. `threads_failed_login`: when thread 1 or later cannot log in, its client is nil
   and the special-case logout panics instead of returning the collected errors.
3. `cache_empty_body`: another connection may clear a message between `fill` and
   the use of its body.
4. `maildirs_race`: `A` and `A/B` in parallel on an empty directory: the directory
   `A` made for `A/B` is taken for a maildir, and `A` is refused.

What the passing runs leave out on purpose, because the code falls short of it
(to see it, change the constants as given):

- With the server's fairness taken out of `FairSpec` an interrupt may never be
  handled: translate polls between two messages only (`imap_client.go:191`).
- A message whose first read failed is in the map without its body and its size.
  It is never counted later (`MemoryBounded` fails in `CacheConcurrent.cfg` with
  `MayFail = {m1}` and `maxBytes = 2`), and reading it again holds its lock and
  waits for the map's while clearing holds the map's and waits for it (TLC finds the
  deadlock in `CacheConcurrent.cfg` with `MayFail = {m1}`).
- `MaxDashes = 2` and folders with a dash in `Inputs.cfg`: `--x` removes the
  folder `x`, and a folder `-x` can only be deselected by `---x` (`LastSpecWins`
  fails). With at most one dash in a spec it holds whatever the folders are called.
- The folders `A/B` and `A.B` in `Maildirs`: they have the same oldmail file
  (`RememberedInOwnMaildir` fails).
- `Nested = {A}` in `LocalServer.cfg`: `addMailboxes` only takes what is directly in
  the base directory, so that a folder such as `[Gmail]/Sent` is downloaded and
  never served (`EveryMessageServed` fails), although the README has the backups
  browsed with any client (`src/README.md:46`).
- Files of equal times, and a message that gets two numbers because it is moved
  between the two directories' reading: the next start numbers them otherwise,
  under the same UIDVALIDITY. `Orderly` leaves such folders out of `CopyRight` and
  `SyncComplete`.
- A message that has been moved since the start is passed over without an error
  (`ListMessages`), and the client does not ask again: `SyncComplete` excepts it.
- An interrupt that is handled while the server does not listen yet: `Close` finds
  no listener, and `ServeMaildir` waits for ever. `InterruptEnds` fails without
  `server # "listen"`.
- A server that cannot listen says nothing until it is interrupted; that is no
  property, but to be seen in the actions.
- A password from the environment goes into the keyring untried, an empty one
  too; and if the keyring refuses it the command fails although it has its
  password. `KeyringGuarded` asks for an accepted password of `login` only.

## Proofs

Of a component `X`, with its own `Spec` where the table says no more:

| module | theorem | states | besides the named ASSUMEs |
|---|---|---|---|
| `FolderDownloadProofs` | `TypeCorrect` | `Spec => []TypeOK` | |
| | `RememberedIsStored` | `Spec => []RememberedStored` | |
| | `ValidityIsOne` | `Spec => []OneValidity` | |
| | `InterruptIsReported` | `Spec => []InterruptReported` | |
| | `ReturnedIsQuiet` | `Spec => QuietAfterReturn` | |
| `FolderPipelineProofs` | `InterruptIsHeeded` | `Spec => []InterruptHeeded` | |
| | `SpoiledIsReported` | `Spec => []NeverSpoiledSilently` | |
| | `SuccessComplete` | `Spec => []SuccessIsComplete` | |
| | `DuplicatesArePaidFor` | `Spec => []DuplicatesPaidFor` | |
| | `RememberedIsNotStoredAgain` | `Spec => NotStoredAgain` | |
| | `PipelineNeverStuck` | `Spec => []PipelineMoves` | |
| | `PipelineImplementsBackup` | `Spec => ImplementsBackup` | |
| `DownloadThreadsProofs` | `TypeCorrect` | `Spec => []TypeOK` | |
| | `DownloadHasSession` | `Spec => []DownloadsHaveSession` | |
| | `AllSessionsClosed` | `Spec => []SessionsClosed` | |
| | `FirstIsGraceful` | `Spec => []FirstInterruptIsGraceful` | |
| | `NothingBegunAfterInterrupt` | `Spec => NoFolderAfterInterrupt` | |
| | `OnePipeline` | `Spec => []OnePipelinePerFolder` | |
| | `DownloadComplete` | `Spec => []SuccessIsComplete` | |
| | `ThreadsNeverStuck` | `Spec => []WaitsForThreads` | |
| `MaildirsProofs` | `TypeCorrect` | `Spec => []TypeOK` | |
| | `RememberedIsOwn` | `Spec => []RememberedInOwnMaildir` | `OwnOldmails` |
| | `StoredOnceOnly` | `Spec => []StoredOnce` | `OwnOldmails` |
| | `NoneIsRefused` | `Spec => []NoFolderRefused` | `OwnOldmails`, `NotNested` |
| `MessageCacheProofs` | `TypeCorrect` | `Spec => []TypeOK` | |
| | `LocksAreNotCyclic` | `Spec => []NoLockCycle` | `MayFail = {}` |
| | `BooksAreBalanced` | `Spec => []BooksBalance` | `MayFail = {}` |
| | `ConnectionsNeverStuck` | `Spec => []SomebodyWorks` | `MayFail = {}` |
| | `MemoryIsBounded` | `Spec => []MemoryBounded` | `MayFail = {}` |
| `LocalServerProofs` | `TypeCorrect` | `Spec => []TypeOK` | |
| | `ReturnedIsFinal` | `Spec => []ReturnIsFinal` | |
| | `ClosedServerEnds` | `Spec => StaysEnding` | |
| | `AllAreServed` | `Spec => []EveryMessageServed` | `Nested = {}` |
| | `UidsAreStable` | `Spec => []CopyRight` | |
| | `SyncIsComplete` | `Spec => []SyncComplete` | |
| `InputsProofs` | `LastSpecDecides` | `FolderSpecs!Spec => []LastSpecWins` | `MaxDashes <= 1` |
| | `LastAffectingDecides` | `FolderSpecs!Spec => []LastAffecting` | |
| | `OnlyKnownFolders` | `FolderSpecs!Spec => []TypeOK` | |
| | `RepliesAreToldApart` | `EmailSpec => []RepliesToldApart` | |
| | `NothingIsGuessed` | `EmailSpec => []NothingGuessed` | |
| `CommandsProofs` | `WorkerHasLock` | `FolderLock!Spec => []WorkerOwnsLock` | |
| | `LockIsNotLost` | `FolderLock!Spec => []LockIsHeld` | |
| | `CommandsUseLock` | `CommandsSpec => FolderLock!Spec` | |
| | `CommandWorkerHasLock` | `CommandsSpec => []WorkerOwnsLock` | |
| | `CommandsTypeCorrect` | `CommandsSpec => []CommandsTypeOK` | |
| | `CommandsHavePassword` | `CommandsSpec => []CommandHasPassword` | |
| | `KeyringIsGuarded` | `CommandsSpec => KeyringGuarded` | |

They hold for every number of messages, folders, threads, runs, starts,
UIDVALIDITYs, connections, interrupts and processes, every capacity of the channels,
every length of a reply, every list of folder specs and every set of faults. A hypothesis of a theorem leaves
out what the code falls short of (see above): `OwnOldmails` is that no two folders
have the same oldmail file (`A/B` and `A.B` do), `NotNested` that no folder is in
another (`A` and `A/B` are the run `maildirs_race`), `MayFail = {}` that every file
can be read, `Nested = {}` that all maildirs are directly in the base directory,
`MaxDashes <= 1` that no spec begins with two dashes, of which the code trims both.
`MaxDashes` is a bound of the model, of which every value is covered, but what is
meant by two dashes is only what `LastSpecWins` says for up to one. For more,
`LastAffecting` states what the code does: it decides by what a spec speaks of after
both have been trimmed.
That a listing's error may be lost is left out by `SuccessIsComplete` of the pipeline
itself, and `Orderly` is part of `CopyRight` and `SyncComplete`.

### The pipeline

`FolderDownloadProofs`. That `wg` stays within `0..3` is not inductive: it has to
be known who still owes a `Done`. `TypeInv` is `TypeOK` and `ControlInv`, which
relates the goroutines' labels to each other and, in `WgInv`, makes `wg` the
number of the three parties that have entered and not left the group: the `once`
of fetch and translate, deliver, oldmail. From there:

- `StoredInv`: not only what is remembered is stored, but also what deliver holds
  and what waits in its channel. A delivery establishes it, a write uses it.
- `ValidityInv`: while there is something to fetch, all lines have the selected
  UIDVALIDITY, and the server's does not change while a folder is selected. That
  a foreign one in the file ends the run is `ValidityAgrees`.
- `EndInv`: an interrupt that was consumed is on its way to the error count
  (translate is "caught"), or counted. Once the main goroutine has returned with
  `wg = 0` every goroutine that writes has left; if it returned because the
  oldmail file could not be opened, none has started.

`FolderPipelineProofs` follows single messages. `ToStore` are those to be delivered
(missing and not sent, held by translate, in `tchan`), `ToWrite` those that only
lack their line (held by deliver, in `dchan`).

- `PipeInv` adds to `TypeInv` that a message is in one of these places at a time,
  in its channel once, and not yet remembered (`FlowInv`); that a goroutine that has
  come to its end has left its channel empty (`DrainInv`); that the oldmail file is
  touched before anything is written to it, and only its last line is open
  (`DiskInv`); and that nothing is anywhere before a run (`IdleInv`). That a channel
  has no message twice is what makes taking its head take the message out of it.
- `LateInv`: with an interrupt pending translate can only be receiving if it
  polled before, and not a second time. `InterruptHeeded` alone allows that.
- `OutcomeInv`: success means that no stage has counted an error, and that if
  they were started then fetch, translate and oldmail have all come to their end.
- `SpoiledInv`: the error of a torn write stays counted until it is reported.
- `CompleteInv`: what was seen is remembered or still in `ToStore` or `ToWrite`
  unless an error was counted. With `OutcomeInv` and `DrainInv` both sets are empty
  when a run succeeds. It needs to be known besides that the server announces only
  numbers below `uidNext` (`SeenInv`), and that a fetch that ends without an error has
  been sent all that is missing and still in the mailbox (`SentInv`).
- `PaidInv`: a message still to be stored has at most as many copies as there were
  failures, so that the next copy is one more at most; a message that is stored and
  not remembered was paid for or waits for its line. The latter is broken only by a
  failed write, which the error count remembers.

That the pipeline is never stuck is the safety part of `Termination`, for channels of
any capacity. `PipelineMoves` spells out the guards of the goroutines' next steps,
as ENABLED is out of reach: while the main goroutine waits for the group, one of them
can go on, or `Wait` can return. It needs `OrderInv`, `WgInv`, and that a goroutine
closes its channel before the next one leaves (`ClosedInv`); the rest is following
whoever is blocked to whom it waits for. What `PipelineMoves` leaves to others
is the mail server, without whose reply translate waits. `NotStoredAgain` is
`FlowInv` over a step: what deliver holds is not remembered.

The refinement of `Backup`: under the refinement mapping (see FolderDownload above)
the queue of `Backup` is a sequence built from two, what deliver holds and what
waits in the channel. The lemmas `Tagged...` say what appending, taking the head and
concatenation do to it. Then step by step: `DeliverMessage` is `Store`, which is
allowed because of `FlowInv`; `SendDelivered` moves a message from one half of the
queue to the other; a line that is written is `Remember`, or `Spoil` after an open
one, a failed one `Fail`, a receive after a failure `Skip`; the end of a process is
`Restart`; all else stutters.

### Threads

`DownloadThreadsProofs`. Once the process is killed no step is left, so that most
of the invariant need only hold of a process that lives (`Lives`).

- `LoopInv`: the threads are started in order, and `wg` counts those that run.
  It is what makes `TypeOK` inductive, and why the group is waited for only while
  a thread is in it that can go on (`WaitsForThreads`).
- `SessionInv`: below every thread that runs there is an open session; besides
  theirs, only that of the main goroutine is open until its deferred logout, and
  that of the thread about to be started. This is where it matters that thread
  0 does not log out of the session it borrows.
- `SignalInv`: from the first interrupt on `DownloadFolder`'s interrupter and
  that of every running thread have heard of it, so that none begins a folder.
- `BegunInv`: a folder is begun by the thread it was dealt out to, whose partition
  is disjoint from all others, and has left that thread's list once it is over.
- `CompleteInv`: without an error what a thread no longer has to do was begun, the
  threads that are done have nothing left, and the loop went over all partitions.
  `SuccessIsComplete` is stated for every run without an error; a listing that
  failed is an error by then.

### Maildirs

`MaildirsProofs`: `OldmailInv` of a folder says that its oldmail file comes into
being only by the making of the folder, which is begun when nothing of it is there,
and so never loses a line; that all lines are the folder's; and that what is stored
is what is listed, once. It is indexed by the folder because it holds of a folder
whatever others do: `OldmailInv(f)` is kept by the steps of another folder's thread
as their oldmail files differ. `ReadyInv` adds that only the making of a folder
lets its directory exist without the rest. It is false for a folder that another
is nested in, whose thread makes the directory on its way.

### The local server

`MessageCacheProofs`. `LockInv` says that each message's lock is held by the one
connection that works on it, between "load" and "unlock", and that a message in
the map is filled, so that whoever holds its lock has already accounted for it.
The last part is false when a read can fail, hence the assumption. `BooksInv` adds
that the lock of the total is held by the one that clears, that what is in memory
is in the map or about to be entered with its own size, and that the total is the
size of the map unless somebody clears. `MemoryBounded` needs the last two: between
two calls the map is within the limit, and what is filled beyond it is in flight.
`Bytes` counts the bytes of all messages, as a set of pairs, so that entering and
dropping a message are facts about cardinalities (`BytesOfOneMore`, `BytesOfFewer`).
`SomebodyWorks` adds to `NoLockCycle` that nobody is left waiting with nobody at work:
from whoever waits one comes, by way of the locks' holders, to a connection about
to release one (`HoldersWork`). `Waits` spells out which guards are false.

`LocalServerProofs`. `TypeOK` is only inductive with the mailbox that is being read
known to be a folder, and needs that a numbering of a finite set is a sequence of
all its elements (`NumberingComplete`).

- `EndInv` places the library's goroutine for each place of the main one: what is
  in `syncChan` was put there by a server that has ended, and a closed listener
  means that the connections were hung up. `ReturnIsFinal` follows, and, over a
  step, that a server closed after it listened or failed has put its end into
  `syncChan` or will (`StaysEnding`), which `InterruptEnds` rests on.
- `MailboxInv` follows a message through `addMessages`: its maildir is still to be
  read, or is being read and the message was found in `new/` unless it is in `cur/`
  by now, or it has a number. This is where the order of the two directories is
  used: a message only moves from the one read first to the one read last.
- A UID is made anew at every start, so that nothing in one start's state says that
  the next gives the same. `Uid(m)` is defined without the mailboxes, as the number
  of messages of the folder that are not younger. Where the order can be told this
  is the message's position in the sorted list (`RankIsPosition`, `NumberIsUid`),
  and a delivery does not change it, since a new file is the youngest (`UidStays`).
  `CopyInv` says that all the client keeps has this UID, which outlives a start.
- `SyncInv`: the client has, or was told nothing of because it was moved, all
  whose UID is below the last UIDNEXT it saw, and in a session all it has been
  through. `known` is never beyond the next message's UID, so that none is jumped over.

### Specs and extraction

`InputsProofs` has both, since neither is more than a function of what comes from
outside.

`FolderInv` of the specs: the numbers in the `orderedSet` are below its counter and no
two are the same (`OrderedSet`), a folder of the server is in the set exactly when the
last spec that affects it adds it (`ChosenInv`), and the result is what is in the set
of the server's folders, in order (`ResultInv`). A loop over the server's folders is
one step, and the induction over its rounds is done on the set of the rounds for which
the claim holds (`AllNumbers`), which needs no theorem with an operator as its
parameter. Every finite set of names has a sorted order, where each name stands in
the place that is one more than the number of names before it (`SortedOrder`), so
that what is chosen for `sort` exists.

Of the extraction `MembersInv` says which fields each member comes from, so that
its being set or not tells which kinds of fields there were; `OutcomeInv` that an
error has a reason to be seen in the fields: a UID or time twice (`Repeated`), a
text before its header or a third text (`Misplaced`), or one missing at the end
(`Lacking`). Then it only has to be shown that the prefixes of a complete reply
give none of these reasons, and that a reply of three items in which nothing is
missing and nothing is twice is complete.

### Commands and lock

`CommandsProofs`. The lock is held by a process whose caller works, whose result
channel has the unlock function, or whose goroutine is about to send it, and these
exclude one another (`WorkerHasLock`). In the latter two cases there is somebody to
receive it: the caller in its `select` or, after the timeout, the goroutine left behind
(`LockIsNotLost`, the safety part of `FailedCallerLetsGo`). Every step of a command is a step of the lock
or leaves it alone, which makes the lock's theorems theorems of the commands.
`CredentialsInv` adds to the types that a process has a password in every stage after
its credentials, and that one that stores has the valid one, which is
`TryConnect`'s doing and stays true because nobody else writes its `password`.
`GuardedStep` carries that over to the step that changes the keyring.

### Only model-checked

- All liveness (`Termination`, `FetchReturns`, `CommandReturns`, `InterruptEnds`,
  `FailedCallerLetsGo`), which would need ENABLED. Its safety parts are proved:
  that nobody waits for what cannot come is `PipelineNeverStuck`, `ThreadsNeverStuck`,
  `ConnectionsNeverStuck`, `ClosedServerEnds` and `LockIsNotLost`.
- What the violated runs show: that needs a behaviour, not a proof.

## Not modelled

- The content of messages: `EmailFields` knows of a field whether it mentions
  "rfc822", `FolderDownload` of a message whether it can be extracted.
- Names of delivered files: two are assumed to differ (`maildir.go:49-53`).
- The system's crash, as opposed to the process': nothing is synced to the disk.
- The IMAP protocol: the client library is a server that answers, fails, or not,
  the server library a goroutine that accepts until its listener is closed.
- Flags of served messages (`UpdateMessagesFlags` against `Fetch` and `Match`): they
  are a data race between connections, but nothing keeps them, and nothing says what
  a client may rely on. `SearchMessages` reads the same numbers as `ListMessages`.
- The numeric limit of a UID (`intToUint32` panics above 2^31 - 1).
- Several accounts on one keyring: entries are named by account, server and port,
  and have nothing to do with each other.
- Flags of the command line, prompts and logging.

## Plan

Done, in this order: `FolderDownload` with `Backup` and its first theorems,
`MessageCache`, `DownloadThreads`, `FolderSpecs`, `FolderLock`, `Maildirs`;
`EmailFields`, `LocalServer`, `Commands`, the theorems about the last two, those about
`FolderSpecs`, and those that nobody waits for what cannot come.

All components whose order of steps matters are modelled, and every invariant and
action property that a passing run checks is proved for all instances, under the
hypotheses named above. What could still be proved:

- Of `DownloadThreads` together with `FolderSpecs`: that the folders dealt out are
  the selected ones, each to one thread.
- `SyncComplete` for folders that are not `Orderly`, within one start.
