---------------------------- MODULE MessageCache ----------------------------
(***************************************************************************)
(* The memory of the local IMAP server. The bodies of a maildir's messages *)
(* are read when a client asks for them and kept until reading another one *)
(* would exceed the limit; then all of them are dropped. Every connection  *)
(* of the server works on the same serverMessage values, each with a lock, *)
(* and on the one backendMem, with another.                                *)
(***************************************************************************)
EXTENDS Integers, FiniteSets

CONSTANTS
    Message,      \* serverMessage values
    Connection,   \* goroutines of the server, one per client connection
    Size,         \* the size of each message's file
    maxBytes,     \* backendMem.maxBytes
    MayFail,      \* messages whose file may turn out to be unreadable
    NoOne         \* no connection, no message

ASSUME SizeAssumption == Size \in [Message -> Nat] /\ maxBytes \in Nat
ASSUME MayFailAssumption == MayFail \subseteq Message
ASSUME NoOneAssumption == NoOne \notin Message \cup Connection

VARIABLES
    knownBytes,  \* backendMem.knownBytes
    messages,    \* backendMem.messages
    memLock,     \* who holds backendMem.lock
    filled,      \* messages whose body is in memory
    lock,        \* who holds each message's lock
    pc, cur,     \* where each connection is, and with which message
    newSize,     \* len(body) of its last ReadFile
    outcome      \* what its last Fetch or Match worked on

cacheVars == <<knownBytes, messages, memLock>>
vars == <<cacheVars, filled, lock, pc, cur, newSize, outcome>>

TypeOK ==
    /\ knownBytes \in Nat
    /\ messages \subseteq Message
    /\ memLock \in Connection \cup {NoOne}
    /\ filled \subseteq Message
    /\ lock \in [Message -> Connection \cup {NoOne}]
    /\ pc \in [Connection ->
                 {"idle", "fill", "load", "account", "evict", "failed",
                  "unlock", "read"}]
    /\ cur \in [Connection -> Message \cup {NoOne}]
    /\ newSize \in [Connection -> Nat]
    /\ outcome \in [Connection -> {"none", "body", "empty", "error"}]

Init ==
    /\ knownBytes = 0 /\ messages = {} /\ memLock = NoOne
    /\ filled = {} /\ lock = [m \in Message |-> NoOne]
    /\ pc = [c \in Connection |-> "idle"]
    /\ cur = [c \in Connection |-> NoOne]
    /\ newSize = [c \in Connection |-> 0]
    /\ outcome = [c \in Connection |-> "none"]

Goto(c, label) == pc' = [pc EXCEPT ![c] = label]

-----------------------------------------------------------------------------
\* ListMessages or SearchMessages comes to the next message.
Request(c, m) ==
    /\ pc[c] = "idle"
    /\ cur' = [cur EXCEPT ![c] = m]
    /\ outcome' = [outcome EXCEPT ![c] = "none"]
    /\ Goto(c, "fill")
    /\ UNCHANGED <<cacheVars, filled, lock, newSize>>

\* fill takes the message's lock, which it keeps only to read the file.
LockMessage(c) ==
    /\ pc[c] = "fill" /\ lock[cur[c]] = NoOne
    /\ IF cur[c] \in filled
       THEN Goto(c, "read") /\ UNCHANGED lock
       ELSE Goto(c, "load") /\ lock' = [lock EXCEPT ![cur[c]] = c]
    /\ UNCHANGED <<cacheVars, filled, cur, newSize, outcome>>

\* os.ReadFile. The message is accounted for even if it fails.
LoadFile(c) ==
    /\ pc[c] = "load"
    /\ \/ /\ filled' = filled \cup {cur[c]}
          /\ newSize' = [newSize EXCEPT ![c] = Size[cur[c]]]
          /\ UNCHANGED outcome
       \/ /\ cur[c] \in MayFail
          /\ newSize' = [newSize EXCEPT ![c] = 0]
          /\ outcome' = [outcome EXCEPT ![c] = "error"]
          /\ UNCHANGED filled
    /\ Goto(c, "account")
    /\ UNCHANGED <<cacheVars, lock, cur>>

\* Mutant: the new message alone is compared with the limit.
Fits_Alone(c) == newSize[c] <= maxBytes

Fits(c) == newSize[c] + knownBytes <= maxBytes

\* Mutant: the new message is entered before the old ones are dropped.
Account_EnterFirst(c) ==
    /\ pc[c] = "account" /\ memLock = NoOne
    /\ messages' = messages \cup {cur[c]}
    /\ IF cur[c] \in messages \/ Fits(c)
       THEN /\ knownBytes' = IF cur[c] \in messages THEN knownBytes
                             ELSE knownBytes + newSize[c]
            /\ Goto(c, "unlock") /\ UNCHANGED memLock
       ELSE memLock' = c /\ Goto(c, "evict") /\ UNCHANGED knownBytes
    /\ UNCHANGED <<filled, lock, cur, newSize, outcome>>

\* clearBackendMessageMemoryIfNeeded, called with the message's lock held. If
\* nothing has to be cleared it does not block between its lock and unlock.
Account(c) ==
    /\ pc[c] = "account" /\ memLock = NoOne
    /\ IF cur[c] \in messages \/ Fits(c)
       THEN /\ messages' = messages \cup {cur[c]}
            /\ knownBytes' = IF cur[c] \in messages THEN knownBytes
                             ELSE knownBytes + newSize[c]
            /\ Goto(c, "unlock") /\ UNCHANGED memLock
       ELSE memLock' = c /\ Goto(c, "evict") /\ UNCHANGED <<knownBytes, messages>>
    /\ UNCHANGED <<filled, lock, cur, newSize, outcome>>

\* The loop over the map: other.clear() waits for the other message's lock.
ClearMessage(c, m) ==
    /\ pc[c] = "evict" /\ m \in messages /\ lock[m] = NoOne
    /\ filled' = filled \ {m}
    /\ messages' = messages \ {m}
    /\ UNCHANGED <<knownBytes, memLock, lock, pc, cur, newSize, outcome>>

\* Mutant: the bytes of the cleared messages stay on the books.
AccountCleared_NoReset(c) ==
    /\ pc[c] = "evict" /\ messages = {}
    /\ knownBytes' = knownBytes + newSize[c] /\ messages' = {cur[c]}
    /\ memLock' = NoOne
    /\ Goto(c, "unlock")
    /\ UNCHANGED <<filled, lock, cur, newSize, outcome>>

\* Mutant: the new message is compared with the limit again.
AccountCleared_Recheck(c) ==
    /\ pc[c] = "evict" /\ messages = {}
    /\ knownBytes' = 0 /\ memLock' = NoOne
    /\ Goto(c, "account")
    /\ UNCHANGED <<messages, filled, lock, cur, newSize, outcome>>

AccountCleared(c) ==
    /\ pc[c] = "evict" /\ messages = {}
    /\ knownBytes' = newSize[c] /\ messages' = {cur[c]}
    /\ memLock' = NoOne
    /\ Goto(c, "unlock")
    /\ UNCHANGED <<filled, lock, cur, newSize, outcome>>

\* fill returns: Fetch and Match go on without any lock, or fail.
UnlockMessage(c) ==
    /\ pc[c] = "unlock"
    /\ lock' = [lock EXCEPT ![cur[c]] = NoOne]
    /\ Goto(c, IF outcome[c] = "error" THEN "failed" ELSE "read")
    /\ UNCHANGED <<cacheVars, filled, cur, newSize, outcome>>

\* m.msg.Fetch or m.msg.Match on whatever body there is now; the caller logs
\* an error and goes on to the next message.
Finish(c) ==
    /\ pc[c] \in {"read", "failed"}
    /\ outcome' = [outcome EXCEPT ![c] =
                     IF pc[c] = "failed" THEN "error"
                     ELSE IF cur[c] \in filled THEN "body" ELSE "empty"]
    /\ Goto(c, "idle")
    /\ UNCHANGED <<cacheVars, filled, lock, cur, newSize>>

Work(c) ==
    \/ LockMessage(c) \/ LoadFile(c) \/ Account(c)
    \/ \E m \in Message : ClearMessage(c, m)
    \/ AccountCleared(c) \/ UnlockMessage(c) \/ Finish(c)

Next == \E c \in Connection : Work(c) \/ \E m \in Message : Request(c, m)

Spec == Init /\ [][Next]_vars

\* A goroutine that can run does, and sync.Mutex lets nobody starve.
FairSpec == Spec /\ \A c \in Connection : SF_vars(Work(c))

-----------------------------------------------------------------------------
\* The bytes in the files of some messages, each by its place, and how many they are.
BytesIn(S) == UNION {{m} \X (1..Size[m]) : m \in S}

Bytes(S) == Cardinality(BytesIn(S))

InFlight == {cur[c] : c \in {d \in Connection : pc[d] \in {"account", "evict"}}}

\* The books are right whenever nobody is at them: what is in memory is in the
\* map, and knownBytes is what the map's messages take up together.
BooksBalance ==
    memLock = NoOne =>
      /\ filled \subseteq messages \cup InFlight
      /\ knownBytes = Bytes(messages)

\* What is kept exceeds maxBytes only if it is a single message. Messages
\* being read in come on top, one per connection.
MemoryBounded ==
    LET kept == filled \ InFlight IN
    Bytes(kept) <= maxBytes \/ Cardinality(kept) = 1

\* A Fetch that reports no error has had the body of the message.
FetchHasBody == \A c \in Connection : outcome[c] # "empty"

\* Two locks are taken in both orders: fill keeps its message's and waits for
\* backendMem's, the loop over the map keeps that and waits for the messages'.
\* It never waits for one that waits for it, for whoever holds the lock of a
\* message in the map is about to release it.
NoLockCycle ==
    \A c \in Connection, m \in Message :
      pc[c] = "evict" /\ m \in messages /\ lock[m] # NoOne
        => pc[lock[m]] = "unlock"

\* Every Fetch and Match returns.
FetchReturns == \A c \in Connection : pc[c] = "fill" ~> pc[c] = "idle"
=============================================================================
