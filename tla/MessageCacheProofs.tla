------------------------- MODULE MessageCacheProofs -------------------------
(***************************************************************************)
(* When every file can be read, the two kinds of locks of the cache do not *)
(* lead to a deadlock and the books of what is in memory are right, for    *)
(* any number of messages, of any sizes, and of connections.               *)
(***************************************************************************)
EXTENDS MessageCache, FiniteSetTheorems, TLAPS

-----------------------------------------------------------------------------
(* The types, which hold whatever files can be read.                       *)

TypeInv == TypeOK /\ \A c \in Connection : pc[c] # "idle" => cur[c] \in Message

LEMMA TypeInvNext == TypeInv /\ [Next]_vars => TypeInv'
  <1> SUFFICES ASSUME TypeInv, [Next]_vars PROVE TypeInv'
    OBVIOUS
  <1> USE DEF TypeInv, TypeOK, cacheVars, Goto
  <1>1. ASSUME NEW c \in Connection, NEW m \in Message, Request(c, m) PROVE TypeInv'
    BY <1>1 DEF Request
  <1>2. ASSUME NEW c \in Connection, LockMessage(c) PROVE TypeInv'
    BY <1>2 DEF LockMessage
  <1>3. ASSUME NEW c \in Connection, LoadFile(c) PROVE TypeInv'
    BY <1>3, SizeAssumption DEF LoadFile
  <1>4. ASSUME NEW c \in Connection, Account(c) PROVE TypeInv'
    BY <1>4 DEF Account
  <1>5. ASSUME NEW c \in Connection, NEW m \in Message, ClearMessage(c, m) PROVE TypeInv'
    BY <1>5 DEF ClearMessage
  <1>6. ASSUME NEW c \in Connection, AccountCleared(c) PROVE TypeInv'
    BY <1>6 DEF AccountCleared
  <1>7. ASSUME NEW c \in Connection, UnlockMessage(c) PROVE TypeInv'
    BY <1>7 DEF UnlockMessage
  <1>8. ASSUME NEW c \in Connection, Finish(c) PROVE TypeInv'
    BY <1>8 DEF Finish
  <1>9. CASE UNCHANGED vars
    BY <1>9 DEF vars
  <1> QED
    BY <1>1, <1>2, <1>3, <1>4, <1>5, <1>6, <1>7, <1>8, <1>9 DEF Next, Work

\* The types of the cache, of its locks and of the connections (fill, clear and
\* clearBackendMessageMemoryIfNeeded).
THEOREM TypeCorrect == Spec => []TypeOK
  <1>1. Init => TypeInv
    BY SizeAssumption DEF Init, TypeInv, TypeOK
  <1>2. TypeInv => TypeOK
    BY DEF TypeInv
  <1> QED
    BY <1>1, <1>2, TypeInvNext, PTL DEF Spec

-----------------------------------------------------------------------------
(* The locks.                                                              *)

\* A message in the map is filled, and one that is being filled is not in it.
\* Only its holder enters it, in the step that ends the filling.
LockInv ==
    /\ messages \subseteq filled
    /\ pc \in [Connection ->
                 {"idle", "fill", "load", "account", "evict", "failed",
                  "unlock", "read"}]
    /\ cur \in [Connection -> Message \cup {NoOne}]
    /\ lock \in [Message -> Connection \cup {NoOne}]
    /\ \A c \in Connection : pc[c] # "idle" => cur[c] \in Message
    /\ \A c \in Connection :
         pc[c] \in {"load", "account", "evict"} => cur[c] \notin messages
    /\ \A c \in Connection :
         pc[c] \in {"account", "evict"} => cur[c] \in filled
    /\ \A m \in Message : lock[m] # NoOne =>
         cur[lock[m]] = m /\ pc[lock[m]] \in {"load", "account", "evict", "unlock"}
    /\ \A c \in Connection :
         pc[c] \in {"load", "account", "evict", "unlock"} => lock[cur[c]] = c

\* Nobody holds a lock of the cache before the first request.
LEMMA LockInvInit == Init => LockInv
  BY DEF Init, LockInv

\* fill and clearBackendMessageMemoryIfNeeded keep the invariant: who takes a
\* message's lock to read its file has not got it in the map, and it enters the
\* map in the step after which the lock is only released.
LEMMA LockInvNext == MayFail = {} /\ LockInv /\ [Next]_vars => LockInv'
  <1> SUFFICES ASSUME MayFail = {}, LockInv, [Next]_vars PROVE LockInv'
    OBVIOUS
  <1> USE NoOneAssumption DEF LockInv, cacheVars, Goto
  <1>1. ASSUME NEW c \in Connection, NEW m \in Message, Request(c, m)
        PROVE  LockInv'
    BY <1>1 DEF Request
  <1>2. ASSUME NEW c \in Connection, LockMessage(c) PROVE LockInv'
    BY <1>2 DEF LockMessage
  <1>3. ASSUME NEW c \in Connection, LoadFile(c) PROVE LockInv'
    BY <1>3 DEF LoadFile
  <1>4. ASSUME NEW c \in Connection, Account(c) PROVE LockInv'
    BY <1>4 DEF Account
  <1>5. ASSUME NEW c \in Connection, NEW m \in Message, ClearMessage(c, m)
        PROVE  LockInv'
    BY <1>5 DEF ClearMessage
  <1>6. ASSUME NEW c \in Connection, AccountCleared(c) PROVE LockInv'
    BY <1>6 DEF AccountCleared
  <1>7. ASSUME NEW c \in Connection, UnlockMessage(c) PROVE LockInv'
    BY <1>7 DEF UnlockMessage
  <1>8. ASSUME NEW c \in Connection, Finish(c) PROVE LockInv'
    BY <1>8 DEF Finish
  <1>9. CASE UNCHANGED vars
    BY <1>9 DEF vars
  <1> QED
    BY <1>1, <1>2, <1>3, <1>4, <1>5, <1>6, <1>7, <1>8, <1>9 DEF Next, Work

\* Without unreadable files the loop over the map waits only for a connection
\* that needs nothing more to release its lock (fill against the loop of
\* clearBackendMessageMemoryIfNeeded).
THEOREM LocksAreNotCyclic == MayFail = {} => (Spec => []NoLockCycle)
  <1> SUFFICES ASSUME MayFail = {} PROVE Spec => []NoLockCycle
    OBVIOUS
  <1>1. LockInv => NoLockCycle
    BY NoOneAssumption DEF LockInv, NoLockCycle
  <1>2. LockInv /\ [Next]_vars => LockInv'
    BY LockInvNext
  <1> QED
    BY <1>1, <1>2, LockInvInit, PTL DEF Spec

-----------------------------------------------------------------------------
(* The books.                                                              *)

\* No message, no bytes.
LEMMA BytesOfNone == IsFiniteSet(BytesIn({})) /\ Bytes({}) = 0
  <1>1. BytesIn({}) = {}
    BY DEF BytesIn
  <1> QED
    BY <1>1, FS_EmptySet DEF Bytes

\* A message adds its size to what the others take up.
LEMMA BytesOfOneMore ==
  ASSUME NEW S \in SUBSET Message, IsFiniteSet(BytesIn(S)), NEW m \in Message \ S
  PROVE  /\ IsFiniteSet(BytesIn(S \cup {m}))
         /\ Bytes(S \cup {m}) = Bytes(S) + Size[m]
  <1> DEFINE I == 1..Size[m]
             B == {m} \X I
  <1>1. Size[m] \in Nat
    BY SizeAssumption
  <1>2. IsFiniteSet(I) /\ Cardinality(I) = Size[m]
    BY <1>1, FS_Interval
  <1>3. IsFiniteSet({m}) /\ Cardinality({m}) = 1
    BY FS_Singleton
  <1> HIDE DEF I
  <1>4. IsFiniteSet(B) /\ Cardinality(B) = Size[m]
    BY <1>1, <1>2, <1>3, FS_Product
  <1>5. BytesIn(S \cup {m}) = BytesIn(S) \cup B
    BY DEF BytesIn, I
  <1>6. BytesIn(S) \cap B = {}
    <2>1. \A b \in BytesIn(S) : b[1] \in S
      BY DEF BytesIn
    <2>2. \A b \in B : b[1] = m
      OBVIOUS
    <2> QED
      BY <2>1, <2>2
  <1> HIDE DEF B
  <1>7. IsFiniteSet(BytesIn(S)) /\ Cardinality(BytesIn(S)) \in Nat
    BY FS_CardinalityType
  <1>8. /\ IsFiniteSet(BytesIn(S) \cup B)
        /\ Cardinality(BytesIn(S) \cup B) =
             Cardinality(BytesIn(S)) + Cardinality(B) - Cardinality(BytesIn(S) \cap B)
    BY <1>4, <1>7, FS_Union
  <1>9. Cardinality(BytesIn(S) \cap B) = 0
    BY <1>6, FS_EmptySet
  <1>10. Cardinality(BytesIn(S) \cup B) = Cardinality(BytesIn(S)) + Size[m]
    BY <1>1, <1>4, <1>7, <1>8, <1>9
  <1> QED
    BY <1>5, <1>8, <1>10 DEF Bytes

\* One message takes up its size.
LEMMA BytesOfOne ==
  ASSUME NEW m \in Message
  PROVE  IsFiniteSet(BytesIn({m})) /\ Bytes({m}) = Size[m]
  <1>1. BytesIn({}) = {} /\ {} \cup {m} = {m} /\ m \in Message \ {}
    BY DEF BytesIn
  <1>2. /\ IsFiniteSet(BytesIn({} \cup {m}))
        /\ Bytes({} \cup {m}) = Bytes({}) + Size[m]
    BY <1>1, BytesOfNone, BytesOfOneMore
  <1>3. IsFiniteSet(BytesIn({m})) /\ Bytes({m}) = Bytes({}) + Size[m]
    BY <1>1, <1>2
  <1>4. Size[m] \in Nat
    BY SizeAssumption
  <1> QED
    BY <1>3, <1>4, BytesOfNone

\* Fewer messages take up no more.
LEMMA BytesOfFewer ==
  ASSUME NEW S, IsFiniteSet(BytesIn(S)), NEW T \in SUBSET S
  PROVE  /\ IsFiniteSet(BytesIn(T)) /\ Bytes(T) <= Bytes(S)
         /\ Bytes(S) \in Nat /\ Bytes(T) \in Nat
  <1>1. BytesIn(T) \in SUBSET BytesIn(S)
    BY DEF BytesIn
  <1>2. IsFiniteSet(BytesIn(T)) /\ Cardinality(BytesIn(T)) <= Cardinality(BytesIn(S))
    BY <1>1, FS_Subset
  <1>3. Cardinality(BytesIn(T)) \in Nat /\ Cardinality(BytesIn(S)) \in Nat
    BY <1>2, FS_CardinalityType
  <1> QED
    BY <1>2, <1>3 DEF Bytes

\* The lock of the books is held by the one that clears them, alone. What is in
\* memory is on the books or about to be, with its size.
BooksInv ==
    /\ \A c \in Connection : memLock = c <=> pc[c] = "evict"
    /\ filled \subseteq messages \cup InFlight
    /\ \A c \in Connection :
         pc[c] \in {"account", "evict"} => newSize[c] = Size[cur[c]]
    /\ newSize \in [Connection -> Nat]
    /\ messages \subseteq Message
    /\ IsFiniteSet(BytesIn(messages))
    /\ memLock = NoOne => knownBytes = Bytes(messages)
    /\ Bytes(messages) <= maxBytes \/ \E m \in Message : messages = {m}

\* There is nothing on the books before the first request.
LEMMA BooksInvInit == Init => BooksInv
  BY BytesOfNone, NoOneAssumption, SizeAssumption DEF Init, BooksInv

\* A step that leaves the books alone.
LEMMA BooksStay ==
  ASSUME BooksInv, UNCHANGED cacheVars, newSize' \in [Connection -> Nat],
         \A c \in Connection : pc'[c] = "evict" <=> pc[c] = "evict",
         filled' \subseteq messages \cup InFlight',
         \A c \in Connection :
           pc'[c] \in {"account", "evict"} => newSize'[c] = Size[cur'[c]]
  PROVE  BooksInv'
  BY DEF BooksInv, cacheVars, Bytes, BytesIn

\* The books stay right: a message is entered with its size, once, by the
\* connection that has read its file (fill, clearBackendMessageMemoryIfNeeded).
LEMMA BooksInvNext ==
  MayFail = {} /\ LockInv /\ BooksInv /\ [Next]_vars => BooksInv'
  <1> SUFFICES ASSUME MayFail = {}, LockInv, BooksInv, [Next]_vars PROVE BooksInv'
    OBVIOUS
  <1>0. /\ pc \in [Connection ->
               {"idle", "fill", "load", "account", "evict", "failed", "unlock", "read"}]
        /\ cur \in [Connection -> Message \cup {NoOne}]
        /\ \A c \in Connection : pc[c] # "idle" => cur[c] \in Message
        /\ \A c \in Connection :
             pc[c] \in {"load", "account", "evict"} => cur[c] \notin messages
        /\ filled \subseteq messages \cup InFlight
        /\ newSize \in [Connection -> Nat]
        /\ \A c \in Connection :
             pc[c] \in {"account", "evict"} => newSize[c] = Size[cur[c]]
    BY DEF LockInv, BooksInv
  <1> USE DEF Goto
  <1>1. ASSUME NEW c \in Connection, NEW m \in Message, Request(c, m)
        PROVE  BooksInv'
    <2>1. InFlight' = InFlight
      BY <1>0, <1>1 DEF Request, InFlight
    <2> QED
      BY <1>0, <1>1, <2>1, BooksStay DEF Request
  <1>2. ASSUME NEW c \in Connection, LockMessage(c) PROVE BooksInv'
    <2>1. InFlight' = InFlight
      BY <1>0, <1>2 DEF LockMessage, InFlight
    <2> QED
      BY <1>0, <1>2, <2>1, BooksStay DEF LockMessage
  <1>3. ASSUME NEW c \in Connection, LoadFile(c) PROVE BooksInv'
    <2>1. InFlight' = InFlight \cup {cur[c]}
      BY <1>0, <1>3 DEF LoadFile, InFlight
    <2>2. cur[c] \in Message /\ Size[cur[c]] \in Nat
      BY <1>0, <1>3, SizeAssumption DEF LoadFile
    <2>3. /\ newSize' = [newSize EXCEPT ![c] = Size[cur[c]]]
          /\ filled' = filled \cup {cur[c]}
      BY <1>3 DEF LoadFile
    <2> QED
      BY <1>0, <1>3, <2>1, <2>2, <2>3, BooksStay DEF LoadFile
  <1>4. ASSUME NEW c \in Connection, Account(c) PROVE BooksInv'
    <2>1. cur[c] \in Message \ messages /\ newSize[c] = Size[cur[c]]
      BY <1>0, <1>4 DEF Account
    <2>2. CASE Fits(c)
      <3>1. /\ messages' = messages \cup {cur[c]}
            /\ knownBytes' = knownBytes + newSize[c]
            /\ UNCHANGED <<memLock, filled, cur, newSize>>
            /\ pc' = [pc EXCEPT ![c] = "unlock"] /\ memLock = NoOne
        BY <1>4, <2>1, <2>2 DEF Account
      <3>2. InFlight \subseteq InFlight' \cup {cur[c]}
        BY <1>0, <3>1 DEF InFlight
      <3>3. /\ IsFiniteSet(BytesIn(messages'))
            /\ Bytes(messages') = Bytes(messages) + Size[cur[c]]
        BY <2>1, <3>1, BytesOfOneMore DEF BooksInv
      <3>4. knownBytes' = Bytes(messages') /\ Bytes(messages') <= maxBytes
        BY <2>1, <2>2, <3>1, <3>3, BytesOfFewer, SizeAssumption DEF BooksInv, Fits
      <3>5. \A d \in Connection : memLock' = d <=> pc'[d] = "evict"
        BY <1>0, <1>4, <3>1, NoOneAssumption DEF BooksInv, Account
      <3> QED
        BY <1>0, <2>1, <3>1, <3>2, <3>3, <3>4, <3>5 DEF BooksInv, Bytes, BytesIn
    <2>3. CASE ~Fits(c)
      <3>1. /\ UNCHANGED <<knownBytes, messages, filled, cur, newSize>>
            /\ pc' = [pc EXCEPT ![c] = "evict"] /\ memLock = NoOne /\ memLock' = c
            /\ pc[c] = "account"
        BY <1>4, <2>1, <2>3 DEF Account
      <3>2. InFlight' = InFlight
        BY <1>0, <3>1 DEF InFlight
      <3>3. \A d \in Connection : memLock' = d <=> pc'[d] = "evict"
        BY <1>0, <3>1, NoOneAssumption DEF BooksInv
      <3>4. memLock' # NoOne
        BY <3>1, NoOneAssumption
      <3> QED
        BY <1>0, <3>1, <3>2, <3>3, <3>4 DEF BooksInv, Bytes, BytesIn
    <2> QED
      BY <2>2, <2>3
  <1>5. ASSUME NEW c \in Connection, NEW m \in Message, ClearMessage(c, m)
        PROVE  BooksInv'
    <2>1. /\ filled' = filled \ {m} /\ messages' = messages \ {m}
          /\ UNCHANGED <<memLock, pc, cur, newSize>> /\ memLock # NoOne
      BY <1>0, <1>5, NoOneAssumption DEF ClearMessage, BooksInv
    <2>2. InFlight' = InFlight
      BY <2>1 DEF InFlight
    <2>3. /\ IsFiniteSet(BytesIn(messages')) /\ Bytes(messages') <= Bytes(messages)
          /\ Bytes(messages) \in Nat /\ Bytes(messages') \in Nat
      BY <2>1, BytesOfFewer DEF BooksInv
    <2>4. Bytes(messages') <= maxBytes \/ \E n \in Message : messages' = {n}
      <3>1. CASE Bytes(messages) <= maxBytes
        BY <2>3, <3>1, SizeAssumption
      <3>2. CASE \E n \in Message : messages = {n}
        <4>1. messages' = {}
          BY <1>5, <2>1, <3>2 DEF ClearMessage
        <4> QED
          BY <4>1, BytesOfNone, SizeAssumption
      <3> QED
        BY <3>1, <3>2 DEF BooksInv
    <2> QED
      BY <1>0, <2>1, <2>2, <2>3, <2>4 DEF BooksInv, Bytes, BytesIn
  <1>6. ASSUME NEW c \in Connection, AccountCleared(c) PROVE BooksInv'
    <2>1. /\ messages = {} /\ messages' = {cur[c]} /\ knownBytes' = newSize[c]
          /\ memLock' = NoOne /\ pc' = [pc EXCEPT ![c] = "unlock"] /\ pc[c] = "evict"
          /\ UNCHANGED <<filled, cur, newSize>>
      BY <1>6 DEF AccountCleared
    <2>2. cur[c] \in Message \ messages /\ newSize[c] = Size[cur[c]]
      BY <1>0, <2>1
    <2>3. /\ IsFiniteSet(BytesIn({cur[c]})) /\ Bytes({cur[c]}) = newSize[c]
      BY <2>2, BytesOfOne
    <2>4. IsFiniteSet(BytesIn(messages')) /\ Bytes(messages') = newSize[c]
      BY <2>1, <2>3
    <2>5. InFlight \subseteq InFlight' \cup {cur[c]}
      BY <1>0, <2>1 DEF InFlight
    <2>6. \A d \in Connection : memLock' = d <=> pc'[d] = "evict"
      BY <1>0, <2>1, NoOneAssumption DEF BooksInv
    <2> QED
      BY <1>0, <2>1, <2>2, <2>4, <2>5, <2>6 DEF BooksInv, Bytes, BytesIn
  <1>7. ASSUME NEW c \in Connection, UnlockMessage(c) \/ Finish(c) PROVE BooksInv'
    <2>1. InFlight' = InFlight
      BY <1>0, <1>7 DEF UnlockMessage, Finish, InFlight
    <2> QED
      BY <1>0, <1>7, <2>1, BooksStay DEF UnlockMessage, Finish
  <1>8. CASE UNCHANGED vars
    BY <1>8 DEF vars, cacheVars, BooksInv, InFlight, Bytes, BytesIn
  <1> QED
    BY <1>1, <1>2, <1>3, <1>4, <1>5, <1>6, <1>7, <1>8 DEF Next, Work

\* Between two calls of clearBackendMessageMemoryIfNeeded knownBytes is the size of
\* what is in the map, and nothing else is kept but what is just being filled.
THEOREM BooksAreBalanced == MayFail = {} => (Spec => []BooksBalance)
  <1> SUFFICES ASSUME MayFail = {} PROVE Spec => []BooksBalance
    OBVIOUS
  <1>1. BooksInv => BooksBalance
    BY DEF BooksInv, BooksBalance
  <1>2. LockInv /\ [Next]_vars => LockInv'
    BY LockInvNext
  <1>3. LockInv /\ BooksInv /\ [Next]_vars => BooksInv'
    BY BooksInvNext
  <1> QED
    BY <1>1, <1>2, <1>3, LockInvInit, BooksInvInit, PTL DEF Spec

\* A connection that waits for a lock.
Waits(c) ==
    \/ pc[c] = "fill" /\ lock[cur[c]] # NoOne
    \/ pc[c] = "account" /\ memLock # NoOne
    \/ pc[c] = "evict" /\ messages # {} /\ \A m \in messages : lock[m] # NoOne

\* Where one waits, another one is at work that does not.
SomebodyWorks ==
    \A c \in Connection :
      Waits(c) => \E d \in Connection : pc[d] # "idle" /\ ~Waits(d)

\* From whoever waits one comes by the locks' holders to one that does not: from the
\* message's to the books', and from there to one that is about to unlock.
LEMMA HoldersWork ==
  ASSUME TypeInv, LockInv, BooksInv, NoLockCycle
  PROVE  SomebodyWorks
  <1> DEFINE Works(d) == pc[d] # "idle" /\ ~Waits(d)
  <1>1. ASSUME NEW d \in Connection, pc[d] \in {"load", "unlock"} PROVE Works(d)
    BY <1>1 DEF Waits
  <1>2. ASSUME NEW c \in Connection, pc[c] = "evict"
        PROVE  \E d \in Connection : Works(d)
    <2>1. CASE Waits(c)
      <3>1. PICK m \in messages : lock[m] # NoOne
        BY <1>2, <2>1 DEF Waits
      <3>2. m \in Message
        BY <3>1 DEF BooksInv
      <3>3. lock[m] \in Connection /\ pc[lock[m]] = "unlock"
        BY <1>2, <3>1, <3>2 DEF NoLockCycle, LockInv
      <3> QED
        BY <1>1, <3>3
    <2>2. CASE ~Waits(c)
      BY <1>2, <2>2
    <2> QED
      BY <2>1, <2>2
  <1>3. ASSUME NEW c \in Connection, pc[c] = "account"
        PROVE  \E d \in Connection : Works(d)
    <2>1. CASE memLock = NoOne
      BY <1>3, <2>1 DEF Waits
    <2>2. CASE memLock # NoOne
      <3>1. memLock \in Connection
        BY <2>2 DEF TypeInv, TypeOK
      <3>2. pc[memLock] = "evict"
        BY <3>1 DEF BooksInv
      <3> QED
        BY <1>2, <3>1, <3>2
    <2> QED
      BY <2>1, <2>2
  <1>4. ASSUME NEW c \in Connection, pc[c] = "fill", lock[cur[c]] # NoOne
        PROVE  \E d \in Connection : Works(d)
    <2>1. cur[c] \in Message
      BY <1>4 DEF LockInv
    <2>2. /\ lock[cur[c]] \in Connection
          /\ pc[lock[cur[c]]] \in {"load", "account", "evict", "unlock"}
      BY <1>4, <2>1 DEF LockInv
    <2> QED
      BY <1>1, <1>2, <1>3, <2>2
  <1> HIDE DEF Works
  <1>5. ASSUME NEW c \in Connection, Waits(c) PROVE \E d \in Connection : Works(d)
    BY <1>2, <1>3, <1>4, <1>5 DEF Waits
  <1> QED
    BY <1>5 DEF SomebodyWorks, Works

\* However many connections ask for messages, they do not all wait for each other's
\* locks (fill, clear and clearBackendMessageMemoryIfNeeded).
THEOREM ConnectionsNeverStuck == MayFail = {} => (Spec => []SomebodyWorks)
  <1> SUFFICES ASSUME MayFail = {} PROVE Spec => []SomebodyWorks
    OBVIOUS
  <1>1. Init => TypeInv
    BY SizeAssumption DEF Init, TypeInv, TypeOK
  <1>2. LockInv /\ [Next]_vars => LockInv'
    BY LockInvNext
  <1>3. LockInv /\ BooksInv /\ [Next]_vars => BooksInv'
    BY BooksInvNext
  <1>4. LockInv => NoLockCycle
    BY NoOneAssumption DEF LockInv, NoLockCycle
  <1>5. TypeInv /\ LockInv /\ BooksInv => SomebodyWorks
    BY <1>4, HoldersWork
  <1> QED
    BY <1>1, <1>2, <1>3, <1>5, TypeInvNext, LockInvInit, BooksInvInit, PTL DEF Spec

\* What is kept never exceeds maxBytes, but for a single message that is larger by
\* itself (clearBackendMessageMemoryIfNeeded).
THEOREM MemoryIsBounded == MayFail = {} => (Spec => []MemoryBounded)
  <1> SUFFICES ASSUME MayFail = {} PROVE Spec => []MemoryBounded
    OBVIOUS
  <1>1. BooksInv => MemoryBounded
    <2> SUFFICES ASSUME BooksInv
                 PROVE  LET kept == filled \ InFlight IN
                        Bytes(kept) <= maxBytes \/ Cardinality(kept) = 1
      BY DEF MemoryBounded
    <2> DEFINE kept == filled \ InFlight
    <2>1. kept \in SUBSET messages
      BY DEF BooksInv
    <2> HIDE DEF kept
    <2>2. /\ Bytes(kept) <= Bytes(messages)
          /\ Bytes(kept) \in Nat /\ Bytes(messages) \in Nat
      BY <2>1, BytesOfFewer DEF BooksInv
    <2>3. CASE Bytes(messages) <= maxBytes
      BY <2>2, <2>3, SizeAssumption DEF kept
    <2>4. CASE \E m \in Message : messages = {m}
      <3>1. PICK m \in Message : messages = {m}
        BY <2>4
      <3>2. CASE kept = {}
        BY <3>2, BytesOfNone, SizeAssumption DEF kept
      <3>3. CASE kept = {m}
        BY <3>3, FS_Singleton DEF kept
      <3> QED
        BY <2>1, <3>1, <3>2, <3>3
    <2> QED
      BY <2>3, <2>4 DEF BooksInv
  <1>2. LockInv /\ [Next]_vars => LockInv'
    BY LockInvNext
  <1>3. LockInv /\ BooksInv /\ [Next]_vars => BooksInv'
    BY BooksInvNext
  <1> QED
    BY <1>1, <1>2, <1>3, LockInvInit, BooksInvInit, PTL DEF Spec
=============================================================================
