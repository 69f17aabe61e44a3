------------------------------- MODULE Backup -------------------------------
(***************************************************************************)
(* What a maildir and its oldmail file promise together, without the       *)
(* goroutines, channels and servers that keep the promise: a message is    *)
(* stored, waits for its line, and is remembered, in that order and one    *)
(* after the other; what is remembered is not stored again.                *)
(***************************************************************************)
EXTENDS Naturals, Sequences

CONSTANT Message

VARIABLES
    copies,      \* copies of each message in the maildir
    remembered,  \* the messages the next run will pass over
    pending,     \* messages stored but not yet remembered, oldest first
    broken       \* a write has failed: nothing more is remembered

vars == <<copies, remembered, pending, broken>>

IsPending(m) == \E i \in 1..Len(pending) : pending[i] = m

Init ==
    /\ copies = [m \in Message |-> 0]
    /\ remembered = {}
    /\ pending = <<>>
    /\ broken = FALSE

Store(m) ==
    /\ m \notin remembered /\ ~IsPending(m)
    /\ copies' = [copies EXCEPT ![m] = @ + 1]
    /\ pending' = Append(pending, m)
    /\ UNCHANGED <<remembered, broken>>

Remember ==
    /\ pending # <<>> /\ ~broken
    /\ remembered' = remembered \cup {Head(pending)}
    /\ pending' = Tail(pending)
    /\ UNCHANGED <<copies, broken>>

\* The line of the oldest pending message may or may not be readable, and an
\* unfinished line before it is spoiled.
Fail ==
    /\ ~broken /\ broken' = TRUE
    /\ IF pending = <<>> THEN UNCHANGED <<remembered, pending>>
       ELSE /\ pending' = Tail(pending)
            /\ \/ UNCHANGED remembered
               \/ remembered' = remembered \cup {Head(pending)}
               \/ \E m \in remembered : remembered' = remembered \ {m}
    /\ UNCHANGED copies

\* A line written after an unfinished one: neither can be read any more.
Spoil(m) ==
    /\ pending # <<>> /\ ~broken
    /\ m \in remembered
    /\ remembered' = remembered \ {m}
    /\ pending' = Tail(pending)
    /\ UNCHANGED <<copies, broken>>

Skip ==
    /\ pending # <<>> /\ broken
    /\ pending' = Tail(pending)
    /\ UNCHANGED <<copies, remembered, broken>>

\* The process is gone, and with it all it had not yet written.
Restart ==
    /\ pending' = <<>> /\ broken' = FALSE
    /\ UNCHANGED <<copies, remembered>>

Next ==
    \/ \E m \in Message : Store(m) \/ Spoil(m)
    \/ Remember \/ Fail \/ Skip \/ Restart

Spec == Init /\ [][Next]_vars
=============================================================================
