----------------------------- MODULE EmailFields ----------------------------
(***************************************************************************)
(* rfc822FromEmail: the text, the UID and the time of a message are picked *)
(* from the flat list of fields the client library makes of the server's   *)
(* reply. Nothing in the list says which field is which: each is told by   *)
(* its type, and by the fields that came before.                           *)
(*                                                                         *)
(* A field is "uid" (a uint32), "time", "name" (an imap.RawString), or     *)
(* anything else, of which only counts whether it mentions "rfc822": a     *)
(* "mention" is the name of the text's section, or a text that quotes one. *)
(***************************************************************************)
EXTENDS Integers, Sequences, SequencesExt

CONSTANT MaxFields  \* bound: fields of a reply

rfc822ExpectedNumFields == 6
FieldKind == {"uid", "time", "name", "plain", "mention"}
None == 0

VARIABLES
    len,     \* the number of fields
    fields,  \* those looked at so far
    email,   \* the position of the field each member was set from, or None
    outcome  \* of rfc822FromEmail: "none", "text" or "error"

emailVars == <<len, fields, email, outcome>>

EmailTypeOK ==
    /\ len \in 0..MaxFields
    /\ fields \in Seq(FieldKind) /\ Len(fields) <= len
    /\ email \in [{"uid", "timestamp", "header", "rfc822"} -> 0..MaxFields]
    /\ outcome \in {"none", "text", "error"}

EmailInit ==
    /\ len \in 0..MaxFields
    /\ fields = << >>
    /\ email = [uid |-> None, timestamp |-> None, header |-> None, rfc822 |-> None]
    /\ outcome = IF len = rfc822ExpectedNumFields THEN "none" ELSE "error"

\* A member that has been set must not be set again.
SetOnce(member, i) ==
    IF email[member] = None
    THEN email' = [email EXCEPT ![member] = i] /\ UNCHANGED outcome
    ELSE outcome' = "error" /\ UNCHANGED email

\* Mutant: a header is whatever mentions rfc822.
SetOther_EveryMention(kind, i) ==
    IF kind = "mention" THEN SetOnce("header", i) ELSE SetOnce("rfc822", i)

\* The first of the others has to be the header, the second is the text.
SetOther(kind, i) ==
    IF email.header # None THEN SetOnce("rfc822", i)
    ELSE IF kind = "mention" THEN SetOnce("header", i)
    ELSE outcome' = "error" /\ UNCHANGED email

\* email.set of the next field.
SetField(kind) ==
    LET i == Len(fields) + 1 IN
    /\ outcome = "none" /\ i <= len
    /\ fields' = Append(fields, kind)
    /\ CASE kind = "uid" -> SetOnce("uid", i)
         [] kind = "time" -> SetOnce("timestamp", i)
         [] kind = "name" -> UNCHANGED <<email, outcome>>
         [] OTHER -> SetOther(kind, i)
    /\ UNCHANGED len

\* Mutant: the time is not asked for.
Validate_Untimed == email.uid # None /\ email.rfc822 # None

Validate == email.uid # None /\ email.timestamp # None /\ email.rfc822 # None

FinishEmail ==
    /\ outcome = "none" /\ Len(fields) = len
    /\ outcome' = IF Validate THEN "text" ELSE "error"
    /\ UNCHANGED <<len, fields, email>>

EmailNext == FinishEmail \/ \E kind \in FieldKind : SetField(kind)

EmailSpec == EmailInit /\ [][EmailNext]_emailVars

-----------------------------------------------------------------------------
(***************************************************************************)
(* Properties. The library writes every item it asked for as its name      *)
(* followed by its value, in an order of its own.                          *)
(***************************************************************************)
UidItem == <<"name", "uid">>
TimeItem == <<"name", "time">>
TextItems == {<<"mention", "plain">>, <<"mention", "mention">>}
\* A section the server did not send has a raw name and a nil value.
OtherItem == <<"name", "plain">>

Items == {UidItem, TimeItem, OtherItem} \cup TextItems

\* Replies to a request for three items.
Replies == {<<a, b, c>> : a \in Items, b \in Items, c \in Items}

Written(reply) == reply[1] \o reply[2] \o reply[3]

Complete(reply) ==
    /\ {UidItem, TimeItem} \subseteq ToSet(reply)
    /\ ToSet(reply) \cap TextItems # {}

\* Every reply that has the three items, in any order, and whatever the text
\* quotes, is stored with its own text, and no other reply of three items is
\* (rfc822FromEmail, email.set).
RepliesToldApart ==
    \A reply \in Replies :
      len = rfc822ExpectedNumFields /\ IsPrefix(fields, Written(reply)) =>
        /\ Complete(reply) => outcome # "error"
        /\ outcome = "text" =>
             /\ Complete(reply)
             /\ \E i \in 1..3 : reply[i] \in TextItems /\ email.rfc822 = 2 * i

\* A list that is not of this form, as a server may cause, is never stored with
\* a header for its text, or with the UID or the time of another message: what
\* is stored has one of each, and its text is not the only field that is
\* neither a name, a UID nor a time.
NothingGuessed ==
    outcome = "text" =>
      LET others == {i \in DOMAIN fields : fields[i] \in {"plain", "mention"}} IN
      /\ Cardinality({i \in DOMAIN fields : fields[i] = "uid"}) = 1
      /\ Cardinality({i \in DOMAIN fields : fields[i] = "time"}) = 1
      /\ Cardinality(others) = 2
      /\ \E h \in others : /\ fields[h] = "mention" /\ h < email.rfc822
                           /\ others = {h, email.rfc822}
=============================================================================
