----------------------------- MODULE FolderSpecs ----------------------------
(***************************************************************************)
(* expandFolders: the folder specs of the command line are interpreted one *)
(* after the other on an orderedSet of names, what the server does not     *)
(* have is dropped, and the rest is sorted.                                *)
(*                                                                         *)
(* A string is its number of leading dashes and the rest of it, which is a *)
(* selector or anything else. A Gmail prefix counts at the very start.     *)
(***************************************************************************)
EXTENDS Integers, Sequences, SequencesExt

CONSTANTS
    Base,           \* what names are, without their leading dashes
    Gmail,          \* those that begin with a Gmail prefix
    MaxDashes,      \* bound: leading dashes of a spec
    FolderDashes,   \* leading dashes that folders of the server have
    MaxSpecs,       \* bound: number of specs
    Rank            \* the order of sort.Strings on Base

allSelector == "_ALL_"
gmailSelector == "_Gmail_"

ASSUME BaseAssumption ==
    /\ IsFiniteSet(Base) /\ Gmail \subseteq Base
    /\ {allSelector, gmailSelector} \cap Base = {}
    /\ MaxDashes \in Nat /\ MaxSpecs \in Nat
    /\ IsFiniteSet(FolderDashes) /\ FolderDashes \subseteq Nat
ASSUME RankAssumption ==
    /\ Rank \in [Base -> 1..Cardinality(Base)]
    /\ IsInjective(Rank)

Name == [dashes : FolderDashes, base : Base]
FolderSpec == [dashes : 0..MaxDashes, base : Base \cup {allSelector, gmailSelector}]

VARIABLES
    available,  \* the folders of the server, in the order they came in
    specs,      \* the specs interpreted so far
    selected,   \* foldersSet
    folders,    \* the result
    pc

vars == <<available, specs, selected, folders, pc>>

-----------------------------------------------------------------------------
(***************************************************************************)
(* orderedSet: each entry with a number that grows with every new entry.   *)
(***************************************************************************)
newOrderedSet == [data |-> << >>, orderCount |-> 0]

Has(s, key) == key \in DOMAIN s.data

AddEntry(s, key) ==
    IF Has(s, key) THEN s
    ELSE [data |-> [k \in DOMAIN s.data \cup {key} |->
                      IF k = key THEN s.orderCount ELSE s.data[k]],
          orderCount |-> s.orderCount + 1]

\* A loop that adds those of a list that are in a set.
AddEntries(s, order, keys) ==
    LET added[n \in 0..Len(order)] ==
          IF n = 0 THEN s
          ELSE IF order[n] \in keys THEN AddEntry(added[n - 1], order[n])
          ELSE added[n - 1]
    IN  added[Len(order)]

RemoveEntries(s, keys) == [s EXCEPT !.data = Restrict(s.data, DOMAIN s.data \ keys)]

RemoveEntry(s, key) == RemoveEntries(s, {key})

\* orderedEntries sorts by the numbers.
OrderedEntries(s) ==
    CHOOSE order \in SetToSeqs(DOMAIN s.data) :
      \A i, j \in DOMAIN order : i < j => s.data[order[i]] < s.data[order[j]]

\* union keeps what the other set has; it iterates over a map, in any order.
Unions(s, keys) ==
    {AddEntries(newOrderedSet, order, keys) : order \in SetToSeqs(DOMAIN s.data)}

-----------------------------------------------------------------------------
isGmailDir(name) == name.dashes = 0 /\ name.base \in Gmail

TrimDash(name) == [name EXCEPT !.dashes = IF @ = 0 THEN 0 ELSE @ - 1]

IsSelector(spec, selector) == spec = [dashes |-> 0, base |-> selector]

\* Mutant: the two selectors are mixed up.
Expansion_Swapped(spec) ==
    {name \in ToSet(available) : IsSelector(spec, gmailSelector) \/ isGmailDir(name)}

\* The folders of the server a selector stands for.
Expansion(spec) ==
    {name \in ToSet(available) : IsSelector(spec, allSelector) \/ isGmailDir(name)}

IsAnySelector(spec) ==
    IsSelector(spec, allSelector) \/ IsSelector(spec, gmailSelector)

Init ==
    /\ \E S \in SUBSET Name : available \in SetToSeqs(S)
    /\ specs = << >> /\ selected = newOrderedSet /\ folders = << >>
    /\ pc = "loop"

\* A name is trimmed again when it is removed.
RemoveSpec(spec) ==
    /\ spec.dashes > 0
    /\ LET name == TrimDash(spec) IN
         selected' = IF IsAnySelector(name)
                     THEN RemoveEntries(selected, Expansion(name))
                     ELSE RemoveEntry(selected, TrimDash(name))

\* A name need not be one the server has.
AddSpec(spec) ==
    /\ spec.dashes = 0
    /\ selected' = IF IsAnySelector(spec)
                   THEN AddEntries(selected, available, Expansion(spec))
                   ELSE AddEntry(selected, spec)

Interpret(spec) ==
    /\ pc = "loop" /\ Len(specs) < MaxSpecs
    /\ RemoveSpec(spec) \/ AddSpec(spec)
    /\ specs' = Append(specs, spec)
    /\ UNCHANGED <<available, folders, pc>>

\* A dash comes before what other names begin with.
Before(a, b) ==
    a.dashes > b.dashes \/ (a.dashes = b.dashes /\ Rank[a.base] < Rank[b.base])

\* sort.Strings, of names that differ.
SortNames(names) ==
    CHOOSE order \in SetToSeqs(ToSet(names)) :
      \A i, j \in DOMAIN order : i < j => Before(order[i], order[j])

Finish ==
    /\ pc = "loop"
    /\ \E known \in Unions(selected, ToSet(available)) :
         folders' = SortNames(OrderedEntries(known))
    /\ pc' = "done"
    /\ UNCHANGED <<available, specs, selected>>

Next == Finish \/ \E spec \in FolderSpec : Interpret(spec)

Spec == Init /\ [][Next]_vars

-----------------------------------------------------------------------------
(***************************************************************************)
(* Properties.                                                             *)
(***************************************************************************)
\* The types; only folders of the server are ever handed to a thread.
TypeOK ==
    /\ ToSet(available) \subseteq Name
    /\ specs \in Seq(FolderSpec)
    /\ DOMAIN selected.data \subseteq Name \cup FolderSpec
    /\ selected.orderCount \in Nat
    /\ ToSet(folders) \subseteq ToSet(available)
    /\ pc \in {"loop", "done"}

\* What a spec, with or without a minus, is meant to speak of.
Matches(spec, name) ==
    LET what == TrimDash(spec) IN
    IF spec.dashes = 0
    THEN \/ spec.base = allSelector
         \/ spec.base = gmailSelector /\ isGmailDir(name)
         \/ spec = name
    ELSE \/ what = [dashes |-> 0, base |-> allSelector]
         \/ what = [dashes |-> 0, base |-> gmailSelector] /\ isGmailDir(name)
         \/ what = name

\* "specs are interpreted in order": the last spec that speaks of a folder
\* decides, and a folder no spec speaks of is not downloaded. The same specs always
\* give the same list, whatever the order of the server's reply and of map
\* iteration, so that folders go to the same threads (expandFolders).
LastSpecWins ==
    pc = "done" =>
      /\ \A name \in Name :
           name \in ToSet(folders) <=>
             /\ name \in ToSet(available)
             /\ \E i \in DOMAIN specs :
                  /\ specs[i].dashes = 0 /\ Matches(specs[i], name)
                  /\ \A j \in (i + 1)..Len(specs) :
                       specs[j].dashes > 0 => ~Matches(specs[j], name)
      /\ \A i, j \in DOMAIN folders : i < j => Before(folders[i], folders[j])
=============================================================================
