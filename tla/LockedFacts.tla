----------------------------- MODULE LockedFacts -----------------------------
(***************************************************************************)
(* What the programs that share collection.lock promise each other: the    *)
(* lock is taken when it is free and given back by its owner, and the      *)
(* published facts change only while it is owned, by its owner.  Whoever   *)
(* owns it may therefore read, compare and replace them as if it were      *)
(* alone.                                                                  *)
(***************************************************************************)
CONSTANTS
  Holders,   \* who may own the lock
  Sources,   \* the published facts
  NoOne      \* nobody owns the lock, nothing published by a holder

VARIABLES
  owner,     \* of the lock
  publisher  \* of every source: who published it last

Init == owner = NoOne /\ publisher = [s \in Sources |-> NoOne]

\* The owner has published none, some or all of the sources.
Replaced == {p \in [Sources -> Holders \cup {NoOne}] :
               \A s \in Sources : p[s] \in {publisher[s], owner}}

Take ==
  /\ owner = NoOne
  /\ owner' \in Holders
  /\ publisher' = publisher

Publish ==
  /\ owner \in Holders
  /\ owner' = owner
  /\ publisher' \in Replaced

\* A process that is stopped gives the lock back with its last publication.
Release ==
  /\ owner \in Holders
  /\ owner' = NoOne
  /\ publisher' \in Replaced

Next == Take \/ Publish \/ Release

Spec == Init /\ [][Next]_<<owner, publisher>>
=============================================================================
