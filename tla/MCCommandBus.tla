---------------------------- MODULE MCCommandBus ----------------------------
EXTENDS CommandBus

\* Ids and keys are only names and nothing forces their choice, so that every
\* behaviour is one of those below with some of them exchanged: a new command
\* takes the id and the key that CHOOSE picks of the unused ones.
NamesInOrder ==
  \A i \in Ids \ Created : rows'[i] # None =>
    /\ i = CHOOSE j \in Ids : rows[j] = None
    /\ rows'[i].key = CHOOSE k \in Keys : \A j \in Created : rows[j].key # k
=============================================================================
