---------------------------- MODULE MCAppEvents ----------------------------
(* Finite instances of AppEvents.                                          *)
EXTENDS AppEvents, TLC

\* Plain writers, archiving writers and connections are interchangeable.
Symmetry ==
  Permutations(Writers \ ArchiveWriters) \cup Permutations(ArchiveWriters)
    \cup Permutations(Conns)
=============================================================================
