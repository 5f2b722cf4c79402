--------------------------- MODULE MCVacatedPaths ---------------------------
(* FileMoves for TLC, with the paths that relocations have vacated.         *)
EXTENDS MCFileMoves

\* History: the paths whose copy a relocation took, and that nothing was copied to since.
VARIABLE vacated

Vacate ==
    vacated' = {p \in Path : /\ row'[p].status = "tombstoned"
                             /\ p \in vacated \/ row'[p].moved # Nothing}

VacatedSpec == Init /\ vacated = {} /\ [][Next /\ Vacate]_<<vars, vacated>>

\* The removal half of a rename never becomes an erasure: whenever a pass looks at
\* a file that lies on a path a relocation vacated, it takes the file in hand to
\* copy it (domain-sync.ts, the two kinds of tombstone).
VacatedIsCopiedTo ==
    [][\A p \in vacated : p \in pass'.seen \ pass.seen
         => \E h \in pass'.hand : h.path = p]_<<vars, vacated>>
=============================================================================
