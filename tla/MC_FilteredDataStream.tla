----------------------- MODULE MC_FilteredDataStream -----------------------
(* Small instances of FilteredDataStream for TLC. *)
EXTENDS FilteredDataStream

\* Data in blocks 0 and 2 of any fork: most blocks have no matching data.
SparseFilter == {c \in Cursors : c.number \in {0, 2}}

\* Data only in blocks produced after the first reorganisation.
ForkFilter == {c \in Cursors : c.hash = 1}

MCFilters == {SparseFilter, ForkFilter}

\* Start from genesis, or after block 1.
MCStartCursors == {NoCursor, [number |-> 1, hash |-> 0]}

=============================================================================
