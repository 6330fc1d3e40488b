------------------------------- MODULE StubRows -------------------------------
(***************************************************************************)
(* The stubs table of SqliteStubStore (caw-index/src/storage/              *)
(* sqlite_store.rs) as a set of rows, and what its statements make of it.  *)
(* Each of them is one statement or one transaction.                       *)
(*                                                                         *)
(* A row keeps the version of the file it was made from, which the code    *)
(* has as summary, hash and byte range.  Embeddings are written and        *)
(* deleted in the transactions of their stubs and are left out.            *)
(***************************************************************************)
EXTENDS Naturals, Sequences, FiniteSets

CONSTANT
    ChunksOf    \* how many chunks each version of a file is cut into

ASSUME RowsAssumption == ChunksOf \in Seq(Nat \ {0}) /\ ChunksOf # <<>>

(* The stubs ingest makes of a file: "path" is the id of a file of one     *)
(* chunk, "path#chunk<i>" of a chunk of several.                           *)
RowsOf(p, version, mtime) ==
    {[path |-> p, chunk |-> i, of |-> ChunksOf[version],
      version |-> version, mtime |-> mtime, stale |-> FALSE] :
        i \in 1..ChunksOf[version]}

Id(row) == IF row.of = 1 THEN <<row.path>> ELSE <<row.path, row.chunk>>

RowsAt(rows, p) == {r \in rows : r.path = p}

DeletePath(rows, p) == rows \ RowsAt(rows, p)

(* Mutant of ReplacePath: the rows are upserted and none is deleted.       *)
UpsertPath(rows, p, items) ==
    {r \in rows : \A i \in items : Id(i) # Id(r)} \cup items

ReplacePath(rows, p, items) == DeletePath(rows, p) \cup items

MarkPathStale(rows, p) ==
    DeletePath(rows, p) \cup {[r EXCEPT !.stale = TRUE] : r \in RowsAt(rows, p)}

StalePaths(rows) == {r.path : r \in {s \in rows : s.stale}}

=============================================================================
