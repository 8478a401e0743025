----------------------------- MODULE MCCorrelate -----------------------------
(* Two torrents of the same content, the second one known by more hashes;  *)
(* calls that can meet: of one torrent and class, or of one content.       *)
EXTENDS Correlate, TLC

CONSTANTS t1, t2, t3, v1, v2, k1, k2

SameContent == (t1 :> {v1}) @@ (t2 :> {v1, v2})

\* The third torrent has the content of the second.
ThreeTorrents == (t1 :> {v1}) @@ (t2 :> {v2}) @@ (t3 :> {v2})

OneContent == t1 :> {v1}

Request(op, t, key) == [op |-> op, t |-> t, key |-> key]

Serial == {Request("move_storage", t1, k1), Request("rename_file", t1, k1),
           Request("rename_file", t1, k2), Request("scrape_tracker", t1, k1),
           Request("read_piece", t1, k1), Request("read_piece", t1, k2)}
Removals == {Request("delete_files", t, k1) : t \in Torrents}
LiveJobs == {Request("move_storage", t1, k1), Request("scrape_tracker", t1, k1),
             Request("delete_files", t1, k1)}
MoveJobs == {Request("move_storage", t1, k1), Request("delete_files", t1, k1)}
AllJobs == Serial \cup Removals

Symmetry == Permutations(Calls)
==============================================================================
