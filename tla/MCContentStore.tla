--------------------------- MODULE MCContentStore ---------------------------
(* Instances of ContentStore for TLC: who calls what, on which object. *)
EXTENDS ContentStore, TLC

Calls(ws, ops, hs) == [worker : ws, op : ops, hash : hs]

CONSTANTS w1, w2, h1, h2

(* Each object has one writing worker. *)
SerialJobs == Calls({w1}, {"write", "optimized"}, {h1})
                \cup Calls({w2}, {"write"}, {h2})

(* Every method, with writers that collide on one object. *)
SharedJobs == Calls({w1}, {"write", "optimized", "delete"}, {h1})
                \cup Calls({w2}, {"write"}, {h1})
                \cup Calls({w2}, {"stream"}, Hashes)

WriteDelete == Calls(Workers, {"write", "delete"}, Hashes)

Symmetry == Permutations(Inodes)
=============================================================================
