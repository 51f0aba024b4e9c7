---------------------------- MODULE RequestPaths ----------------------------
(***************************************************************************)
(* Request paths and the walk from a path towards the root, as             *)
(* findParentLocked (endpoint/registry.go) and addDynamicEndpoint          *)
(* (tui/model.go) make it.  A path is the sequence of its segments: "/" is *)
(* <<>>, and path.Dir drops the last segment.                              *)
(***************************************************************************)
EXTENDS Integers, Sequences, FiniteSets, FiniteSetsExt

Root == <<>>

(* The lengths of the proper ancestors of path that are in S. *)
AncestorsIn(path, S) == {n \in 0 .. Len(path) - 1 : SubSeq(path, 1, n) \in S}

(* The nearest proper ancestor of path in S; there must be one. *)
NearestIn(path, S) == SubSeq(path, 1, Max(AncestorsIn(path, S)))
=============================================================================
