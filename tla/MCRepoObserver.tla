--------------------------- MODULE MCRepoObserver ---------------------------
(***************************************************************************)
(* One repo, two storage daemons with a root each, one move of the repo    *)
(* and one of its shadow.                                                  *)
(***************************************************************************)
EXTENDS RepoObserver

CONSTANTS stad1, stad2

const_RootOf == [p \in Paths |-> p]
const_Prefix == [s \in Stads |-> IF s = stad1 THEN {"p1"} ELSE {"p2"}]
=============================================================================
