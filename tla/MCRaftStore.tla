---------------------------- MODULE MCRaftStore ----------------------------
(***************************************************************************)
(* RaftStore for TLC: the cluster after its bootstrap, one Region with one *)
(* peer on the first of two stores.                                        *)
(***************************************************************************)
EXTENDS RaftStore

\* bootstrapCluster puts the only peer of the first Region on the first store.
FirstStore == <<"s1">>

\* Four of the membership changes, splits and crashes of the bounds, in any combination.
Few == used.conf + used.split + used.crash <= 4
=============================================================================
