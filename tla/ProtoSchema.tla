---------------------------- MODULE ProtoSchema ----------------------------
(***************************************************************************)
(* Every message of the system, by package and name.                       *)
(***************************************************************************)
EXTENDS PbMetapb, PbEraftpb, PbErrorpb, PbCoprocessor, PbKvrpcpb, PbRaftCmdpb, PbRaftServerpb,
        PbSchedulerpb, TLC

Schema ==
    metapb_Messages @@ eraftpb_Messages @@ errorpb_Messages @@ coprocessor_Messages @@
    kvrpcpb_Messages @@ raft_cmdpb_Messages @@ raft_serverpb_Messages @@ schedulerpb_Messages
=============================================================================
