--------------------------- MODULE PbRaftServerpb ---------------------------
(***************************************************************************)
(* The messages of proto/pkg/raft_serverpb, as their generated code sees them.*)
(* One table for each of MarshalTo, Size and Unmarshal of every message;   *)
(* ProtoFields says what an entry is, ProtoWire what it means.             *)
(***************************************************************************)
EXTENDS ProtoFields

raft_serverpb_RaftMessage_MarshalTo == <<
    V("RegionId", "uint64", <<8>>), M("FromPeer", "metapb_Peer", <<18>>),
    M("ToPeer", "metapb_Peer", <<26>>), M("Message", "eraftpb_Message", <<34>>),
    M("RegionEpoch", "metapb_RegionEpoch", <<42>>), V("IsTombstone", "bool", <<48>>),
    B("StartKey", <<58>>), B("EndKey", <<66>>) >>
raft_serverpb_RaftMessage_Size == <<
    V("RegionId", "uint64", 1), M("FromPeer", "metapb_Peer", 1),
    M("ToPeer", "metapb_Peer", 1), M("Message", "eraftpb_Message", 1),
    M("RegionEpoch", "metapb_RegionEpoch", 1), V("IsTombstone", "bool", 2),
    B("StartKey", 1), B("EndKey", 1) >>
raft_serverpb_RaftMessage_Unmarshal == <<
    V("RegionId", "uint64", 1), M("FromPeer", "metapb_Peer", 2),
    M("ToPeer", "metapb_Peer", 3), M("Message", "eraftpb_Message", 4),
    M("RegionEpoch", "metapb_RegionEpoch", 5), V("IsTombstone", "bool", 6),
    B("StartKey", 7), B("EndKey", 8) >>

raft_serverpb_RaftLocalState_MarshalTo == <<
    M("HardState", "eraftpb_HardState", <<10>>), V("LastIndex", "uint64", <<16>>),
    V("LastTerm", "uint64", <<24>>) >>
raft_serverpb_RaftLocalState_Size == <<
    M("HardState", "eraftpb_HardState", 1), V("LastIndex", "uint64", 1),
    V("LastTerm", "uint64", 1) >>
raft_serverpb_RaftLocalState_Unmarshal == <<
    M("HardState", "eraftpb_HardState", 1), V("LastIndex", "uint64", 2),
    V("LastTerm", "uint64", 3) >>

raft_serverpb_RaftApplyState_MarshalTo == <<
    V("AppliedIndex", "uint64", <<8>>),
    M("TruncatedState", "raft_serverpb_RaftTruncatedState", <<18>>) >>
raft_serverpb_RaftApplyState_Size == <<
    V("AppliedIndex", "uint64", 1),
    M("TruncatedState", "raft_serverpb_RaftTruncatedState", 1) >>
raft_serverpb_RaftApplyState_Unmarshal == <<
    V("AppliedIndex", "uint64", 1),
    M("TruncatedState", "raft_serverpb_RaftTruncatedState", 2) >>

raft_serverpb_RaftTruncatedState_MarshalTo == <<
    V("Index", "uint64", <<8>>), V("Term", "uint64", <<16>>) >>
raft_serverpb_RaftTruncatedState_Size == << V("Index", "uint64", 1), V("Term", "uint64", 1) >>
raft_serverpb_RaftTruncatedState_Unmarshal == <<
    V("Index", "uint64", 1), V("Term", "uint64", 2) >>

raft_serverpb_RegionLocalState_MarshalTo == <<
    V("State", "int32", <<8>>), M("Region", "metapb_Region", <<18>>) >>
raft_serverpb_RegionLocalState_Size == <<
    V("State", "int32", 1), M("Region", "metapb_Region", 1) >>
raft_serverpb_RegionLocalState_Unmarshal == <<
    V("State", "int32", 1), M("Region", "metapb_Region", 2) >>

raft_serverpb_StoreIdent_MarshalTo == <<
    V("ClusterId", "uint64", <<8>>), V("StoreId", "uint64", <<16>>) >>
raft_serverpb_StoreIdent_Size == << V("ClusterId", "uint64", 1), V("StoreId", "uint64", 1) >>
raft_serverpb_StoreIdent_Unmarshal == <<
    V("ClusterId", "uint64", 1), V("StoreId", "uint64", 2) >>

raft_serverpb_KeyValue_MarshalTo == << B("Key", <<10>>), B("Value", <<18>>) >>
raft_serverpb_KeyValue_Size == << B("Key", 1), B("Value", 1) >>
raft_serverpb_KeyValue_Unmarshal == << B("Key", 1), B("Value", 2) >>

raft_serverpb_RaftSnapshotData_MarshalTo == <<
    M("Region", "metapb_Region", <<10>>), V("FileSize", "uint64", <<16>>),
    RM("Data", "raft_serverpb_KeyValue", <<26>>),
    M("Meta", "raft_serverpb_SnapshotMeta", <<42>>) >>
raft_serverpb_RaftSnapshotData_Size == <<
    M("Region", "metapb_Region", 1), V("FileSize", "uint64", 1),
    RM("Data", "raft_serverpb_KeyValue", 1), M("Meta", "raft_serverpb_SnapshotMeta", 1) >>
raft_serverpb_RaftSnapshotData_Unmarshal == <<
    M("Region", "metapb_Region", 1), V("FileSize", "uint64", 2),
    RM("Data", "raft_serverpb_KeyValue", 3), M("Meta", "raft_serverpb_SnapshotMeta", 5) >>

raft_serverpb_SnapshotCFFile_MarshalTo == <<
    B("Cf", <<10>>), V("Size_", "uint64", <<16>>), V("Checksum", "uint32", <<24>>) >>
raft_serverpb_SnapshotCFFile_Size == <<
    B("Cf", 1), V("Size_", "uint64", 1), V("Checksum", "uint32", 1) >>
raft_serverpb_SnapshotCFFile_Unmarshal == <<
    B("Cf", 1), V("Size_", "uint64", 2), V("Checksum", "uint32", 3) >>

raft_serverpb_SnapshotMeta_MarshalTo == <<
    RM("CfFiles", "raft_serverpb_SnapshotCFFile", <<10>>) >>
raft_serverpb_SnapshotMeta_Size == << RM("CfFiles", "raft_serverpb_SnapshotCFFile", 1) >>
raft_serverpb_SnapshotMeta_Unmarshal == << RM("CfFiles", "raft_serverpb_SnapshotCFFile", 1) >>

raft_serverpb_SnapshotChunk_MarshalTo == <<
    M("Message", "raft_serverpb_RaftMessage", <<10>>), B("Data", <<18>>) >>
raft_serverpb_SnapshotChunk_Size == <<
    M("Message", "raft_serverpb_RaftMessage", 1), B("Data", 1) >>
raft_serverpb_SnapshotChunk_Unmarshal == <<
    M("Message", "raft_serverpb_RaftMessage", 1), B("Data", 2) >>

raft_serverpb_Done_MarshalTo == <<>>
raft_serverpb_Done_Size == <<>>
raft_serverpb_Done_Unmarshal == <<>>

raft_serverpb_Messages ==
    [ raft_serverpb_RaftMessage |->
          Codec(raft_serverpb_RaftMessage_MarshalTo,
                raft_serverpb_RaftMessage_Size, raft_serverpb_RaftMessage_Unmarshal),
      raft_serverpb_RaftLocalState |->
          Codec(raft_serverpb_RaftLocalState_MarshalTo,
                raft_serverpb_RaftLocalState_Size, raft_serverpb_RaftLocalState_Unmarshal),
      raft_serverpb_RaftApplyState |->
          Codec(raft_serverpb_RaftApplyState_MarshalTo,
                raft_serverpb_RaftApplyState_Size, raft_serverpb_RaftApplyState_Unmarshal),
      raft_serverpb_RaftTruncatedState |->
          Codec(raft_serverpb_RaftTruncatedState_MarshalTo,
                raft_serverpb_RaftTruncatedState_Size, raft_serverpb_RaftTruncatedState_Unmarshal),
      raft_serverpb_RegionLocalState |->
          Codec(raft_serverpb_RegionLocalState_MarshalTo,
                raft_serverpb_RegionLocalState_Size, raft_serverpb_RegionLocalState_Unmarshal),
      raft_serverpb_StoreIdent |->
          Codec(raft_serverpb_StoreIdent_MarshalTo,
                raft_serverpb_StoreIdent_Size, raft_serverpb_StoreIdent_Unmarshal),
      raft_serverpb_KeyValue |->
          Codec(raft_serverpb_KeyValue_MarshalTo,
                raft_serverpb_KeyValue_Size, raft_serverpb_KeyValue_Unmarshal),
      raft_serverpb_RaftSnapshotData |->
          Codec(raft_serverpb_RaftSnapshotData_MarshalTo,
                raft_serverpb_RaftSnapshotData_Size, raft_serverpb_RaftSnapshotData_Unmarshal),
      raft_serverpb_SnapshotCFFile |->
          Codec(raft_serverpb_SnapshotCFFile_MarshalTo,
                raft_serverpb_SnapshotCFFile_Size, raft_serverpb_SnapshotCFFile_Unmarshal),
      raft_serverpb_SnapshotMeta |->
          Codec(raft_serverpb_SnapshotMeta_MarshalTo,
                raft_serverpb_SnapshotMeta_Size, raft_serverpb_SnapshotMeta_Unmarshal),
      raft_serverpb_SnapshotChunk |->
          Codec(raft_serverpb_SnapshotChunk_MarshalTo,
                raft_serverpb_SnapshotChunk_Size, raft_serverpb_SnapshotChunk_Unmarshal),
      raft_serverpb_Done |->
          Codec(raft_serverpb_Done_MarshalTo,
                raft_serverpb_Done_Size, raft_serverpb_Done_Unmarshal)]
=============================================================================
