----------------------------- MODULE PbRaftCmdpb ----------------------------
(***************************************************************************)
(* The messages of proto/pkg/raft_cmdpb, as their generated code sees them.*)
(* One table for each of MarshalTo, Size and Unmarshal of every message;   *)
(* ProtoFields says what an entry is, ProtoWire what it means.             *)
(***************************************************************************)
EXTENDS ProtoFields

raft_cmdpb_GetRequest_MarshalTo == << B("Cf", <<10>>), B("Key", <<18>>) >>
raft_cmdpb_GetRequest_Size == << B("Cf", 1), B("Key", 1) >>
raft_cmdpb_GetRequest_Unmarshal == << B("Cf", 1), B("Key", 2) >>

raft_cmdpb_GetResponse_MarshalTo == << B("Value", <<10>>) >>
raft_cmdpb_GetResponse_Size == << B("Value", 1) >>
raft_cmdpb_GetResponse_Unmarshal == << B("Value", 1) >>

raft_cmdpb_PutRequest_MarshalTo == << B("Cf", <<10>>), B("Key", <<18>>), B("Value", <<26>>) >>
raft_cmdpb_PutRequest_Size == << B("Cf", 1), B("Key", 1), B("Value", 1) >>
raft_cmdpb_PutRequest_Unmarshal == << B("Cf", 1), B("Key", 2), B("Value", 3) >>

raft_cmdpb_PutResponse_MarshalTo == <<>>
raft_cmdpb_PutResponse_Size == <<>>
raft_cmdpb_PutResponse_Unmarshal == <<>>

raft_cmdpb_DeleteRequest_MarshalTo == << B("Cf", <<10>>), B("Key", <<18>>) >>
raft_cmdpb_DeleteRequest_Size == << B("Cf", 1), B("Key", 1) >>
raft_cmdpb_DeleteRequest_Unmarshal == << B("Cf", 1), B("Key", 2) >>

raft_cmdpb_DeleteResponse_MarshalTo == <<>>
raft_cmdpb_DeleteResponse_Size == <<>>
raft_cmdpb_DeleteResponse_Unmarshal == <<>>

raft_cmdpb_SnapRequest_MarshalTo == <<>>
raft_cmdpb_SnapRequest_Size == <<>>
raft_cmdpb_SnapRequest_Unmarshal == <<>>

raft_cmdpb_SnapResponse_MarshalTo == << M("Region", "metapb_Region", <<10>>) >>
raft_cmdpb_SnapResponse_Size == << M("Region", "metapb_Region", 1) >>
raft_cmdpb_SnapResponse_Unmarshal == << M("Region", "metapb_Region", 1) >>

raft_cmdpb_Request_MarshalTo == <<
    V("CmdType", "int32", <<8>>), M("Get", "raft_cmdpb_GetRequest", <<18>>),
    M("Put", "raft_cmdpb_PutRequest", <<34>>),
    M("Delete", "raft_cmdpb_DeleteRequest", <<42>>),
    M("Snap", "raft_cmdpb_SnapRequest", <<50>>) >>
raft_cmdpb_Request_Size == <<
    V("CmdType", "int32", 1), M("Get", "raft_cmdpb_GetRequest", 1),
    M("Put", "raft_cmdpb_PutRequest", 1), M("Delete", "raft_cmdpb_DeleteRequest", 1),
    M("Snap", "raft_cmdpb_SnapRequest", 1) >>
raft_cmdpb_Request_Unmarshal == <<
    V("CmdType", "int32", 1), M("Get", "raft_cmdpb_GetRequest", 2),
    M("Put", "raft_cmdpb_PutRequest", 4), M("Delete", "raft_cmdpb_DeleteRequest", 5),
    M("Snap", "raft_cmdpb_SnapRequest", 6) >>

raft_cmdpb_Response_MarshalTo == <<
    V("CmdType", "int32", <<8>>), M("Get", "raft_cmdpb_GetResponse", <<18>>),
    M("Put", "raft_cmdpb_PutResponse", <<34>>),
    M("Delete", "raft_cmdpb_DeleteResponse", <<42>>),
    M("Snap", "raft_cmdpb_SnapResponse", <<50>>) >>
raft_cmdpb_Response_Size == <<
    V("CmdType", "int32", 1), M("Get", "raft_cmdpb_GetResponse", 1),
    M("Put", "raft_cmdpb_PutResponse", 1), M("Delete", "raft_cmdpb_DeleteResponse", 1),
    M("Snap", "raft_cmdpb_SnapResponse", 1) >>
raft_cmdpb_Response_Unmarshal == <<
    V("CmdType", "int32", 1), M("Get", "raft_cmdpb_GetResponse", 2),
    M("Put", "raft_cmdpb_PutResponse", 4), M("Delete", "raft_cmdpb_DeleteResponse", 5),
    M("Snap", "raft_cmdpb_SnapResponse", 6) >>

raft_cmdpb_ChangePeerRequest_MarshalTo == <<
    V("ChangeType", "int32", <<8>>), M("Peer", "metapb_Peer", <<18>>) >>
raft_cmdpb_ChangePeerRequest_Size == <<
    V("ChangeType", "int32", 1), M("Peer", "metapb_Peer", 1) >>
raft_cmdpb_ChangePeerRequest_Unmarshal == <<
    V("ChangeType", "int32", 1), M("Peer", "metapb_Peer", 2) >>

raft_cmdpb_ChangePeerResponse_MarshalTo == << M("Region", "metapb_Region", <<10>>) >>
raft_cmdpb_ChangePeerResponse_Size == << M("Region", "metapb_Region", 1) >>
raft_cmdpb_ChangePeerResponse_Unmarshal == << M("Region", "metapb_Region", 1) >>

raft_cmdpb_SplitRequest_MarshalTo == <<
    B("SplitKey", <<10>>), V("NewRegionId", "uint64", <<16>>),
    P("NewPeerIds", "uint64", <<26>>) >>
raft_cmdpb_SplitRequest_Size == <<
    B("SplitKey", 1), V("NewRegionId", "uint64", 1), P("NewPeerIds", "uint64", 1) >>
raft_cmdpb_SplitRequest_Unmarshal == <<
    B("SplitKey", 1), V("NewRegionId", "uint64", 2), P("NewPeerIds", "uint64", 3) >>

raft_cmdpb_SplitResponse_MarshalTo == << RM("Regions", "metapb_Region", <<10>>) >>
raft_cmdpb_SplitResponse_Size == << RM("Regions", "metapb_Region", 1) >>
raft_cmdpb_SplitResponse_Unmarshal == << RM("Regions", "metapb_Region", 1) >>

raft_cmdpb_CompactLogRequest_MarshalTo == <<
    V("CompactIndex", "uint64", <<8>>), V("CompactTerm", "uint64", <<16>>) >>
raft_cmdpb_CompactLogRequest_Size == <<
    V("CompactIndex", "uint64", 1), V("CompactTerm", "uint64", 1) >>
raft_cmdpb_CompactLogRequest_Unmarshal == <<
    V("CompactIndex", "uint64", 1), V("CompactTerm", "uint64", 2) >>

raft_cmdpb_CompactLogResponse_MarshalTo == <<>>
raft_cmdpb_CompactLogResponse_Size == <<>>
raft_cmdpb_CompactLogResponse_Unmarshal == <<>>

raft_cmdpb_TransferLeaderRequest_MarshalTo == << M("Peer", "metapb_Peer", <<10>>) >>
raft_cmdpb_TransferLeaderRequest_Size == << M("Peer", "metapb_Peer", 1) >>
raft_cmdpb_TransferLeaderRequest_Unmarshal == << M("Peer", "metapb_Peer", 1) >>

raft_cmdpb_TransferLeaderResponse_MarshalTo == <<>>
raft_cmdpb_TransferLeaderResponse_Size == <<>>
raft_cmdpb_TransferLeaderResponse_Unmarshal == <<>>

raft_cmdpb_AdminRequest_MarshalTo == <<
    V("CmdType", "int32", <<8>>), M("ChangePeer", "raft_cmdpb_ChangePeerRequest", <<18>>),
    M("CompactLog", "raft_cmdpb_CompactLogRequest", <<34>>),
    M("TransferLeader", "raft_cmdpb_TransferLeaderRequest", <<42>>),
    M("Split", "raft_cmdpb_SplitRequest", <<82>>) >>
raft_cmdpb_AdminRequest_Size == <<
    V("CmdType", "int32", 1), M("ChangePeer", "raft_cmdpb_ChangePeerRequest", 1),
    M("CompactLog", "raft_cmdpb_CompactLogRequest", 1),
    M("TransferLeader", "raft_cmdpb_TransferLeaderRequest", 1),
    M("Split", "raft_cmdpb_SplitRequest", 1) >>
raft_cmdpb_AdminRequest_Unmarshal == <<
    V("CmdType", "int32", 1), M("ChangePeer", "raft_cmdpb_ChangePeerRequest", 2),
    M("CompactLog", "raft_cmdpb_CompactLogRequest", 4),
    M("TransferLeader", "raft_cmdpb_TransferLeaderRequest", 5),
    M("Split", "raft_cmdpb_SplitRequest", 10) >>

raft_cmdpb_AdminResponse_MarshalTo == <<
    V("CmdType", "int32", <<8>>), M("ChangePeer", "raft_cmdpb_ChangePeerResponse", <<18>>),
    M("CompactLog", "raft_cmdpb_CompactLogResponse", <<34>>),
    M("TransferLeader", "raft_cmdpb_TransferLeaderResponse", <<42>>),
    M("Split", "raft_cmdpb_SplitResponse", <<82>>) >>
raft_cmdpb_AdminResponse_Size == <<
    V("CmdType", "int32", 1), M("ChangePeer", "raft_cmdpb_ChangePeerResponse", 1),
    M("CompactLog", "raft_cmdpb_CompactLogResponse", 1),
    M("TransferLeader", "raft_cmdpb_TransferLeaderResponse", 1),
    M("Split", "raft_cmdpb_SplitResponse", 1) >>
raft_cmdpb_AdminResponse_Unmarshal == <<
    V("CmdType", "int32", 1), M("ChangePeer", "raft_cmdpb_ChangePeerResponse", 2),
    M("CompactLog", "raft_cmdpb_CompactLogResponse", 4),
    M("TransferLeader", "raft_cmdpb_TransferLeaderResponse", 5),
    M("Split", "raft_cmdpb_SplitResponse", 10) >>

raft_cmdpb_RaftRequestHeader_MarshalTo == <<
    V("RegionId", "uint64", <<8>>), M("Peer", "metapb_Peer", <<18>>),
    M("RegionEpoch", "metapb_RegionEpoch", <<34>>), V("Term", "uint64", <<40>>) >>
raft_cmdpb_RaftRequestHeader_Size == <<
    V("RegionId", "uint64", 1), M("Peer", "metapb_Peer", 1),
    M("RegionEpoch", "metapb_RegionEpoch", 1), V("Term", "uint64", 1) >>
raft_cmdpb_RaftRequestHeader_Unmarshal == <<
    V("RegionId", "uint64", 1), M("Peer", "metapb_Peer", 2),
    M("RegionEpoch", "metapb_RegionEpoch", 4), V("Term", "uint64", 5) >>

raft_cmdpb_RaftResponseHeader_MarshalTo == <<
    M("Error", "errorpb_Error", <<10>>), B("Uuid", <<18>>),
    V("CurrentTerm", "uint64", <<24>>) >>
raft_cmdpb_RaftResponseHeader_Size == <<
    M("Error", "errorpb_Error", 1), B("Uuid", 1), V("CurrentTerm", "uint64", 1) >>
raft_cmdpb_RaftResponseHeader_Unmarshal == <<
    M("Error", "errorpb_Error", 1), B("Uuid", 2), V("CurrentTerm", "uint64", 3) >>

raft_cmdpb_RaftCmdRequest_MarshalTo == <<
    M("Header", "raft_cmdpb_RaftRequestHeader", <<10>>),
    RM("Requests", "raft_cmdpb_Request", <<18>>),
    M("AdminRequest", "raft_cmdpb_AdminRequest", <<26>>) >>
raft_cmdpb_RaftCmdRequest_Size == <<
    M("Header", "raft_cmdpb_RaftRequestHeader", 1),
    RM("Requests", "raft_cmdpb_Request", 1),
    M("AdminRequest", "raft_cmdpb_AdminRequest", 1) >>
raft_cmdpb_RaftCmdRequest_Unmarshal == <<
    M("Header", "raft_cmdpb_RaftRequestHeader", 1),
    RM("Requests", "raft_cmdpb_Request", 2),
    M("AdminRequest", "raft_cmdpb_AdminRequest", 3) >>

raft_cmdpb_RaftCmdResponse_MarshalTo == <<
    M("Header", "raft_cmdpb_RaftResponseHeader", <<10>>),
    RM("Responses", "raft_cmdpb_Response", <<18>>),
    M("AdminResponse", "raft_cmdpb_AdminResponse", <<26>>) >>
raft_cmdpb_RaftCmdResponse_Size == <<
    M("Header", "raft_cmdpb_RaftResponseHeader", 1),
    RM("Responses", "raft_cmdpb_Response", 1),
    M("AdminResponse", "raft_cmdpb_AdminResponse", 1) >>
raft_cmdpb_RaftCmdResponse_Unmarshal == <<
    M("Header", "raft_cmdpb_RaftResponseHeader", 1),
    RM("Responses", "raft_cmdpb_Response", 2),
    M("AdminResponse", "raft_cmdpb_AdminResponse", 3) >>

raft_cmdpb_Messages ==
    [ raft_cmdpb_GetRequest |->
          Codec(raft_cmdpb_GetRequest_MarshalTo,
                raft_cmdpb_GetRequest_Size, raft_cmdpb_GetRequest_Unmarshal),
      raft_cmdpb_GetResponse |->
          Codec(raft_cmdpb_GetResponse_MarshalTo,
                raft_cmdpb_GetResponse_Size, raft_cmdpb_GetResponse_Unmarshal),
      raft_cmdpb_PutRequest |->
          Codec(raft_cmdpb_PutRequest_MarshalTo,
                raft_cmdpb_PutRequest_Size, raft_cmdpb_PutRequest_Unmarshal),
      raft_cmdpb_PutResponse |->
          Codec(raft_cmdpb_PutResponse_MarshalTo,
                raft_cmdpb_PutResponse_Size, raft_cmdpb_PutResponse_Unmarshal),
      raft_cmdpb_DeleteRequest |->
          Codec(raft_cmdpb_DeleteRequest_MarshalTo,
                raft_cmdpb_DeleteRequest_Size, raft_cmdpb_DeleteRequest_Unmarshal),
      raft_cmdpb_DeleteResponse |->
          Codec(raft_cmdpb_DeleteResponse_MarshalTo,
                raft_cmdpb_DeleteResponse_Size, raft_cmdpb_DeleteResponse_Unmarshal),
      raft_cmdpb_SnapRequest |->
          Codec(raft_cmdpb_SnapRequest_MarshalTo,
                raft_cmdpb_SnapRequest_Size, raft_cmdpb_SnapRequest_Unmarshal),
      raft_cmdpb_SnapResponse |->
          Codec(raft_cmdpb_SnapResponse_MarshalTo,
                raft_cmdpb_SnapResponse_Size, raft_cmdpb_SnapResponse_Unmarshal),
      raft_cmdpb_Request |->
          Codec(raft_cmdpb_Request_MarshalTo,
                raft_cmdpb_Request_Size, raft_cmdpb_Request_Unmarshal),
      raft_cmdpb_Response |->
          Codec(raft_cmdpb_Response_MarshalTo,
                raft_cmdpb_Response_Size, raft_cmdpb_Response_Unmarshal),
      raft_cmdpb_ChangePeerRequest |->
          Codec(raft_cmdpb_ChangePeerRequest_MarshalTo,
                raft_cmdpb_ChangePeerRequest_Size, raft_cmdpb_ChangePeerRequest_Unmarshal),
      raft_cmdpb_ChangePeerResponse |->
          Codec(raft_cmdpb_ChangePeerResponse_MarshalTo,
                raft_cmdpb_ChangePeerResponse_Size, raft_cmdpb_ChangePeerResponse_Unmarshal),
      raft_cmdpb_SplitRequest |->
          Codec(raft_cmdpb_SplitRequest_MarshalTo,
                raft_cmdpb_SplitRequest_Size, raft_cmdpb_SplitRequest_Unmarshal),
      raft_cmdpb_SplitResponse |->
          Codec(raft_cmdpb_SplitResponse_MarshalTo,
                raft_cmdpb_SplitResponse_Size, raft_cmdpb_SplitResponse_Unmarshal),
      raft_cmdpb_CompactLogRequest |->
          Codec(raft_cmdpb_CompactLogRequest_MarshalTo,
                raft_cmdpb_CompactLogRequest_Size, raft_cmdpb_CompactLogRequest_Unmarshal),
      raft_cmdpb_CompactLogResponse |->
          Codec(raft_cmdpb_CompactLogResponse_MarshalTo,
                raft_cmdpb_CompactLogResponse_Size, raft_cmdpb_CompactLogResponse_Unmarshal),
      raft_cmdpb_TransferLeaderRequest |->
          Codec(raft_cmdpb_TransferLeaderRequest_MarshalTo,
                raft_cmdpb_TransferLeaderRequest_Size, raft_cmdpb_TransferLeaderRequest_Unmarshal),
      raft_cmdpb_TransferLeaderResponse |->
          Codec(raft_cmdpb_TransferLeaderResponse_MarshalTo,
                raft_cmdpb_TransferLeaderResponse_Size,
                raft_cmdpb_TransferLeaderResponse_Unmarshal),
      raft_cmdpb_AdminRequest |->
          Codec(raft_cmdpb_AdminRequest_MarshalTo,
                raft_cmdpb_AdminRequest_Size, raft_cmdpb_AdminRequest_Unmarshal),
      raft_cmdpb_AdminResponse |->
          Codec(raft_cmdpb_AdminResponse_MarshalTo,
                raft_cmdpb_AdminResponse_Size, raft_cmdpb_AdminResponse_Unmarshal),
      raft_cmdpb_RaftRequestHeader |->
          Codec(raft_cmdpb_RaftRequestHeader_MarshalTo,
                raft_cmdpb_RaftRequestHeader_Size, raft_cmdpb_RaftRequestHeader_Unmarshal),
      raft_cmdpb_RaftResponseHeader |->
          Codec(raft_cmdpb_RaftResponseHeader_MarshalTo,
                raft_cmdpb_RaftResponseHeader_Size, raft_cmdpb_RaftResponseHeader_Unmarshal),
      raft_cmdpb_RaftCmdRequest |->
          Codec(raft_cmdpb_RaftCmdRequest_MarshalTo,
                raft_cmdpb_RaftCmdRequest_Size, raft_cmdpb_RaftCmdRequest_Unmarshal),
      raft_cmdpb_RaftCmdResponse |->
          Codec(raft_cmdpb_RaftCmdResponse_MarshalTo,
                raft_cmdpb_RaftCmdResponse_Size, raft_cmdpb_RaftCmdResponse_Unmarshal)]
=============================================================================
