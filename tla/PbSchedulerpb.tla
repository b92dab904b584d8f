---------------------------- MODULE PbSchedulerpb ---------------------------
(***************************************************************************)
(* The messages of proto/pkg/schedulerpb, as their generated code sees them.*)
(* One table for each of MarshalTo, Size and Unmarshal of every message;   *)
(* ProtoFields says what an entry is, ProtoWire what it means.             *)
(***************************************************************************)
EXTENDS ProtoFields

schedulerpb_RequestHeader_MarshalTo == << V("ClusterId", "uint64", <<8>>) >>
schedulerpb_RequestHeader_Size == << V("ClusterId", "uint64", 1) >>
schedulerpb_RequestHeader_Unmarshal == << V("ClusterId", "uint64", 1) >>

schedulerpb_ResponseHeader_MarshalTo == <<
    V("ClusterId", "uint64", <<8>>), M("Error", "schedulerpb_Error", <<18>>) >>
schedulerpb_ResponseHeader_Size == <<
    V("ClusterId", "uint64", 1), M("Error", "schedulerpb_Error", 1) >>
schedulerpb_ResponseHeader_Unmarshal == <<
    V("ClusterId", "uint64", 1), M("Error", "schedulerpb_Error", 2) >>

schedulerpb_Error_MarshalTo == << V("Type", "int32", <<8>>), B("Message", <<18>>) >>
schedulerpb_Error_Size == << V("Type", "int32", 1), B("Message", 1) >>
schedulerpb_Error_Unmarshal == << V("Type", "int32", 1), B("Message", 2) >>

schedulerpb_TsoRequest_MarshalTo == <<
    M("Header", "schedulerpb_RequestHeader", <<10>>), V("Count", "uint32", <<16>>) >>
schedulerpb_TsoRequest_Size == <<
    M("Header", "schedulerpb_RequestHeader", 1), V("Count", "uint32", 1) >>
schedulerpb_TsoRequest_Unmarshal == <<
    M("Header", "schedulerpb_RequestHeader", 1), V("Count", "uint32", 2) >>

schedulerpb_Timestamp_MarshalTo == <<
    V("Physical", "int64", <<8>>), V("Logical", "int64", <<16>>) >>
schedulerpb_Timestamp_Size == << V("Physical", "int64", 1), V("Logical", "int64", 1) >>
schedulerpb_Timestamp_Unmarshal == << V("Physical", "int64", 1), V("Logical", "int64", 2) >>

schedulerpb_TsoResponse_MarshalTo == <<
    M("Header", "schedulerpb_ResponseHeader", <<10>>), V("Count", "uint32", <<16>>),
    M("Timestamp", "schedulerpb_Timestamp", <<26>>) >>
schedulerpb_TsoResponse_Size == <<
    M("Header", "schedulerpb_ResponseHeader", 1), V("Count", "uint32", 1),
    M("Timestamp", "schedulerpb_Timestamp", 1) >>
schedulerpb_TsoResponse_Unmarshal == <<
    M("Header", "schedulerpb_ResponseHeader", 1), V("Count", "uint32", 2),
    M("Timestamp", "schedulerpb_Timestamp", 3) >>

schedulerpb_BootstrapRequest_MarshalTo == <<
    M("Header", "schedulerpb_RequestHeader", <<10>>), M("Store", "metapb_Store", <<18>>) >>
schedulerpb_BootstrapRequest_Size == <<
    M("Header", "schedulerpb_RequestHeader", 1), M("Store", "metapb_Store", 1) >>
schedulerpb_BootstrapRequest_Unmarshal == <<
    M("Header", "schedulerpb_RequestHeader", 1), M("Store", "metapb_Store", 2) >>

schedulerpb_BootstrapResponse_MarshalTo == <<
    M("Header", "schedulerpb_ResponseHeader", <<10>>) >>
schedulerpb_BootstrapResponse_Size == << M("Header", "schedulerpb_ResponseHeader", 1) >>
schedulerpb_BootstrapResponse_Unmarshal == << M("Header", "schedulerpb_ResponseHeader", 1) >>

schedulerpb_IsBootstrappedRequest_MarshalTo == <<
    M("Header", "schedulerpb_RequestHeader", <<10>>) >>
schedulerpb_IsBootstrappedRequest_Size == << M("Header", "schedulerpb_RequestHeader", 1) >>
schedulerpb_IsBootstrappedRequest_Unmarshal == << M("Header", "schedulerpb_RequestHeader", 1) >>

schedulerpb_IsBootstrappedResponse_MarshalTo == <<
    M("Header", "schedulerpb_ResponseHeader", <<10>>), V("Bootstrapped", "bool", <<16>>) >>
schedulerpb_IsBootstrappedResponse_Size == <<
    M("Header", "schedulerpb_ResponseHeader", 1), V("Bootstrapped", "bool", 2) >>
schedulerpb_IsBootstrappedResponse_Unmarshal == <<
    M("Header", "schedulerpb_ResponseHeader", 1), V("Bootstrapped", "bool", 2) >>

schedulerpb_AllocIDRequest_MarshalTo == << M("Header", "schedulerpb_RequestHeader", <<10>>) >>
schedulerpb_AllocIDRequest_Size == << M("Header", "schedulerpb_RequestHeader", 1) >>
schedulerpb_AllocIDRequest_Unmarshal == << M("Header", "schedulerpb_RequestHeader", 1) >>

schedulerpb_AllocIDResponse_MarshalTo == <<
    M("Header", "schedulerpb_ResponseHeader", <<10>>), V("Id", "uint64", <<16>>) >>
schedulerpb_AllocIDResponse_Size == <<
    M("Header", "schedulerpb_ResponseHeader", 1), V("Id", "uint64", 1) >>
schedulerpb_AllocIDResponse_Unmarshal == <<
    M("Header", "schedulerpb_ResponseHeader", 1), V("Id", "uint64", 2) >>

schedulerpb_GetStoreRequest_MarshalTo == <<
    M("Header", "schedulerpb_RequestHeader", <<10>>), V("StoreId", "uint64", <<16>>) >>
schedulerpb_GetStoreRequest_Size == <<
    M("Header", "schedulerpb_RequestHeader", 1), V("StoreId", "uint64", 1) >>
schedulerpb_GetStoreRequest_Unmarshal == <<
    M("Header", "schedulerpb_RequestHeader", 1), V("StoreId", "uint64", 2) >>

schedulerpb_GetStoreResponse_MarshalTo == <<
    M("Header", "schedulerpb_ResponseHeader", <<10>>), M("Store", "metapb_Store", <<18>>),
    M("Stats", "schedulerpb_StoreStats", <<26>>) >>
schedulerpb_GetStoreResponse_Size == <<
    M("Header", "schedulerpb_ResponseHeader", 1), M("Store", "metapb_Store", 1),
    M("Stats", "schedulerpb_StoreStats", 1) >>
schedulerpb_GetStoreResponse_Unmarshal == <<
    M("Header", "schedulerpb_ResponseHeader", 1), M("Store", "metapb_Store", 2),
    M("Stats", "schedulerpb_StoreStats", 3) >>

schedulerpb_PutStoreRequest_MarshalTo == <<
    M("Header", "schedulerpb_RequestHeader", <<10>>), M("Store", "metapb_Store", <<18>>) >>
schedulerpb_PutStoreRequest_Size == <<
    M("Header", "schedulerpb_RequestHeader", 1), M("Store", "metapb_Store", 1) >>
schedulerpb_PutStoreRequest_Unmarshal == <<
    M("Header", "schedulerpb_RequestHeader", 1), M("Store", "metapb_Store", 2) >>

schedulerpb_PutStoreResponse_MarshalTo == <<
    M("Header", "schedulerpb_ResponseHeader", <<10>>) >>
schedulerpb_PutStoreResponse_Size == << M("Header", "schedulerpb_ResponseHeader", 1) >>
schedulerpb_PutStoreResponse_Unmarshal == << M("Header", "schedulerpb_ResponseHeader", 1) >>

schedulerpb_GetAllStoresRequest_MarshalTo == <<
    M("Header", "schedulerpb_RequestHeader", <<10>>),
    V("ExcludeTombstoneStores", "bool", <<16>>) >>
schedulerpb_GetAllStoresRequest_Size == <<
    M("Header", "schedulerpb_RequestHeader", 1), V("ExcludeTombstoneStores", "bool", 2) >>
schedulerpb_GetAllStoresRequest_Unmarshal == <<
    M("Header", "schedulerpb_RequestHeader", 1), V("ExcludeTombstoneStores", "bool", 2) >>

schedulerpb_GetAllStoresResponse_MarshalTo == <<
    M("Header", "schedulerpb_ResponseHeader", <<10>>),
    RM("Stores", "metapb_Store", <<18>>) >>
schedulerpb_GetAllStoresResponse_Size == <<
    M("Header", "schedulerpb_ResponseHeader", 1), RM("Stores", "metapb_Store", 1) >>
schedulerpb_GetAllStoresResponse_Unmarshal == <<
    M("Header", "schedulerpb_ResponseHeader", 1), RM("Stores", "metapb_Store", 2) >>

schedulerpb_GetRegionRequest_MarshalTo == <<
    M("Header", "schedulerpb_RequestHeader", <<10>>), B("RegionKey", <<18>>) >>
schedulerpb_GetRegionRequest_Size == <<
    M("Header", "schedulerpb_RequestHeader", 1), B("RegionKey", 1) >>
schedulerpb_GetRegionRequest_Unmarshal == <<
    M("Header", "schedulerpb_RequestHeader", 1), B("RegionKey", 2) >>

schedulerpb_GetRegionResponse_MarshalTo == <<
    M("Header", "schedulerpb_ResponseHeader", <<10>>),
    M("Region", "metapb_Region", <<18>>), M("Leader", "metapb_Peer", <<26>>),
    RM("Slaves", "metapb_Peer", <<34>>) >>
schedulerpb_GetRegionResponse_Size == <<
    M("Header", "schedulerpb_ResponseHeader", 1), M("Region", "metapb_Region", 1),
    M("Leader", "metapb_Peer", 1), RM("Slaves", "metapb_Peer", 1) >>
schedulerpb_GetRegionResponse_Unmarshal == <<
    M("Header", "schedulerpb_ResponseHeader", 1), M("Region", "metapb_Region", 2),
    M("Leader", "metapb_Peer", 3), RM("Slaves", "metapb_Peer", 4) >>

schedulerpb_GetRegionByIDRequest_MarshalTo == <<
    M("Header", "schedulerpb_RequestHeader", <<10>>), V("RegionId", "uint64", <<16>>) >>
schedulerpb_GetRegionByIDRequest_Size == <<
    M("Header", "schedulerpb_RequestHeader", 1), V("RegionId", "uint64", 1) >>
schedulerpb_GetRegionByIDRequest_Unmarshal == <<
    M("Header", "schedulerpb_RequestHeader", 1), V("RegionId", "uint64", 2) >>

schedulerpb_ScanRegionsRequest_MarshalTo == <<
    M("Header", "schedulerpb_RequestHeader", <<10>>), B("StartKey", <<18>>),
    V("Limit", "int32", <<24>>), B("EndKey", <<34>>) >>
schedulerpb_ScanRegionsRequest_Size == <<
    M("Header", "schedulerpb_RequestHeader", 1), B("StartKey", 1), V("Limit", "int32", 1),
    B("EndKey", 1) >>
schedulerpb_ScanRegionsRequest_Unmarshal == <<
    M("Header", "schedulerpb_RequestHeader", 1), B("StartKey", 2), V("Limit", "int32", 3),
    B("EndKey", 4) >>

schedulerpb_ScanRegionsResponse_MarshalTo == <<
    M("Header", "schedulerpb_ResponseHeader", <<10>>),
    RM("Regions", "metapb_Region", <<18>>), RM("Leaders", "metapb_Peer", <<26>>) >>
schedulerpb_ScanRegionsResponse_Size == <<
    M("Header", "schedulerpb_ResponseHeader", 1), RM("Regions", "metapb_Region", 1),
    RM("Leaders", "metapb_Peer", 1) >>
schedulerpb_ScanRegionsResponse_Unmarshal == <<
    M("Header", "schedulerpb_ResponseHeader", 1), RM("Regions", "metapb_Region", 2),
    RM("Leaders", "metapb_Peer", 3) >>

schedulerpb_GetClusterConfigRequest_MarshalTo == <<
    M("Header", "schedulerpb_RequestHeader", <<10>>) >>
schedulerpb_GetClusterConfigRequest_Size == << M("Header", "schedulerpb_RequestHeader", 1) >>
schedulerpb_GetClusterConfigRequest_Unmarshal == <<
    M("Header", "schedulerpb_RequestHeader", 1) >>

schedulerpb_GetClusterConfigResponse_MarshalTo == <<
    M("Header", "schedulerpb_ResponseHeader", <<10>>),
    M("Cluster", "metapb_Cluster", <<18>>) >>
schedulerpb_GetClusterConfigResponse_Size == <<
    M("Header", "schedulerpb_ResponseHeader", 1), M("Cluster", "metapb_Cluster", 1) >>
schedulerpb_GetClusterConfigResponse_Unmarshal == <<
    M("Header", "schedulerpb_ResponseHeader", 1), M("Cluster", "metapb_Cluster", 2) >>

schedulerpb_PutClusterConfigRequest_MarshalTo == <<
    M("Header", "schedulerpb_RequestHeader", <<10>>),
    M("Cluster", "metapb_Cluster", <<18>>) >>
schedulerpb_PutClusterConfigRequest_Size == <<
    M("Header", "schedulerpb_RequestHeader", 1), M("Cluster", "metapb_Cluster", 1) >>
schedulerpb_PutClusterConfigRequest_Unmarshal == <<
    M("Header", "schedulerpb_RequestHeader", 1), M("Cluster", "metapb_Cluster", 2) >>

schedulerpb_PutClusterConfigResponse_MarshalTo == <<
    M("Header", "schedulerpb_ResponseHeader", <<10>>) >>
schedulerpb_PutClusterConfigResponse_Size == << M("Header", "schedulerpb_ResponseHeader", 1) >>
schedulerpb_PutClusterConfigResponse_Unmarshal == <<
    M("Header", "schedulerpb_ResponseHeader", 1) >>

schedulerpb_Member_MarshalTo == <<
    B("Name", <<10>>), V("MemberId", "uint64", <<16>>), RB("PeerUrls", <<26>>),
    RB("ClientUrls", <<34>>), V("LeaderPriority", "int32", <<40>>) >>
schedulerpb_Member_Size == <<
    B("Name", 1), V("MemberId", "uint64", 1), RB("PeerUrls", 1), RB("ClientUrls", 1),
    V("LeaderPriority", "int32", 1) >>
schedulerpb_Member_Unmarshal == <<
    B("Name", 1), V("MemberId", "uint64", 2), RB("PeerUrls", 3), RB("ClientUrls", 4),
    V("LeaderPriority", "int32", 5) >>

schedulerpb_GetMembersRequest_MarshalTo == <<
    M("Header", "schedulerpb_RequestHeader", <<10>>) >>
schedulerpb_GetMembersRequest_Size == << M("Header", "schedulerpb_RequestHeader", 1) >>
schedulerpb_GetMembersRequest_Unmarshal == << M("Header", "schedulerpb_RequestHeader", 1) >>

schedulerpb_GetMembersResponse_MarshalTo == <<
    M("Header", "schedulerpb_ResponseHeader", <<10>>),
    RM("Members", "schedulerpb_Member", <<18>>), M("Leader", "schedulerpb_Member", <<26>>),
    M("EtcdLeader", "schedulerpb_Member", <<34>>) >>
schedulerpb_GetMembersResponse_Size == <<
    M("Header", "schedulerpb_ResponseHeader", 1), RM("Members", "schedulerpb_Member", 1),
    M("Leader", "schedulerpb_Member", 1), M("EtcdLeader", "schedulerpb_Member", 1) >>
schedulerpb_GetMembersResponse_Unmarshal == <<
    M("Header", "schedulerpb_ResponseHeader", 1), RM("Members", "schedulerpb_Member", 2),
    M("Leader", "schedulerpb_Member", 3), M("EtcdLeader", "schedulerpb_Member", 4) >>

schedulerpb_RegionHeartbeatRequest_MarshalTo == <<
    M("Header", "schedulerpb_RequestHeader", <<10>>), M("Region", "metapb_Region", <<18>>),
    M("Leader", "metapb_Peer", <<26>>), RM("PendingPeers", "metapb_Peer", <<42>>),
    V("ApproximateSize", "uint64", <<80>>) >>
schedulerpb_RegionHeartbeatRequest_Size == <<
    M("Header", "schedulerpb_RequestHeader", 1), M("Region", "metapb_Region", 1),
    M("Leader", "metapb_Peer", 1), RM("PendingPeers", "metapb_Peer", 1),
    V("ApproximateSize", "uint64", 1) >>
schedulerpb_RegionHeartbeatRequest_Unmarshal == <<
    M("Header", "schedulerpb_RequestHeader", 1), M("Region", "metapb_Region", 2),
    M("Leader", "metapb_Peer", 3), RM("PendingPeers", "metapb_Peer", 5),
    V("ApproximateSize", "uint64", 10) >>

schedulerpb_ChangePeer_MarshalTo == <<
    M("Peer", "metapb_Peer", <<10>>), V("ChangeType", "int32", <<16>>) >>
schedulerpb_ChangePeer_Size == << M("Peer", "metapb_Peer", 1), V("ChangeType", "int32", 1) >>
schedulerpb_ChangePeer_Unmarshal == <<
    M("Peer", "metapb_Peer", 1), V("ChangeType", "int32", 2) >>

schedulerpb_TransferLeader_MarshalTo == << M("Peer", "metapb_Peer", <<10>>) >>
schedulerpb_TransferLeader_Size == << M("Peer", "metapb_Peer", 1) >>
schedulerpb_TransferLeader_Unmarshal == << M("Peer", "metapb_Peer", 1) >>

schedulerpb_RegionHeartbeatResponse_MarshalTo == <<
    M("Header", "schedulerpb_ResponseHeader", <<10>>),
    M("ChangePeer", "schedulerpb_ChangePeer", <<18>>),
    M("TransferLeader", "schedulerpb_TransferLeader", <<26>>),
    V("RegionId", "uint64", <<32>>), M("RegionEpoch", "metapb_RegionEpoch", <<42>>),
    M("TargetPeer", "metapb_Peer", <<50>>) >>
schedulerpb_RegionHeartbeatResponse_Size == <<
    M("Header", "schedulerpb_ResponseHeader", 1),
    M("ChangePeer", "schedulerpb_ChangePeer", 1),
    M("TransferLeader", "schedulerpb_TransferLeader", 1), V("RegionId", "uint64", 1),
    M("RegionEpoch", "metapb_RegionEpoch", 1), M("TargetPeer", "metapb_Peer", 1) >>
schedulerpb_RegionHeartbeatResponse_Unmarshal == <<
    M("Header", "schedulerpb_ResponseHeader", 1),
    M("ChangePeer", "schedulerpb_ChangePeer", 2),
    M("TransferLeader", "schedulerpb_TransferLeader", 3), V("RegionId", "uint64", 4),
    M("RegionEpoch", "metapb_RegionEpoch", 5), M("TargetPeer", "metapb_Peer", 6) >>

schedulerpb_AskSplitRequest_MarshalTo == <<
    M("Header", "schedulerpb_RequestHeader", <<10>>),
    M("Region", "metapb_Region", <<18>>) >>
schedulerpb_AskSplitRequest_Size == <<
    M("Header", "schedulerpb_RequestHeader", 1), M("Region", "metapb_Region", 1) >>
schedulerpb_AskSplitRequest_Unmarshal == <<
    M("Header", "schedulerpb_RequestHeader", 1), M("Region", "metapb_Region", 2) >>

schedulerpb_AskSplitResponse_MarshalTo == <<
    M("Header", "schedulerpb_ResponseHeader", <<10>>), V("NewRegionId", "uint64", <<16>>),
    P("NewPeerIds", "uint64", <<26>>) >>
schedulerpb_AskSplitResponse_Size == <<
    M("Header", "schedulerpb_ResponseHeader", 1), V("NewRegionId", "uint64", 1),
    P("NewPeerIds", "uint64", 1) >>
schedulerpb_AskSplitResponse_Unmarshal == <<
    M("Header", "schedulerpb_ResponseHeader", 1), V("NewRegionId", "uint64", 2),
    P("NewPeerIds", "uint64", 3) >>

schedulerpb_ReportSplitRequest_MarshalTo == <<
    M("Header", "schedulerpb_RequestHeader", <<10>>), M("Left", "metapb_Region", <<18>>),
    M("Right", "metapb_Region", <<26>>) >>
schedulerpb_ReportSplitRequest_Size == <<
    M("Header", "schedulerpb_RequestHeader", 1), M("Left", "metapb_Region", 1),
    M("Right", "metapb_Region", 1) >>
schedulerpb_ReportSplitRequest_Unmarshal == <<
    M("Header", "schedulerpb_RequestHeader", 1), M("Left", "metapb_Region", 2),
    M("Right", "metapb_Region", 3) >>

schedulerpb_ReportSplitResponse_MarshalTo == <<
    M("Header", "schedulerpb_ResponseHeader", <<10>>) >>
schedulerpb_ReportSplitResponse_Size == << M("Header", "schedulerpb_ResponseHeader", 1) >>
schedulerpb_ReportSplitResponse_Unmarshal == << M("Header", "schedulerpb_ResponseHeader", 1) >>

schedulerpb_SplitID_MarshalTo == <<
    V("NewRegionId", "uint64", <<8>>), P("NewPeerIds", "uint64", <<18>>) >>
schedulerpb_SplitID_Size == << V("NewRegionId", "uint64", 1), P("NewPeerIds", "uint64", 1) >>
schedulerpb_SplitID_Unmarshal == <<
    V("NewRegionId", "uint64", 1), P("NewPeerIds", "uint64", 2) >>

schedulerpb_TimeInterval_MarshalTo == <<
    V("StartTimestamp", "uint64", <<8>>), V("EndTimestamp", "uint64", <<16>>) >>
schedulerpb_TimeInterval_Size == <<
    V("StartTimestamp", "uint64", 1), V("EndTimestamp", "uint64", 1) >>
schedulerpb_TimeInterval_Unmarshal == <<
    V("StartTimestamp", "uint64", 1), V("EndTimestamp", "uint64", 2) >>

schedulerpb_RecordPair_MarshalTo == << B("Key", <<10>>), V("Value", "uint64", <<16>>) >>
schedulerpb_RecordPair_Size == << B("Key", 1), V("Value", "uint64", 1) >>
schedulerpb_RecordPair_Unmarshal == << B("Key", 1), V("Value", "uint64", 2) >>

schedulerpb_StoreStats_MarshalTo == <<
    V("StoreId", "uint64", <<8>>), V("Capacity", "uint64", <<16>>),
    V("Available", "uint64", <<24>>), V("RegionCount", "uint32", <<32>>),
    V("SendingSnapCount", "uint32", <<40>>), V("ReceivingSnapCount", "uint32", <<48>>),
    V("StartTime", "uint32", <<56>>), V("ApplyingSnapCount", "uint32", <<64>>),
    V("IsBusy", "bool", <<72>>), V("UsedSize", "uint64", <<80>>),
    M("Interval", "schedulerpb_TimeInterval", <<122>>),
    RM("CpuUsages", "schedulerpb_RecordPair", <<130, 1>>),
    RM("ReadIoRates", "schedulerpb_RecordPair", <<138, 1>>),
    RM("WriteIoRates", "schedulerpb_RecordPair", <<146, 1>>),
    RM("OpLatencies", "schedulerpb_RecordPair", <<154, 1>>) >>
schedulerpb_StoreStats_Size == <<
    V("StoreId", "uint64", 1), V("Capacity", "uint64", 1), V("Available", "uint64", 1),
    V("RegionCount", "uint32", 1), V("SendingSnapCount", "uint32", 1),
    V("ReceivingSnapCount", "uint32", 1), V("StartTime", "uint32", 1),
    V("ApplyingSnapCount", "uint32", 1), V("IsBusy", "bool", 2),
    V("UsedSize", "uint64", 1), M("Interval", "schedulerpb_TimeInterval", 1),
    RM("CpuUsages", "schedulerpb_RecordPair", 2),
    RM("ReadIoRates", "schedulerpb_RecordPair", 2),
    RM("WriteIoRates", "schedulerpb_RecordPair", 2),
    RM("OpLatencies", "schedulerpb_RecordPair", 2) >>
schedulerpb_StoreStats_Unmarshal == <<
    V("StoreId", "uint64", 1), V("Capacity", "uint64", 2), V("Available", "uint64", 3),
    V("RegionCount", "uint32", 4), V("SendingSnapCount", "uint32", 5),
    V("ReceivingSnapCount", "uint32", 6), V("StartTime", "uint32", 7),
    V("ApplyingSnapCount", "uint32", 8), V("IsBusy", "bool", 9),
    V("UsedSize", "uint64", 10), M("Interval", "schedulerpb_TimeInterval", 15),
    RM("CpuUsages", "schedulerpb_RecordPair", 16),
    RM("ReadIoRates", "schedulerpb_RecordPair", 17),
    RM("WriteIoRates", "schedulerpb_RecordPair", 18),
    RM("OpLatencies", "schedulerpb_RecordPair", 19) >>

schedulerpb_StoreHeartbeatRequest_MarshalTo == <<
    M("Header", "schedulerpb_RequestHeader", <<10>>),
    M("Stats", "schedulerpb_StoreStats", <<18>>) >>
schedulerpb_StoreHeartbeatRequest_Size == <<
    M("Header", "schedulerpb_RequestHeader", 1), M("Stats", "schedulerpb_StoreStats", 1) >>
schedulerpb_StoreHeartbeatRequest_Unmarshal == <<
    M("Header", "schedulerpb_RequestHeader", 1), M("Stats", "schedulerpb_StoreStats", 2) >>

schedulerpb_StoreHeartbeatResponse_MarshalTo == <<
    M("Header", "schedulerpb_ResponseHeader", <<10>>) >>
schedulerpb_StoreHeartbeatResponse_Size == << M("Header", "schedulerpb_ResponseHeader", 1) >>
schedulerpb_StoreHeartbeatResponse_Unmarshal == <<
    M("Header", "schedulerpb_ResponseHeader", 1) >>

schedulerpb_ScatterRegionRequest_MarshalTo == <<
    M("Header", "schedulerpb_RequestHeader", <<10>>), V("RegionId", "uint64", <<16>>),
    M("Region", "metapb_Region", <<26>>), M("Leader", "metapb_Peer", <<34>>) >>
schedulerpb_ScatterRegionRequest_Size == <<
    M("Header", "schedulerpb_RequestHeader", 1), V("RegionId", "uint64", 1),
    M("Region", "metapb_Region", 1), M("Leader", "metapb_Peer", 1) >>
schedulerpb_ScatterRegionRequest_Unmarshal == <<
    M("Header", "schedulerpb_RequestHeader", 1), V("RegionId", "uint64", 2),
    M("Region", "metapb_Region", 3), M("Leader", "metapb_Peer", 4) >>

schedulerpb_ScatterRegionResponse_MarshalTo == <<
    M("Header", "schedulerpb_ResponseHeader", <<10>>) >>
schedulerpb_ScatterRegionResponse_Size == << M("Header", "schedulerpb_ResponseHeader", 1) >>
schedulerpb_ScatterRegionResponse_Unmarshal == <<
    M("Header", "schedulerpb_ResponseHeader", 1) >>

schedulerpb_GetGCSafePointRequest_MarshalTo == <<
    M("Header", "schedulerpb_RequestHeader", <<10>>) >>
schedulerpb_GetGCSafePointRequest_Size == << M("Header", "schedulerpb_RequestHeader", 1) >>
schedulerpb_GetGCSafePointRequest_Unmarshal == << M("Header", "schedulerpb_RequestHeader", 1) >>

schedulerpb_GetGCSafePointResponse_MarshalTo == <<
    M("Header", "schedulerpb_ResponseHeader", <<10>>), V("SafePoint", "uint64", <<16>>) >>
schedulerpb_GetGCSafePointResponse_Size == <<
    M("Header", "schedulerpb_ResponseHeader", 1), V("SafePoint", "uint64", 1) >>
schedulerpb_GetGCSafePointResponse_Unmarshal == <<
    M("Header", "schedulerpb_ResponseHeader", 1), V("SafePoint", "uint64", 2) >>

schedulerpb_UpdateGCSafePointRequest_MarshalTo == <<
    M("Header", "schedulerpb_RequestHeader", <<10>>), V("SafePoint", "uint64", <<16>>) >>
schedulerpb_UpdateGCSafePointRequest_Size == <<
    M("Header", "schedulerpb_RequestHeader", 1), V("SafePoint", "uint64", 1) >>
schedulerpb_UpdateGCSafePointRequest_Unmarshal == <<
    M("Header", "schedulerpb_RequestHeader", 1), V("SafePoint", "uint64", 2) >>

schedulerpb_UpdateGCSafePointResponse_MarshalTo == <<
    M("Header", "schedulerpb_ResponseHeader", <<10>>),
    V("NewSafePoint", "uint64", <<16>>) >>
schedulerpb_UpdateGCSafePointResponse_Size == <<
    M("Header", "schedulerpb_ResponseHeader", 1), V("NewSafePoint", "uint64", 1) >>
schedulerpb_UpdateGCSafePointResponse_Unmarshal == <<
    M("Header", "schedulerpb_ResponseHeader", 1), V("NewSafePoint", "uint64", 2) >>

schedulerpb_GetOperatorRequest_MarshalTo == <<
    M("Header", "schedulerpb_RequestHeader", <<10>>), V("RegionId", "uint64", <<16>>) >>
schedulerpb_GetOperatorRequest_Size == <<
    M("Header", "schedulerpb_RequestHeader", 1), V("RegionId", "uint64", 1) >>
schedulerpb_GetOperatorRequest_Unmarshal == <<
    M("Header", "schedulerpb_RequestHeader", 1), V("RegionId", "uint64", 2) >>

schedulerpb_GetOperatorResponse_MarshalTo == <<
    M("Header", "schedulerpb_ResponseHeader", <<10>>), V("RegionId", "uint64", <<16>>),
    B("Desc", <<26>>), V("Status", "int32", <<32>>), B("Kind", <<42>>) >>
schedulerpb_GetOperatorResponse_Size == <<
    M("Header", "schedulerpb_ResponseHeader", 1), V("RegionId", "uint64", 1), B("Desc", 1),
    V("Status", "int32", 1), B("Kind", 1) >>
schedulerpb_GetOperatorResponse_Unmarshal == <<
    M("Header", "schedulerpb_ResponseHeader", 1), V("RegionId", "uint64", 2), B("Desc", 3),
    V("Status", "int32", 4), B("Kind", 5) >>

schedulerpb_Messages ==
    [ schedulerpb_RequestHeader |->
          Codec(schedulerpb_RequestHeader_MarshalTo,
                schedulerpb_RequestHeader_Size, schedulerpb_RequestHeader_Unmarshal),
      schedulerpb_ResponseHeader |->
          Codec(schedulerpb_ResponseHeader_MarshalTo,
                schedulerpb_ResponseHeader_Size, schedulerpb_ResponseHeader_Unmarshal),
      schedulerpb_Error |->
          Codec(schedulerpb_Error_MarshalTo, schedulerpb_Error_Size, schedulerpb_Error_Unmarshal),
      schedulerpb_TsoRequest |->
          Codec(schedulerpb_TsoRequest_MarshalTo,
                schedulerpb_TsoRequest_Size, schedulerpb_TsoRequest_Unmarshal),
      schedulerpb_Timestamp |->
          Codec(schedulerpb_Timestamp_MarshalTo,
                schedulerpb_Timestamp_Size, schedulerpb_Timestamp_Unmarshal),
      schedulerpb_TsoResponse |->
          Codec(schedulerpb_TsoResponse_MarshalTo,
                schedulerpb_TsoResponse_Size, schedulerpb_TsoResponse_Unmarshal),
      schedulerpb_BootstrapRequest |->
          Codec(schedulerpb_BootstrapRequest_MarshalTo,
                schedulerpb_BootstrapRequest_Size, schedulerpb_BootstrapRequest_Unmarshal),
      schedulerpb_BootstrapResponse |->
          Codec(schedulerpb_BootstrapResponse_MarshalTo,
                schedulerpb_BootstrapResponse_Size, schedulerpb_BootstrapResponse_Unmarshal),
      schedulerpb_IsBootstrappedRequest |->
          Codec(schedulerpb_IsBootstrappedRequest_MarshalTo,
                schedulerpb_IsBootstrappedRequest_Size,
                schedulerpb_IsBootstrappedRequest_Unmarshal),
      schedulerpb_IsBootstrappedResponse |->
          Codec(schedulerpb_IsBootstrappedResponse_MarshalTo,
                schedulerpb_IsBootstrappedResponse_Size,
                schedulerpb_IsBootstrappedResponse_Unmarshal),
      schedulerpb_AllocIDRequest |->
          Codec(schedulerpb_AllocIDRequest_MarshalTo,
                schedulerpb_AllocIDRequest_Size, schedulerpb_AllocIDRequest_Unmarshal),
      schedulerpb_AllocIDResponse |->
          Codec(schedulerpb_AllocIDResponse_MarshalTo,
                schedulerpb_AllocIDResponse_Size, schedulerpb_AllocIDResponse_Unmarshal),
      schedulerpb_GetStoreRequest |->
          Codec(schedulerpb_GetStoreRequest_MarshalTo,
                schedulerpb_GetStoreRequest_Size, schedulerpb_GetStoreRequest_Unmarshal),
      schedulerpb_GetStoreResponse |->
          Codec(schedulerpb_GetStoreResponse_MarshalTo,
                schedulerpb_GetStoreResponse_Size, schedulerpb_GetStoreResponse_Unmarshal),
      schedulerpb_PutStoreRequest |->
          Codec(schedulerpb_PutStoreRequest_MarshalTo,
                schedulerpb_PutStoreRequest_Size, schedulerpb_PutStoreRequest_Unmarshal),
      schedulerpb_PutStoreResponse |->
          Codec(schedulerpb_PutStoreResponse_MarshalTo,
                schedulerpb_PutStoreResponse_Size, schedulerpb_PutStoreResponse_Unmarshal),
      schedulerpb_GetAllStoresRequest |->
          Codec(schedulerpb_GetAllStoresRequest_MarshalTo,
                schedulerpb_GetAllStoresRequest_Size, schedulerpb_GetAllStoresRequest_Unmarshal),
      schedulerpb_GetAllStoresResponse |->
          Codec(schedulerpb_GetAllStoresResponse_MarshalTo,
                schedulerpb_GetAllStoresResponse_Size, schedulerpb_GetAllStoresResponse_Unmarshal),
      schedulerpb_GetRegionRequest |->
          Codec(schedulerpb_GetRegionRequest_MarshalTo,
                schedulerpb_GetRegionRequest_Size, schedulerpb_GetRegionRequest_Unmarshal),
      schedulerpb_GetRegionResponse |->
          Codec(schedulerpb_GetRegionResponse_MarshalTo,
                schedulerpb_GetRegionResponse_Size, schedulerpb_GetRegionResponse_Unmarshal),
      schedulerpb_GetRegionByIDRequest |->
          Codec(schedulerpb_GetRegionByIDRequest_MarshalTo,
                schedulerpb_GetRegionByIDRequest_Size, schedulerpb_GetRegionByIDRequest_Unmarshal),
      schedulerpb_ScanRegionsRequest |->
          Codec(schedulerpb_ScanRegionsRequest_MarshalTo,
                schedulerpb_ScanRegionsRequest_Size, schedulerpb_ScanRegionsRequest_Unmarshal),
      schedulerpb_ScanRegionsResponse |->
          Codec(schedulerpb_ScanRegionsResponse_MarshalTo,
                schedulerpb_ScanRegionsResponse_Size, schedulerpb_ScanRegionsResponse_Unmarshal),
      schedulerpb_GetClusterConfigRequest |->
          Codec(schedulerpb_GetClusterConfigRequest_MarshalTo,
                schedulerpb_GetClusterConfigRequest_Size,
                schedulerpb_GetClusterConfigRequest_Unmarshal),
      schedulerpb_GetClusterConfigResponse |->
          Codec(schedulerpb_GetClusterConfigResponse_MarshalTo,
                schedulerpb_GetClusterConfigResponse_Size,
                schedulerpb_GetClusterConfigResponse_Unmarshal),
      schedulerpb_PutClusterConfigRequest |->
          Codec(schedulerpb_PutClusterConfigRequest_MarshalTo,
                schedulerpb_PutClusterConfigRequest_Size,
                schedulerpb_PutClusterConfigRequest_Unmarshal),
      schedulerpb_PutClusterConfigResponse |->
          Codec(schedulerpb_PutClusterConfigResponse_MarshalTo,
                schedulerpb_PutClusterConfigResponse_Size,
                schedulerpb_PutClusterConfigResponse_Unmarshal),
      schedulerpb_Member |->
          Codec(schedulerpb_Member_MarshalTo,
                schedulerpb_Member_Size, schedulerpb_Member_Unmarshal),
      schedulerpb_GetMembersRequest |->
          Codec(schedulerpb_GetMembersRequest_MarshalTo,
                schedulerpb_GetMembersRequest_Size, schedulerpb_GetMembersRequest_Unmarshal),
      schedulerpb_GetMembersResponse |->
          Codec(schedulerpb_GetMembersResponse_MarshalTo,
                schedulerpb_GetMembersResponse_Size, schedulerpb_GetMembersResponse_Unmarshal),
      schedulerpb_RegionHeartbeatRequest |->
          Codec(schedulerpb_RegionHeartbeatRequest_MarshalTo,
                schedulerpb_RegionHeartbeatRequest_Size,
                schedulerpb_RegionHeartbeatRequest_Unmarshal),
      schedulerpb_ChangePeer |->
          Codec(schedulerpb_ChangePeer_MarshalTo,
                schedulerpb_ChangePeer_Size, schedulerpb_ChangePeer_Unmarshal),
      schedulerpb_TransferLeader |->
          Codec(schedulerpb_TransferLeader_MarshalTo,
                schedulerpb_TransferLeader_Size, schedulerpb_TransferLeader_Unmarshal),
      schedulerpb_RegionHeartbeatResponse |->
          Codec(schedulerpb_RegionHeartbeatResponse_MarshalTo,
                schedulerpb_RegionHeartbeatResponse_Size,
                schedulerpb_RegionHeartbeatResponse_Unmarshal),
      schedulerpb_AskSplitRequest |->
          Codec(schedulerpb_AskSplitRequest_MarshalTo,
                schedulerpb_AskSplitRequest_Size, schedulerpb_AskSplitRequest_Unmarshal),
      schedulerpb_AskSplitResponse |->
          Codec(schedulerpb_AskSplitResponse_MarshalTo,
                schedulerpb_AskSplitResponse_Size, schedulerpb_AskSplitResponse_Unmarshal),
      schedulerpb_ReportSplitRequest |->
          Codec(schedulerpb_ReportSplitRequest_MarshalTo,
                schedulerpb_ReportSplitRequest_Size, schedulerpb_ReportSplitRequest_Unmarshal),
      schedulerpb_ReportSplitResponse |->
          Codec(schedulerpb_ReportSplitResponse_MarshalTo,
                schedulerpb_ReportSplitResponse_Size, schedulerpb_ReportSplitResponse_Unmarshal),
      schedulerpb_SplitID |->
          Codec(schedulerpb_SplitID_MarshalTo,
                schedulerpb_SplitID_Size, schedulerpb_SplitID_Unmarshal),
      schedulerpb_TimeInterval |->
          Codec(schedulerpb_TimeInterval_MarshalTo,
                schedulerpb_TimeInterval_Size, schedulerpb_TimeInterval_Unmarshal),
      schedulerpb_RecordPair |->
          Codec(schedulerpb_RecordPair_MarshalTo,
                schedulerpb_RecordPair_Size, schedulerpb_RecordPair_Unmarshal),
      schedulerpb_StoreStats |->
          Codec(schedulerpb_StoreStats_MarshalTo,
                schedulerpb_StoreStats_Size, schedulerpb_StoreStats_Unmarshal),
      schedulerpb_StoreHeartbeatRequest |->
          Codec(schedulerpb_StoreHeartbeatRequest_MarshalTo,
                schedulerpb_StoreHeartbeatRequest_Size,
                schedulerpb_StoreHeartbeatRequest_Unmarshal),
      schedulerpb_StoreHeartbeatResponse |->
          Codec(schedulerpb_StoreHeartbeatResponse_MarshalTo,
                schedulerpb_StoreHeartbeatResponse_Size,
                schedulerpb_StoreHeartbeatResponse_Unmarshal),
      schedulerpb_ScatterRegionRequest |->
          Codec(schedulerpb_ScatterRegionRequest_MarshalTo,
                schedulerpb_ScatterRegionRequest_Size, schedulerpb_ScatterRegionRequest_Unmarshal),
      schedulerpb_ScatterRegionResponse |->
          Codec(schedulerpb_ScatterRegionResponse_MarshalTo,
                schedulerpb_ScatterRegionResponse_Size,
                schedulerpb_ScatterRegionResponse_Unmarshal),
      schedulerpb_GetGCSafePointRequest |->
          Codec(schedulerpb_GetGCSafePointRequest_MarshalTo,
                schedulerpb_GetGCSafePointRequest_Size,
                schedulerpb_GetGCSafePointRequest_Unmarshal),
      schedulerpb_GetGCSafePointResponse |->
          Codec(schedulerpb_GetGCSafePointResponse_MarshalTo,
                schedulerpb_GetGCSafePointResponse_Size,
                schedulerpb_GetGCSafePointResponse_Unmarshal),
      schedulerpb_UpdateGCSafePointRequest |->
          Codec(schedulerpb_UpdateGCSafePointRequest_MarshalTo,
                schedulerpb_UpdateGCSafePointRequest_Size,
                schedulerpb_UpdateGCSafePointRequest_Unmarshal),
      schedulerpb_UpdateGCSafePointResponse |->
          Codec(schedulerpb_UpdateGCSafePointResponse_MarshalTo,
                schedulerpb_UpdateGCSafePointResponse_Size,
                schedulerpb_UpdateGCSafePointResponse_Unmarshal),
      schedulerpb_GetOperatorRequest |->
          Codec(schedulerpb_GetOperatorRequest_MarshalTo,
                schedulerpb_GetOperatorRequest_Size, schedulerpb_GetOperatorRequest_Unmarshal),
      schedulerpb_GetOperatorResponse |->
          Codec(schedulerpb_GetOperatorResponse_MarshalTo,
                schedulerpb_GetOperatorResponse_Size, schedulerpb_GetOperatorResponse_Unmarshal)]
=============================================================================
