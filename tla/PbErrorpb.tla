------------------------------ MODULE PbErrorpb -----------------------------
(***************************************************************************)
(* The messages of proto/pkg/errorpb, as their generated code sees them.   *)
(* One table for each of MarshalTo, Size and Unmarshal of every message;   *)
(* ProtoFields says what an entry is, ProtoWire what it means.             *)
(***************************************************************************)
EXTENDS ProtoFields

errorpb_NotLeader_MarshalTo == <<
    V("RegionId", "uint64", <<8>>), M("Leader", "metapb_Peer", <<18>>) >>
errorpb_NotLeader_Size == << V("RegionId", "uint64", 1), M("Leader", "metapb_Peer", 1) >>
errorpb_NotLeader_Unmarshal == << V("RegionId", "uint64", 1), M("Leader", "metapb_Peer", 2) >>

errorpb_StoreNotMatch_MarshalTo == <<
    V("RequestStoreId", "uint64", <<8>>), V("ActualStoreId", "uint64", <<16>>) >>
errorpb_StoreNotMatch_Size == <<
    V("RequestStoreId", "uint64", 1), V("ActualStoreId", "uint64", 1) >>
errorpb_StoreNotMatch_Unmarshal == <<
    V("RequestStoreId", "uint64", 1), V("ActualStoreId", "uint64", 2) >>

errorpb_RegionNotFound_MarshalTo == << V("RegionId", "uint64", <<8>>) >>
errorpb_RegionNotFound_Size == << V("RegionId", "uint64", 1) >>
errorpb_RegionNotFound_Unmarshal == << V("RegionId", "uint64", 1) >>

errorpb_KeyNotInRegion_MarshalTo == <<
    B("Key", <<10>>), V("RegionId", "uint64", <<16>>), B("StartKey", <<26>>),
    B("EndKey", <<34>>) >>
errorpb_KeyNotInRegion_Size == <<
    B("Key", 1), V("RegionId", "uint64", 1), B("StartKey", 1), B("EndKey", 1) >>
errorpb_KeyNotInRegion_Unmarshal == <<
    B("Key", 1), V("RegionId", "uint64", 2), B("StartKey", 3), B("EndKey", 4) >>

errorpb_EpochNotMatch_MarshalTo == << RM("CurrentRegions", "metapb_Region", <<10>>) >>
errorpb_EpochNotMatch_Size == << RM("CurrentRegions", "metapb_Region", 1) >>
errorpb_EpochNotMatch_Unmarshal == << RM("CurrentRegions", "metapb_Region", 1) >>

errorpb_StaleCommand_MarshalTo == <<>>
errorpb_StaleCommand_Size == <<>>
errorpb_StaleCommand_Unmarshal == <<>>

errorpb_Error_MarshalTo == <<
    B("Message", <<10>>), M("NotLeader", "errorpb_NotLeader", <<18>>),
    M("RegionNotFound", "errorpb_RegionNotFound", <<26>>),
    M("KeyNotInRegion", "errorpb_KeyNotInRegion", <<34>>),
    M("EpochNotMatch", "errorpb_EpochNotMatch", <<42>>),
    M("StaleCommand", "errorpb_StaleCommand", <<58>>),
    M("StoreNotMatch", "errorpb_StoreNotMatch", <<66>>) >>
errorpb_Error_Size == <<
    B("Message", 1), M("NotLeader", "errorpb_NotLeader", 1),
    M("RegionNotFound", "errorpb_RegionNotFound", 1),
    M("KeyNotInRegion", "errorpb_KeyNotInRegion", 1),
    M("EpochNotMatch", "errorpb_EpochNotMatch", 1),
    M("StaleCommand", "errorpb_StaleCommand", 1),
    M("StoreNotMatch", "errorpb_StoreNotMatch", 1) >>
errorpb_Error_Unmarshal == <<
    B("Message", 1), M("NotLeader", "errorpb_NotLeader", 2),
    M("RegionNotFound", "errorpb_RegionNotFound", 3),
    M("KeyNotInRegion", "errorpb_KeyNotInRegion", 4),
    M("EpochNotMatch", "errorpb_EpochNotMatch", 5),
    M("StaleCommand", "errorpb_StaleCommand", 7),
    M("StoreNotMatch", "errorpb_StoreNotMatch", 8) >>

errorpb_Messages ==
    [ errorpb_NotLeader |->
          Codec(errorpb_NotLeader_MarshalTo, errorpb_NotLeader_Size, errorpb_NotLeader_Unmarshal),
      errorpb_StoreNotMatch |->
          Codec(errorpb_StoreNotMatch_MarshalTo,
                errorpb_StoreNotMatch_Size, errorpb_StoreNotMatch_Unmarshal),
      errorpb_RegionNotFound |->
          Codec(errorpb_RegionNotFound_MarshalTo,
                errorpb_RegionNotFound_Size, errorpb_RegionNotFound_Unmarshal),
      errorpb_KeyNotInRegion |->
          Codec(errorpb_KeyNotInRegion_MarshalTo,
                errorpb_KeyNotInRegion_Size, errorpb_KeyNotInRegion_Unmarshal),
      errorpb_EpochNotMatch |->
          Codec(errorpb_EpochNotMatch_MarshalTo,
                errorpb_EpochNotMatch_Size, errorpb_EpochNotMatch_Unmarshal),
      errorpb_StaleCommand |->
          Codec(errorpb_StaleCommand_MarshalTo,
                errorpb_StaleCommand_Size, errorpb_StaleCommand_Unmarshal),
      errorpb_Error |-> Codec(errorpb_Error_MarshalTo, errorpb_Error_Size, errorpb_Error_Unmarshal)]
=============================================================================
