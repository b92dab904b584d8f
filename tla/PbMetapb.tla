------------------------------ MODULE PbMetapb ------------------------------
(***************************************************************************)
(* The messages of proto/pkg/metapb, as their generated code sees them.    *)
(* One table for each of MarshalTo, Size and Unmarshal of every message;   *)
(* ProtoFields says what an entry is, ProtoWire what it means.             *)
(***************************************************************************)
EXTENDS ProtoFields

metapb_Cluster_MarshalTo == << V("Id", "uint64", <<8>>), V("MaxPeerCount", "uint32", <<16>>) >>
metapb_Cluster_Size == << V("Id", "uint64", 1), V("MaxPeerCount", "uint32", 1) >>
metapb_Cluster_Unmarshal == << V("Id", "uint64", 1), V("MaxPeerCount", "uint32", 2) >>

metapb_Store_MarshalTo == <<
    V("Id", "uint64", <<8>>), B("Address", <<18>>), V("State", "int32", <<24>>) >>
metapb_Store_Size == << V("Id", "uint64", 1), B("Address", 1), V("State", "int32", 1) >>
metapb_Store_Unmarshal == << V("Id", "uint64", 1), B("Address", 2), V("State", "int32", 3) >>

metapb_RegionEpoch_MarshalTo == <<
    V("ConfVer", "uint64", <<8>>), V("Version", "uint64", <<16>>) >>
metapb_RegionEpoch_Size == << V("ConfVer", "uint64", 1), V("Version", "uint64", 1) >>
metapb_RegionEpoch_Unmarshal == << V("ConfVer", "uint64", 1), V("Version", "uint64", 2) >>

metapb_Region_MarshalTo == <<
    V("Id", "uint64", <<8>>), B("StartKey", <<18>>), B("EndKey", <<26>>),
    M("RegionEpoch", "metapb_RegionEpoch", <<34>>), RM("Peers", "metapb_Peer", <<42>>) >>
metapb_Region_Size == <<
    V("Id", "uint64", 1), B("StartKey", 1), B("EndKey", 1),
    M("RegionEpoch", "metapb_RegionEpoch", 1), RM("Peers", "metapb_Peer", 1) >>
metapb_Region_Unmarshal == <<
    V("Id", "uint64", 1), B("StartKey", 2), B("EndKey", 3),
    M("RegionEpoch", "metapb_RegionEpoch", 4), RM("Peers", "metapb_Peer", 5) >>

metapb_Peer_MarshalTo == << V("Id", "uint64", <<8>>), V("StoreId", "uint64", <<16>>) >>
metapb_Peer_Size == << V("Id", "uint64", 1), V("StoreId", "uint64", 1) >>
metapb_Peer_Unmarshal == << V("Id", "uint64", 1), V("StoreId", "uint64", 2) >>

metapb_Messages ==
    [ metapb_Cluster |->
          Codec(metapb_Cluster_MarshalTo, metapb_Cluster_Size, metapb_Cluster_Unmarshal),
      metapb_Store |-> Codec(metapb_Store_MarshalTo, metapb_Store_Size, metapb_Store_Unmarshal),
      metapb_RegionEpoch |->
          Codec(metapb_RegionEpoch_MarshalTo,
                metapb_RegionEpoch_Size, metapb_RegionEpoch_Unmarshal),
      metapb_Region |-> Codec(metapb_Region_MarshalTo, metapb_Region_Size, metapb_Region_Unmarshal),
      metapb_Peer |-> Codec(metapb_Peer_MarshalTo, metapb_Peer_Size, metapb_Peer_Unmarshal)]
=============================================================================
