------------------------------ MODULE PbKvrpcpb -----------------------------
(***************************************************************************)
(* The messages of proto/pkg/kvrpcpb, as their generated code sees them.   *)
(* One table for each of MarshalTo, Size and Unmarshal of every message;   *)
(* ProtoFields says what an entry is, ProtoWire what it means.             *)
(***************************************************************************)
EXTENDS ProtoFields

kvrpcpb_RawGetRequest_MarshalTo == <<
    M("Context", "kvrpcpb_Context", <<10>>), B("Key", <<18>>), B("Cf", <<26>>) >>
kvrpcpb_RawGetRequest_Size == << M("Context", "kvrpcpb_Context", 1), B("Key", 1), B("Cf", 1) >>
kvrpcpb_RawGetRequest_Unmarshal == <<
    M("Context", "kvrpcpb_Context", 1), B("Key", 2), B("Cf", 3) >>

kvrpcpb_RawGetResponse_MarshalTo == <<
    M("RegionError", "errorpb_Error", <<10>>), B("Error", <<18>>), B("Value", <<26>>),
    V("NotFound", "bool", <<32>>) >>
kvrpcpb_RawGetResponse_Size == <<
    M("RegionError", "errorpb_Error", 1), B("Error", 1), B("Value", 1),
    V("NotFound", "bool", 2) >>
kvrpcpb_RawGetResponse_Unmarshal == <<
    M("RegionError", "errorpb_Error", 1), B("Error", 2), B("Value", 3),
    V("NotFound", "bool", 4) >>

kvrpcpb_RawPutRequest_MarshalTo == <<
    M("Context", "kvrpcpb_Context", <<10>>), B("Key", <<18>>), B("Value", <<26>>),
    B("Cf", <<34>>) >>
kvrpcpb_RawPutRequest_Size == <<
    M("Context", "kvrpcpb_Context", 1), B("Key", 1), B("Value", 1), B("Cf", 1) >>
kvrpcpb_RawPutRequest_Unmarshal == <<
    M("Context", "kvrpcpb_Context", 1), B("Key", 2), B("Value", 3), B("Cf", 4) >>

kvrpcpb_RawPutResponse_MarshalTo == <<
    M("RegionError", "errorpb_Error", <<10>>), B("Error", <<18>>) >>
kvrpcpb_RawPutResponse_Size == << M("RegionError", "errorpb_Error", 1), B("Error", 1) >>
kvrpcpb_RawPutResponse_Unmarshal == << M("RegionError", "errorpb_Error", 1), B("Error", 2) >>

kvrpcpb_RawDeleteRequest_MarshalTo == <<
    M("Context", "kvrpcpb_Context", <<10>>), B("Key", <<18>>), B("Cf", <<26>>) >>
kvrpcpb_RawDeleteRequest_Size == <<
    M("Context", "kvrpcpb_Context", 1), B("Key", 1), B("Cf", 1) >>
kvrpcpb_RawDeleteRequest_Unmarshal == <<
    M("Context", "kvrpcpb_Context", 1), B("Key", 2), B("Cf", 3) >>

kvrpcpb_RawDeleteResponse_MarshalTo == <<
    M("RegionError", "errorpb_Error", <<10>>), B("Error", <<18>>) >>
kvrpcpb_RawDeleteResponse_Size == << M("RegionError", "errorpb_Error", 1), B("Error", 1) >>
kvrpcpb_RawDeleteResponse_Unmarshal == << M("RegionError", "errorpb_Error", 1), B("Error", 2) >>

kvrpcpb_RawScanRequest_MarshalTo == <<
    M("Context", "kvrpcpb_Context", <<10>>), B("StartKey", <<18>>),
    V("Limit", "uint32", <<24>>), B("Cf", <<34>>) >>
kvrpcpb_RawScanRequest_Size == <<
    M("Context", "kvrpcpb_Context", 1), B("StartKey", 1), V("Limit", "uint32", 1),
    B("Cf", 1) >>
kvrpcpb_RawScanRequest_Unmarshal == <<
    M("Context", "kvrpcpb_Context", 1), B("StartKey", 2), V("Limit", "uint32", 3),
    B("Cf", 4) >>

kvrpcpb_RawScanResponse_MarshalTo == <<
    M("RegionError", "errorpb_Error", <<10>>), B("Error", <<18>>),
    RM("Kvs", "kvrpcpb_KvPair", <<26>>) >>
kvrpcpb_RawScanResponse_Size == <<
    M("RegionError", "errorpb_Error", 1), B("Error", 1), RM("Kvs", "kvrpcpb_KvPair", 1) >>
kvrpcpb_RawScanResponse_Unmarshal == <<
    M("RegionError", "errorpb_Error", 1), B("Error", 2), RM("Kvs", "kvrpcpb_KvPair", 3) >>

kvrpcpb_GetRequest_MarshalTo == <<
    M("Context", "kvrpcpb_Context", <<10>>), B("Key", <<18>>),
    V("Version", "uint64", <<24>>) >>
kvrpcpb_GetRequest_Size == <<
    M("Context", "kvrpcpb_Context", 1), B("Key", 1), V("Version", "uint64", 1) >>
kvrpcpb_GetRequest_Unmarshal == <<
    M("Context", "kvrpcpb_Context", 1), B("Key", 2), V("Version", "uint64", 3) >>

kvrpcpb_GetResponse_MarshalTo == <<
    M("RegionError", "errorpb_Error", <<10>>), M("Error", "kvrpcpb_KeyError", <<18>>),
    B("Value", <<26>>), V("NotFound", "bool", <<32>>) >>
kvrpcpb_GetResponse_Size == <<
    M("RegionError", "errorpb_Error", 1), M("Error", "kvrpcpb_KeyError", 1), B("Value", 1),
    V("NotFound", "bool", 2) >>
kvrpcpb_GetResponse_Unmarshal == <<
    M("RegionError", "errorpb_Error", 1), M("Error", "kvrpcpb_KeyError", 2), B("Value", 3),
    V("NotFound", "bool", 4) >>

kvrpcpb_PrewriteRequest_MarshalTo == <<
    M("Context", "kvrpcpb_Context", <<10>>), RM("Mutations", "kvrpcpb_Mutation", <<18>>),
    B("PrimaryLock", <<26>>), V("StartVersion", "uint64", <<32>>),
    V("LockTtl", "uint64", <<40>>) >>
kvrpcpb_PrewriteRequest_Size == <<
    M("Context", "kvrpcpb_Context", 1), RM("Mutations", "kvrpcpb_Mutation", 1),
    B("PrimaryLock", 1), V("StartVersion", "uint64", 1), V("LockTtl", "uint64", 1) >>
kvrpcpb_PrewriteRequest_Unmarshal == <<
    M("Context", "kvrpcpb_Context", 1), RM("Mutations", "kvrpcpb_Mutation", 2),
    B("PrimaryLock", 3), V("StartVersion", "uint64", 4), V("LockTtl", "uint64", 5) >>

kvrpcpb_PrewriteResponse_MarshalTo == <<
    M("RegionError", "errorpb_Error", <<10>>), RM("Errors", "kvrpcpb_KeyError", <<18>>) >>
kvrpcpb_PrewriteResponse_Size == <<
    M("RegionError", "errorpb_Error", 1), RM("Errors", "kvrpcpb_KeyError", 1) >>
kvrpcpb_PrewriteResponse_Unmarshal == <<
    M("RegionError", "errorpb_Error", 1), RM("Errors", "kvrpcpb_KeyError", 2) >>

kvrpcpb_CommitRequest_MarshalTo == <<
    M("Context", "kvrpcpb_Context", <<10>>), V("StartVersion", "uint64", <<16>>),
    RB("Keys", <<26>>), V("CommitVersion", "uint64", <<32>>) >>
kvrpcpb_CommitRequest_Size == <<
    M("Context", "kvrpcpb_Context", 1), V("StartVersion", "uint64", 1), RB("Keys", 1),
    V("CommitVersion", "uint64", 1) >>
kvrpcpb_CommitRequest_Unmarshal == <<
    M("Context", "kvrpcpb_Context", 1), V("StartVersion", "uint64", 2), RB("Keys", 3),
    V("CommitVersion", "uint64", 4) >>

kvrpcpb_CommitResponse_MarshalTo == <<
    M("RegionError", "errorpb_Error", <<10>>), M("Error", "kvrpcpb_KeyError", <<18>>) >>
kvrpcpb_CommitResponse_Size == <<
    M("RegionError", "errorpb_Error", 1), M("Error", "kvrpcpb_KeyError", 1) >>
kvrpcpb_CommitResponse_Unmarshal == <<
    M("RegionError", "errorpb_Error", 1), M("Error", "kvrpcpb_KeyError", 2) >>

kvrpcpb_ScanRequest_MarshalTo == <<
    M("Context", "kvrpcpb_Context", <<10>>), B("StartKey", <<18>>),
    V("Limit", "uint32", <<24>>), V("Version", "uint64", <<32>>) >>
kvrpcpb_ScanRequest_Size == <<
    M("Context", "kvrpcpb_Context", 1), B("StartKey", 1), V("Limit", "uint32", 1),
    V("Version", "uint64", 1) >>
kvrpcpb_ScanRequest_Unmarshal == <<
    M("Context", "kvrpcpb_Context", 1), B("StartKey", 2), V("Limit", "uint32", 3),
    V("Version", "uint64", 4) >>

kvrpcpb_ScanResponse_MarshalTo == <<
    M("RegionError", "errorpb_Error", <<10>>), RM("Pairs", "kvrpcpb_KvPair", <<18>>) >>
kvrpcpb_ScanResponse_Size == <<
    M("RegionError", "errorpb_Error", 1), RM("Pairs", "kvrpcpb_KvPair", 1) >>
kvrpcpb_ScanResponse_Unmarshal == <<
    M("RegionError", "errorpb_Error", 1), RM("Pairs", "kvrpcpb_KvPair", 2) >>

kvrpcpb_BatchRollbackRequest_MarshalTo == <<
    M("Context", "kvrpcpb_Context", <<10>>), V("StartVersion", "uint64", <<16>>),
    RB("Keys", <<26>>) >>
kvrpcpb_BatchRollbackRequest_Size == <<
    M("Context", "kvrpcpb_Context", 1), V("StartVersion", "uint64", 1), RB("Keys", 1) >>
kvrpcpb_BatchRollbackRequest_Unmarshal == <<
    M("Context", "kvrpcpb_Context", 1), V("StartVersion", "uint64", 2), RB("Keys", 3) >>

kvrpcpb_BatchRollbackResponse_MarshalTo == <<
    M("RegionError", "errorpb_Error", <<10>>), M("Error", "kvrpcpb_KeyError", <<18>>) >>
kvrpcpb_BatchRollbackResponse_Size == <<
    M("RegionError", "errorpb_Error", 1), M("Error", "kvrpcpb_KeyError", 1) >>
kvrpcpb_BatchRollbackResponse_Unmarshal == <<
    M("RegionError", "errorpb_Error", 1), M("Error", "kvrpcpb_KeyError", 2) >>

kvrpcpb_CheckTxnStatusRequest_MarshalTo == <<
    M("Context", "kvrpcpb_Context", <<10>>), B("PrimaryKey", <<18>>),
    V("LockTs", "uint64", <<24>>), V("CurrentTs", "uint64", <<32>>) >>
kvrpcpb_CheckTxnStatusRequest_Size == <<
    M("Context", "kvrpcpb_Context", 1), B("PrimaryKey", 1), V("LockTs", "uint64", 1),
    V("CurrentTs", "uint64", 1) >>
kvrpcpb_CheckTxnStatusRequest_Unmarshal == <<
    M("Context", "kvrpcpb_Context", 1), B("PrimaryKey", 2), V("LockTs", "uint64", 3),
    V("CurrentTs", "uint64", 4) >>

kvrpcpb_CheckTxnStatusResponse_MarshalTo == <<
    M("RegionError", "errorpb_Error", <<10>>), V("LockTtl", "uint64", <<16>>),
    V("CommitVersion", "uint64", <<24>>), V("Action", "int32", <<32>>) >>
kvrpcpb_CheckTxnStatusResponse_Size == <<
    M("RegionError", "errorpb_Error", 1), V("LockTtl", "uint64", 1),
    V("CommitVersion", "uint64", 1), V("Action", "int32", 1) >>
kvrpcpb_CheckTxnStatusResponse_Unmarshal == <<
    M("RegionError", "errorpb_Error", 1), V("LockTtl", "uint64", 2),
    V("CommitVersion", "uint64", 3), V("Action", "int32", 4) >>

kvrpcpb_ResolveLockRequest_MarshalTo == <<
    M("Context", "kvrpcpb_Context", <<10>>), V("StartVersion", "uint64", <<16>>),
    V("CommitVersion", "uint64", <<24>>) >>
kvrpcpb_ResolveLockRequest_Size == <<
    M("Context", "kvrpcpb_Context", 1), V("StartVersion", "uint64", 1),
    V("CommitVersion", "uint64", 1) >>
kvrpcpb_ResolveLockRequest_Unmarshal == <<
    M("Context", "kvrpcpb_Context", 1), V("StartVersion", "uint64", 2),
    V("CommitVersion", "uint64", 3) >>

kvrpcpb_ResolveLockResponse_MarshalTo == <<
    M("RegionError", "errorpb_Error", <<10>>), M("Error", "kvrpcpb_KeyError", <<18>>) >>
kvrpcpb_ResolveLockResponse_Size == <<
    M("RegionError", "errorpb_Error", 1), M("Error", "kvrpcpb_KeyError", 1) >>
kvrpcpb_ResolveLockResponse_Unmarshal == <<
    M("RegionError", "errorpb_Error", 1), M("Error", "kvrpcpb_KeyError", 2) >>

kvrpcpb_KvPair_MarshalTo == <<
    M("Error", "kvrpcpb_KeyError", <<10>>), B("Key", <<18>>), B("Value", <<26>>) >>
kvrpcpb_KvPair_Size == << M("Error", "kvrpcpb_KeyError", 1), B("Key", 1), B("Value", 1) >>
kvrpcpb_KvPair_Unmarshal == << M("Error", "kvrpcpb_KeyError", 1), B("Key", 2), B("Value", 3) >>

kvrpcpb_Mutation_MarshalTo == <<
    V("Op", "int32", <<8>>), B("Key", <<18>>), B("Value", <<26>>) >>
kvrpcpb_Mutation_Size == << V("Op", "int32", 1), B("Key", 1), B("Value", 1) >>
kvrpcpb_Mutation_Unmarshal == << V("Op", "int32", 1), B("Key", 2), B("Value", 3) >>

kvrpcpb_KeyError_MarshalTo == <<
    M("Locked", "kvrpcpb_LockInfo", <<10>>), B("Retryable", <<18>>), B("Abort", <<26>>),
    M("Conflict", "kvrpcpb_WriteConflict", <<34>>) >>
kvrpcpb_KeyError_Size == <<
    M("Locked", "kvrpcpb_LockInfo", 1), B("Retryable", 1), B("Abort", 1),
    M("Conflict", "kvrpcpb_WriteConflict", 1) >>
kvrpcpb_KeyError_Unmarshal == <<
    M("Locked", "kvrpcpb_LockInfo", 1), B("Retryable", 2), B("Abort", 3),
    M("Conflict", "kvrpcpb_WriteConflict", 4) >>

kvrpcpb_LockInfo_MarshalTo == <<
    B("PrimaryLock", <<10>>), V("LockVersion", "uint64", <<16>>), B("Key", <<26>>),
    V("LockTtl", "uint64", <<32>>) >>
kvrpcpb_LockInfo_Size == <<
    B("PrimaryLock", 1), V("LockVersion", "uint64", 1), B("Key", 1),
    V("LockTtl", "uint64", 1) >>
kvrpcpb_LockInfo_Unmarshal == <<
    B("PrimaryLock", 1), V("LockVersion", "uint64", 2), B("Key", 3),
    V("LockTtl", "uint64", 4) >>

kvrpcpb_WriteConflict_MarshalTo == <<
    V("StartTs", "uint64", <<8>>), V("ConflictTs", "uint64", <<16>>), B("Key", <<26>>),
    B("Primary", <<34>>) >>
kvrpcpb_WriteConflict_Size == <<
    V("StartTs", "uint64", 1), V("ConflictTs", "uint64", 1), B("Key", 1), B("Primary", 1) >>
kvrpcpb_WriteConflict_Unmarshal == <<
    V("StartTs", "uint64", 1), V("ConflictTs", "uint64", 2), B("Key", 3), B("Primary", 4) >>

kvrpcpb_Context_MarshalTo == <<
    V("RegionId", "uint64", <<8>>), M("RegionEpoch", "metapb_RegionEpoch", <<18>>),
    M("Peer", "metapb_Peer", <<26>>), V("Term", "uint64", <<40>>) >>
kvrpcpb_Context_Size == <<
    V("RegionId", "uint64", 1), M("RegionEpoch", "metapb_RegionEpoch", 1),
    M("Peer", "metapb_Peer", 1), V("Term", "uint64", 1) >>
kvrpcpb_Context_Unmarshal == <<
    V("RegionId", "uint64", 1), M("RegionEpoch", "metapb_RegionEpoch", 2),
    M("Peer", "metapb_Peer", 3), V("Term", "uint64", 5) >>

kvrpcpb_Messages ==
    [ kvrpcpb_RawGetRequest |->
          Codec(kvrpcpb_RawGetRequest_MarshalTo,
                kvrpcpb_RawGetRequest_Size, kvrpcpb_RawGetRequest_Unmarshal),
      kvrpcpb_RawGetResponse |->
          Codec(kvrpcpb_RawGetResponse_MarshalTo,
                kvrpcpb_RawGetResponse_Size, kvrpcpb_RawGetResponse_Unmarshal),
      kvrpcpb_RawPutRequest |->
          Codec(kvrpcpb_RawPutRequest_MarshalTo,
                kvrpcpb_RawPutRequest_Size, kvrpcpb_RawPutRequest_Unmarshal),
      kvrpcpb_RawPutResponse |->
          Codec(kvrpcpb_RawPutResponse_MarshalTo,
                kvrpcpb_RawPutResponse_Size, kvrpcpb_RawPutResponse_Unmarshal),
      kvrpcpb_RawDeleteRequest |->
          Codec(kvrpcpb_RawDeleteRequest_MarshalTo,
                kvrpcpb_RawDeleteRequest_Size, kvrpcpb_RawDeleteRequest_Unmarshal),
      kvrpcpb_RawDeleteResponse |->
          Codec(kvrpcpb_RawDeleteResponse_MarshalTo,
                kvrpcpb_RawDeleteResponse_Size, kvrpcpb_RawDeleteResponse_Unmarshal),
      kvrpcpb_RawScanRequest |->
          Codec(kvrpcpb_RawScanRequest_MarshalTo,
                kvrpcpb_RawScanRequest_Size, kvrpcpb_RawScanRequest_Unmarshal),
      kvrpcpb_RawScanResponse |->
          Codec(kvrpcpb_RawScanResponse_MarshalTo,
                kvrpcpb_RawScanResponse_Size, kvrpcpb_RawScanResponse_Unmarshal),
      kvrpcpb_GetRequest |->
          Codec(kvrpcpb_GetRequest_MarshalTo,
                kvrpcpb_GetRequest_Size, kvrpcpb_GetRequest_Unmarshal),
      kvrpcpb_GetResponse |->
          Codec(kvrpcpb_GetResponse_MarshalTo,
                kvrpcpb_GetResponse_Size, kvrpcpb_GetResponse_Unmarshal),
      kvrpcpb_PrewriteRequest |->
          Codec(kvrpcpb_PrewriteRequest_MarshalTo,
                kvrpcpb_PrewriteRequest_Size, kvrpcpb_PrewriteRequest_Unmarshal),
      kvrpcpb_PrewriteResponse |->
          Codec(kvrpcpb_PrewriteResponse_MarshalTo,
                kvrpcpb_PrewriteResponse_Size, kvrpcpb_PrewriteResponse_Unmarshal),
      kvrpcpb_CommitRequest |->
          Codec(kvrpcpb_CommitRequest_MarshalTo,
                kvrpcpb_CommitRequest_Size, kvrpcpb_CommitRequest_Unmarshal),
      kvrpcpb_CommitResponse |->
          Codec(kvrpcpb_CommitResponse_MarshalTo,
                kvrpcpb_CommitResponse_Size, kvrpcpb_CommitResponse_Unmarshal),
      kvrpcpb_ScanRequest |->
          Codec(kvrpcpb_ScanRequest_MarshalTo,
                kvrpcpb_ScanRequest_Size, kvrpcpb_ScanRequest_Unmarshal),
      kvrpcpb_ScanResponse |->
          Codec(kvrpcpb_ScanResponse_MarshalTo,
                kvrpcpb_ScanResponse_Size, kvrpcpb_ScanResponse_Unmarshal),
      kvrpcpb_BatchRollbackRequest |->
          Codec(kvrpcpb_BatchRollbackRequest_MarshalTo,
                kvrpcpb_BatchRollbackRequest_Size, kvrpcpb_BatchRollbackRequest_Unmarshal),
      kvrpcpb_BatchRollbackResponse |->
          Codec(kvrpcpb_BatchRollbackResponse_MarshalTo,
                kvrpcpb_BatchRollbackResponse_Size, kvrpcpb_BatchRollbackResponse_Unmarshal),
      kvrpcpb_CheckTxnStatusRequest |->
          Codec(kvrpcpb_CheckTxnStatusRequest_MarshalTo,
                kvrpcpb_CheckTxnStatusRequest_Size, kvrpcpb_CheckTxnStatusRequest_Unmarshal),
      kvrpcpb_CheckTxnStatusResponse |->
          Codec(kvrpcpb_CheckTxnStatusResponse_MarshalTo,
                kvrpcpb_CheckTxnStatusResponse_Size, kvrpcpb_CheckTxnStatusResponse_Unmarshal),
      kvrpcpb_ResolveLockRequest |->
          Codec(kvrpcpb_ResolveLockRequest_MarshalTo,
                kvrpcpb_ResolveLockRequest_Size, kvrpcpb_ResolveLockRequest_Unmarshal),
      kvrpcpb_ResolveLockResponse |->
          Codec(kvrpcpb_ResolveLockResponse_MarshalTo,
                kvrpcpb_ResolveLockResponse_Size, kvrpcpb_ResolveLockResponse_Unmarshal),
      kvrpcpb_KvPair |->
          Codec(kvrpcpb_KvPair_MarshalTo, kvrpcpb_KvPair_Size, kvrpcpb_KvPair_Unmarshal),
      kvrpcpb_Mutation |->
          Codec(kvrpcpb_Mutation_MarshalTo, kvrpcpb_Mutation_Size, kvrpcpb_Mutation_Unmarshal),
      kvrpcpb_KeyError |->
          Codec(kvrpcpb_KeyError_MarshalTo, kvrpcpb_KeyError_Size, kvrpcpb_KeyError_Unmarshal),
      kvrpcpb_LockInfo |->
          Codec(kvrpcpb_LockInfo_MarshalTo, kvrpcpb_LockInfo_Size, kvrpcpb_LockInfo_Unmarshal),
      kvrpcpb_WriteConflict |->
          Codec(kvrpcpb_WriteConflict_MarshalTo,
                kvrpcpb_WriteConflict_Size, kvrpcpb_WriteConflict_Unmarshal),
      kvrpcpb_Context |->
          Codec(kvrpcpb_Context_MarshalTo, kvrpcpb_Context_Size, kvrpcpb_Context_Unmarshal)]
=============================================================================
