---------------------------- MODULE PbCoprocessor ---------------------------
(***************************************************************************)
(* The messages of proto/pkg/coprocessor, as their generated code sees them.*)
(* One table for each of MarshalTo, Size and Unmarshal of every message;   *)
(* ProtoFields says what an entry is, ProtoWire what it means.             *)
(***************************************************************************)
EXTENDS ProtoFields

coprocessor_KeyRange_MarshalTo == << B("Start", <<10>>), B("End", <<18>>) >>
coprocessor_KeyRange_Size == << B("Start", 1), B("End", 1) >>
coprocessor_KeyRange_Unmarshal == << B("Start", 1), B("End", 2) >>

coprocessor_Request_MarshalTo == <<
    M("Context", "kvrpcpb_Context", <<10>>), V("Tp", "int64", <<16>>), B("Data", <<26>>),
    RM("Ranges", "coprocessor_KeyRange", <<34>>), V("StartTs", "uint64", <<56>>) >>
coprocessor_Request_Size == <<
    M("Context", "kvrpcpb_Context", 1), V("Tp", "int64", 1), B("Data", 1),
    RM("Ranges", "coprocessor_KeyRange", 1), V("StartTs", "uint64", 1) >>
coprocessor_Request_Unmarshal == <<
    M("Context", "kvrpcpb_Context", 1), V("Tp", "int64", 2), B("Data", 3),
    RM("Ranges", "coprocessor_KeyRange", 4), V("StartTs", "uint64", 7) >>

coprocessor_Response_MarshalTo == <<
    B("Data", <<10>>), M("RegionError", "errorpb_Error", <<18>>),
    M("Locked", "kvrpcpb_LockInfo", <<26>>), B("OtherError", <<34>>),
    M("Range", "coprocessor_KeyRange", <<42>>) >>
coprocessor_Response_Size == <<
    B("Data", 1), M("RegionError", "errorpb_Error", 1), M("Locked", "kvrpcpb_LockInfo", 1),
    B("OtherError", 1), M("Range", "coprocessor_KeyRange", 1) >>
coprocessor_Response_Unmarshal == <<
    B("Data", 1), M("RegionError", "errorpb_Error", 2), M("Locked", "kvrpcpb_LockInfo", 3),
    B("OtherError", 4), M("Range", "coprocessor_KeyRange", 5) >>

coprocessor_Messages ==
    [ coprocessor_KeyRange |->
          Codec(coprocessor_KeyRange_MarshalTo,
                coprocessor_KeyRange_Size, coprocessor_KeyRange_Unmarshal),
      coprocessor_Request |->
          Codec(coprocessor_Request_MarshalTo,
                coprocessor_Request_Size, coprocessor_Request_Unmarshal),
      coprocessor_Response |->
          Codec(coprocessor_Response_MarshalTo,
                coprocessor_Response_Size, coprocessor_Response_Unmarshal)]
=============================================================================
