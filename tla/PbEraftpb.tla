------------------------------ MODULE PbEraftpb -----------------------------
(***************************************************************************)
(* The messages of proto/pkg/eraftpb, as their generated code sees them.   *)
(* One table for each of MarshalTo, Size and Unmarshal of every message;   *)
(* ProtoFields says what an entry is, ProtoWire what it means.             *)
(***************************************************************************)
EXTENDS ProtoFields

eraftpb_Entry_MarshalTo == <<
    V("EntryType", "int32", <<8>>), V("Term", "uint64", <<16>>),
    V("Index", "uint64", <<24>>), B("Data", <<34>>) >>
eraftpb_Entry_Size == <<
    V("EntryType", "int32", 1), V("Term", "uint64", 1), V("Index", "uint64", 1),
    B("Data", 1) >>
eraftpb_Entry_Unmarshal == <<
    V("EntryType", "int32", 1), V("Term", "uint64", 2), V("Index", "uint64", 3),
    B("Data", 4) >>

eraftpb_SnapshotMetadata_MarshalTo == <<
    M("ConfState", "eraftpb_ConfState", <<10>>), V("Index", "uint64", <<16>>),
    V("Term", "uint64", <<24>>) >>
eraftpb_SnapshotMetadata_Size == <<
    M("ConfState", "eraftpb_ConfState", 1), V("Index", "uint64", 1),
    V("Term", "uint64", 1) >>
eraftpb_SnapshotMetadata_Unmarshal == <<
    M("ConfState", "eraftpb_ConfState", 1), V("Index", "uint64", 2),
    V("Term", "uint64", 3) >>

eraftpb_Snapshot_MarshalTo == <<
    B("Data", <<10>>), M("Metadata", "eraftpb_SnapshotMetadata", <<18>>) >>
eraftpb_Snapshot_Size == << B("Data", 1), M("Metadata", "eraftpb_SnapshotMetadata", 1) >>
eraftpb_Snapshot_Unmarshal == << B("Data", 1), M("Metadata", "eraftpb_SnapshotMetadata", 2) >>

eraftpb_Message_MarshalTo == <<
    V("MsgType", "int32", <<8>>), V("To", "uint64", <<16>>), V("From", "uint64", <<24>>),
    V("Term", "uint64", <<32>>), V("LogTerm", "uint64", <<40>>),
    V("Index", "uint64", <<48>>), RM("Entries", "eraftpb_Entry", <<58>>),
    V("Commit", "uint64", <<64>>), M("Snapshot", "eraftpb_Snapshot", <<74>>),
    V("Reject", "bool", <<80>>) >>
eraftpb_Message_Size == <<
    V("MsgType", "int32", 1), V("To", "uint64", 1), V("From", "uint64", 1),
    V("Term", "uint64", 1), V("LogTerm", "uint64", 1), V("Index", "uint64", 1),
    RM("Entries", "eraftpb_Entry", 1), V("Commit", "uint64", 1),
    M("Snapshot", "eraftpb_Snapshot", 1), V("Reject", "bool", 2) >>
eraftpb_Message_Unmarshal == <<
    V("MsgType", "int32", 1), V("To", "uint64", 2), V("From", "uint64", 3),
    V("Term", "uint64", 4), V("LogTerm", "uint64", 5), V("Index", "uint64", 6),
    RM("Entries", "eraftpb_Entry", 7), V("Commit", "uint64", 8),
    M("Snapshot", "eraftpb_Snapshot", 9), V("Reject", "bool", 10) >>

eraftpb_HardState_MarshalTo == <<
    V("Term", "uint64", <<8>>), V("Vote", "uint64", <<16>>),
    V("Commit", "uint64", <<24>>) >>
eraftpb_HardState_Size == <<
    V("Term", "uint64", 1), V("Vote", "uint64", 1), V("Commit", "uint64", 1) >>
eraftpb_HardState_Unmarshal == <<
    V("Term", "uint64", 1), V("Vote", "uint64", 2), V("Commit", "uint64", 3) >>

eraftpb_ConfState_MarshalTo == << P("Nodes", "uint64", <<10>>) >>
eraftpb_ConfState_Size == << P("Nodes", "uint64", 1) >>
eraftpb_ConfState_Unmarshal == << P("Nodes", "uint64", 1) >>

eraftpb_ConfChange_MarshalTo == <<
    V("ChangeType", "int32", <<8>>), V("NodeId", "uint64", <<16>>), B("Context", <<26>>) >>
eraftpb_ConfChange_Size == <<
    V("ChangeType", "int32", 1), V("NodeId", "uint64", 1), B("Context", 1) >>
eraftpb_ConfChange_Unmarshal == <<
    V("ChangeType", "int32", 1), V("NodeId", "uint64", 2), B("Context", 3) >>

eraftpb_Messages ==
    [ eraftpb_Entry |-> Codec(eraftpb_Entry_MarshalTo, eraftpb_Entry_Size, eraftpb_Entry_Unmarshal),
      eraftpb_SnapshotMetadata |->
          Codec(eraftpb_SnapshotMetadata_MarshalTo,
                eraftpb_SnapshotMetadata_Size, eraftpb_SnapshotMetadata_Unmarshal),
      eraftpb_Snapshot |->
          Codec(eraftpb_Snapshot_MarshalTo, eraftpb_Snapshot_Size, eraftpb_Snapshot_Unmarshal),
      eraftpb_Message |->
          Codec(eraftpb_Message_MarshalTo, eraftpb_Message_Size, eraftpb_Message_Unmarshal),
      eraftpb_HardState |->
          Codec(eraftpb_HardState_MarshalTo, eraftpb_HardState_Size, eraftpb_HardState_Unmarshal),
      eraftpb_ConfState |->
          Codec(eraftpb_ConfState_MarshalTo, eraftpb_ConfState_Size, eraftpb_ConfState_Unmarshal),
      eraftpb_ConfChange |->
          Codec(eraftpb_ConfChange_MarshalTo,
                eraftpb_ConfChange_Size, eraftpb_ConfChange_Unmarshal)]
=============================================================================
