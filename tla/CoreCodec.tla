------------------------------ MODULE CoreCodec ------------------------------
(***************************************************************************)
(* The records of cc-core: cluster policy, peer addresses, membership,     *)
(* configuration operations and envelopes, administrative replies, events  *)
(* and traces.                                                             *)
(***************************************************************************)
EXTENDS Codec

PolicyFields ==
  <<"max_members", "max_key_bytes", "max_value_bytes", "max_live_logical_bytes",
    "max_command_bytes", "max_reply_bytes", "max_scan_items", "max_live_deadlines",
    "max_sessions", "max_session_bytes", "max_session_tombstones", "session_idle_ns",
    "session_retry_grace_ns", "leader_transfer_timeout_ns",
    "max_keys_per_expiry_sweep", "max_batch_commands", "max_batch_bytes",
    "max_batch_reply_bytes">>

CCPL == 101
enc_policy == Sealed(Rec(Header(CCPL, 1) \o Ints(PolicyFields)))
dec_policy == Sealed(Where("policy_valid", Rec(Header(CCPL, 1) \o Ints(PolicyFields))))

enc_address == Tagged(<<F("V4", Rec(Ints(<<"ip", "port">>))),
                        F("V6", Rec(Ints(<<"ip", "port">>)))>>)
dec_address == Where("address_valid",
                     Tagged(<<F("V4", Rec(Ints(<<"ip", "port">>))),
                              F("V6", Rec(Ints(<<"ip", "port">>)))>>))

decode_members(allow_empty) == SetOf((IF allow_empty THEN 0 ELSE 1)..Cap.members)
encode_members == SetOf(Nat)

CCMS == 102
enc_membership ==
  Where("membership_valid", Sealed(Rec(Header(CCMS, 2) \o
    <<F("voters", encode_members), F("learners", encode_members),
      F("joint", Opt(Rec(<<F("old_voters", encode_members),
                           F("new_voters", encode_members), F("enter_index", Num)>>))),
      F("addresses", Map("id", Rec(<<F("id", Num), F("address", enc_address)>>), Nat)),
      F("active_features", Num)>>)))

(***************************************************************************)
(* decode accepts version 1 too, which has no features.                    *)
(***************************************************************************)
dec_membership_of(version, features) ==
  Rec(Header(CCMS, version) \o
    <<F("voters", decode_members(FALSE)), F("learners", decode_members(TRUE)),
      F("joint", Opt(Rec(<<F("old_voters", decode_members(FALSE)),
                           F("new_voters", decode_members(FALSE)),
                           F("enter_index", Pos)>>))),
      F("addresses", Map("id", Rec(<<F("id", Pos), F("address", dec_address)>>),
                         0..Cap.members)),
      F("active_features", features)>>)
dec_membership ==
  Sealed(Where("membership_valid", First(<<dec_membership_of(2, Num),
                                           dec_membership_of(1, Absent(0))>>)))

TransferResults == <<"Success", "Timeout", "Superseded">>

enc_config_operation ==
  <<F("AddLearner", Rec(<<F("id", Num), F("address", Opt(enc_address))>>)),
    F("RemoveLearner", Rec(<<F("id", Num)>>)),
    F("UpdateAddress", Rec(<<F("id", Num), F("address", enc_address)>>)),
    F("EnterJoint", Rec(<<F("new_voters", encode_members)>>)),
    F("LeaveJoint", Rec(<<F("enter_index", Num)>>)),
    F("BeginLeaderTransfer", Rec(<<F("target", Num)>>)),
    F("FinishLeaderTransfer", Rec(<<F("intent_index", Num),
                                    F("result", Enum(TransferResults))>>)),
    F("ActivateFeature", Rec(<<F("feature", Num)>>))>>

dec_config_operation ==
  <<F("AddLearner", Rec(<<F("id", Pos), F("address", Opt(dec_address))>>)),
    F("RemoveLearner", Rec(<<F("id", Pos)>>)),
    F("UpdateAddress", Rec(<<F("id", Pos), F("address", dec_address)>>)),
    F("EnterJoint", Rec(<<F("new_voters", decode_members(FALSE))>>)),
    F("LeaveJoint", Rec(<<F("enter_index", Pos)>>)),
    F("BeginLeaderTransfer", Rec(<<F("target", Pos)>>)),
    F("FinishLeaderTransfer", Rec(<<F("intent_index", Pos),
                                    F("result", Enum(TransferResults))>>)),
    F("ActivateFeature", Rec(<<F("feature", In({ATOMIC_BATCH}))>>))>>

(***************************************************************************)
(* The body of an operation is written as an opaque string after its tag.  *)
(***************************************************************************)
FramedCases(cases) == [i \in DOMAIN cases |-> F(cases[i][1], Framed(cases[i][2]))]

CCCF == 103
enc_config_envelope ==
  Sealed(Rec(Header(CCCF, 1) \o
    <<F("admin_session", Blank(Rec(Ints(<<"namespace", "client", "sequence">>)), 3)),
      F("leader_time", Num),
      F("operation", Tagged(FramedCases(enc_config_operation)))>>))
dec_config_envelope ==
  Sealed(Rec(Header(CCCF, 1) \o
    <<F("admin_session", Blank(Rec(<<F("namespace", In({1})), F("client", Pos),
                                     F("sequence", Pos)>>), 3)),
      F("leader_time", Num),
      F("operation", Tagged(FramedCases(dec_config_operation)))>>))

AdminResults == <<"Applied", "TransferSuccess", "TransferTimeout", "TransferSuperseded",
                  "InProgress", "RequestConflict", "RequestExpired", "Rejected">>

CCAR == 104
enc_admin_reply ==
  Sealed(Rec(Header(CCAR, 1) \o
    <<F("operation_tag", Num), F("result", Enum(AdminResults)),
      F("source_index", Num), F("detail", Bytes)>>))
dec_admin_reply ==
  Sealed(Where("admin_reply_valid", Rec(Header(CCAR, 1) \o
    <<F("operation_tag", In(1..8)), F("result", Enum(AdminResults)),
      F("source_index", Num), F("detail", Bytes)>>)))

EventKinds == 1..30
enc_event == Rec(<<F("seq", Num), F("time", Num), F("node", Opt(Num)),
                   F("kind", Num), F("payload", Bytes)>>)
dec_event == Rec(<<F("seq", Num), F("time", Num), F("node", Opt(Num)),
                   F("kind", In(EventKinds)), F("payload", Bytes)>>)

CCTR == 105
enc_trace == Rec(Header(CCTR, 1) \o Ints(<<"seed", "config_hash">>) \o
               <<F("build", Bytes), F("events", Many(enc_event, Nat))>>)
dec_trace == Rec(Header(CCTR, 1) \o Ints(<<"seed", "config_hash">>) \o
               <<F("build", Bytes), F("events", Many(dec_event, 0..Cap.codec))>>)
=============================================================================
