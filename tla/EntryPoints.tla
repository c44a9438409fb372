----------------------------- MODULE EntryPoints -----------------------------
(***************************************************************************)
(* The three layers every contract entry point passes through, written    *)
(* out once per entry point as in the code: the method of VM              *)
(* (lib_libwasmvm.go), the function of package api (internal/api/lib.go)  *)
(* and the exported C function (libwasmvm/src/calls.rs).  All arguments   *)
(* are byte slices and all layers look alike, so neither compiler notices *)
(* a swapped argument or a call to the neighbouring function.             *)
(***************************************************************************)
EXTENDS Naturals, Sequences

\* What a VM method does: the api function it calls, the arguments it passes
\* after the checksum, and the type it decodes the answer into.
VMMethod(api, args, result) == [api |-> api, args |-> args, result |-> result]

\* What an api function does: the C function it calls and, for each argument of
\* that function, the position of the parameter it passes.
ApiFunction(c, passes) == [c |-> c, passes |-> passes]

\* What a C function does: the cosmwasm_vm function it hands to call_2_args or
\* call_3_args, and the positions of the parameters it hands on as arg1, arg2...
CFunction(vm_fn, passes) == [vm_fn |-> vm_fn, passes |-> passes]

-----------------------------------------------------------------------------
(* Layer 1: the methods of VM.                                            *)

VM_Instantiate == VMMethod("Instantiate", <<"env", "info", "msg">>, "ContractResult")

VM_Execute == VMMethod("Execute", <<"env", "info", "msg">>, "ContractResult")

VM_Query == VMMethod("Query", <<"env", "msg">>, "QueryResult")

VM_Migrate == VMMethod("Migrate", <<"env", "msg">>, "ContractResult")

VM_MigrateWithInfo == VMMethod("MigrateWithInfo", <<"env", "msg", "migrate_info">>, "ContractResult")

VM_Sudo == VMMethod("Sudo", <<"env", "msg">>, "ContractResult")

VM_Reply == VMMethod("Reply", <<"env", "reply">>, "ContractResult")

VM_IBCChannelOpen == VMMethod("IBCChannelOpen", <<"env", "msg">>, "IBCChannelOpenResult")

VM_IBCChannelConnect == VMMethod("IBCChannelConnect", <<"env", "msg">>, "IBCBasicResult")

VM_IBCChannelClose == VMMethod("IBCChannelClose", <<"env", "msg">>, "IBCBasicResult")

VM_IBCPacketReceive == VMMethod("IBCPacketReceive", <<"env", "msg">>, "IBCReceiveResult")

VM_IBCPacketAck == VMMethod("IBCPacketAck", <<"env", "msg">>, "IBCBasicResult")

VM_IBCPacketTimeout == VMMethod("IBCPacketTimeout", <<"env", "msg">>, "IBCBasicResult")

VM_IBCSourceCallback == VMMethod("IBCSourceCallback", <<"env", "msg">>, "IBCBasicResult")

VM_IBCDestinationCallback == VMMethod("IBCDestinationCallback", <<"env", "msg">>, "IBCBasicResult")

VM_IBC2PacketReceive == VMMethod("IBC2PacketReceive", <<"env", "msg">>, "IBCReceiveResult")

VM_IBC2PacketAck == VMMethod("IBC2PacketAck", <<"env", "msg">>, "IBCBasicResult")

VM_IBC2PacketTimeout == VMMethod("IBC2PacketTimeout", <<"env", "msg">>, "IBCBasicResult")

VM_IBC2PacketSend == VMMethod("IBC2PacketSend", <<"env", "msg">>, "IBCBasicResult")

VMMethods == [
  Instantiate |-> VM_Instantiate,
  Execute |-> VM_Execute,
  Query |-> VM_Query,
  Migrate |-> VM_Migrate,
  MigrateWithInfo |-> VM_MigrateWithInfo,
  Sudo |-> VM_Sudo,
  Reply |-> VM_Reply,
  IBCChannelOpen |-> VM_IBCChannelOpen,
  IBCChannelConnect |-> VM_IBCChannelConnect,
  IBCChannelClose |-> VM_IBCChannelClose,
  IBCPacketReceive |-> VM_IBCPacketReceive,
  IBCPacketAck |-> VM_IBCPacketAck,
  IBCPacketTimeout |-> VM_IBCPacketTimeout,
  IBCSourceCallback |-> VM_IBCSourceCallback,
  IBCDestinationCallback |-> VM_IBCDestinationCallback,
  IBC2PacketReceive |-> VM_IBC2PacketReceive,
  IBC2PacketAck |-> VM_IBC2PacketAck,
  IBC2PacketTimeout |-> VM_IBC2PacketTimeout,
  IBC2PacketSend |-> VM_IBC2PacketSend]

-----------------------------------------------------------------------------
(* Layer 2: the functions of package api.                                 *)

api_Instantiate == ApiFunction("instantiate", <<1, 2, 3>>)

api_Execute == ApiFunction("execute", <<1, 2, 3>>)

api_Query == ApiFunction("query", <<1, 2>>)

api_Migrate == ApiFunction("migrate", <<1, 2>>)

fault_api_MigrateWithInfo == ApiFunction("migrate_with_info", <<1, 3, 2>>)

api_MigrateWithInfo == ApiFunction("migrate_with_info", <<1, 2, 3>>)

api_Sudo == ApiFunction("sudo", <<1, 2>>)

api_Reply == ApiFunction("reply", <<1, 2>>)

api_IBCChannelOpen == ApiFunction("ibc_channel_open", <<1, 2>>)

api_IBCChannelConnect == ApiFunction("ibc_channel_connect", <<1, 2>>)

api_IBCChannelClose == ApiFunction("ibc_channel_close", <<1, 2>>)

api_IBCPacketReceive == ApiFunction("ibc_packet_receive", <<1, 2>>)

api_IBCPacketAck == ApiFunction("ibc_packet_ack", <<1, 2>>)

api_IBCPacketTimeout == ApiFunction("ibc_packet_timeout", <<1, 2>>)

api_IBCSourceCallback == ApiFunction("ibc_source_callback", <<1, 2>>)

api_IBCDestinationCallback == ApiFunction("ibc_destination_callback", <<1, 2>>)

api_IBC2PacketReceive == ApiFunction("ibc2_packet_receive", <<1, 2>>)

api_IBC2PacketAck == ApiFunction("ibc2_packet_ack", <<1, 2>>)

api_IBC2PacketTimeout == ApiFunction("ibc2_packet_timeout", <<1, 2>>)

api_IBC2PacketSend == ApiFunction("ibc2_packet_send", <<1, 2>>)

ApiFunctions == [
  Instantiate |-> api_Instantiate,
  Execute |-> api_Execute,
  Query |-> api_Query,
  Migrate |-> api_Migrate,
  MigrateWithInfo |-> api_MigrateWithInfo,
  Sudo |-> api_Sudo,
  Reply |-> api_Reply,
  IBCChannelOpen |-> api_IBCChannelOpen,
  IBCChannelConnect |-> api_IBCChannelConnect,
  IBCChannelClose |-> api_IBCChannelClose,
  IBCPacketReceive |-> api_IBCPacketReceive,
  IBCPacketAck |-> api_IBCPacketAck,
  IBCPacketTimeout |-> api_IBCPacketTimeout,
  IBCSourceCallback |-> api_IBCSourceCallback,
  IBCDestinationCallback |-> api_IBCDestinationCallback,
  IBC2PacketReceive |-> api_IBC2PacketReceive,
  IBC2PacketAck |-> api_IBC2PacketAck,
  IBC2PacketTimeout |-> api_IBC2PacketTimeout,
  IBC2PacketSend |-> api_IBC2PacketSend]

-----------------------------------------------------------------------------
(* Layer 3: the C functions.                                              *)

instantiate == CFunction("call_instantiate_raw", <<1, 2, 3>>)

execute == CFunction("call_execute_raw", <<1, 2, 3>>)

query == CFunction("call_query_raw", <<1, 2>>)

migrate == CFunction("call_migrate_raw", <<1, 2>>)

migrate_with_info == CFunction("call_migrate_with_info_raw", <<1, 2, 3>>)

sudo == CFunction("call_sudo_raw", <<1, 2>>)

reply == CFunction("call_reply_raw", <<1, 2>>)

ibc_channel_open == CFunction("call_ibc_channel_open_raw", <<1, 2>>)

ibc_channel_connect == CFunction("call_ibc_channel_connect_raw", <<1, 2>>)

ibc_channel_close == CFunction("call_ibc_channel_close_raw", <<1, 2>>)

ibc_packet_receive == CFunction("call_ibc_packet_receive_raw", <<1, 2>>)

ibc_packet_ack == CFunction("call_ibc_packet_ack_raw", <<1, 2>>)

ibc_packet_timeout == CFunction("call_ibc_packet_timeout_raw", <<1, 2>>)

ibc_source_callback == CFunction("call_ibc_source_callback_raw", <<1, 2>>)

ibc_destination_callback == CFunction("call_ibc_destination_callback_raw", <<1, 2>>)

ibc2_packet_receive == CFunction("call_ibc2_packet_receive_raw", <<1, 2>>)

ibc2_packet_ack == CFunction("call_ibc2_packet_ack_raw", <<1, 2>>)

ibc2_packet_timeout == CFunction("call_ibc2_packet_timeout_raw", <<1, 2>>)

ibc2_packet_send == CFunction("call_ibc2_packet_send_raw", <<1, 2>>)

CFunctions == [
  instantiate |-> instantiate,
  execute |-> execute,
  query |-> query,
  migrate |-> migrate,
  migrate_with_info |-> migrate_with_info,
  sudo |-> sudo,
  reply |-> reply,
  ibc_channel_open |-> ibc_channel_open,
  ibc_channel_connect |-> ibc_channel_connect,
  ibc_channel_close |-> ibc_channel_close,
  ibc_packet_receive |-> ibc_packet_receive,
  ibc_packet_ack |-> ibc_packet_ack,
  ibc_packet_timeout |-> ibc_packet_timeout,
  ibc_source_callback |-> ibc_source_callback,
  ibc_destination_callback |-> ibc_destination_callback,
  ibc2_packet_receive |-> ibc2_packet_receive,
  ibc2_packet_ack |-> ibc2_packet_ack,
  ibc2_packet_timeout |-> ibc2_packet_timeout,
  ibc2_packet_send |-> ibc2_packet_send]

-----------------------------------------------------------------------------
(* What cosmwasm_vm expects: the entry point each function runs, its       *)
(* parameters and the type of the answer the contract gives.               *)

RawFunction(entry, params, answer) == [entry |-> entry, params |-> params, answer |-> answer]

RawFunctions == [
  call_instantiate_raw |->
    RawFunction("Instantiate", <<"env", "info", "msg">>, "ContractResult"),
  call_execute_raw |->
    RawFunction("Execute", <<"env", "info", "msg">>, "ContractResult"),
  call_query_raw |->
    RawFunction("Query", <<"env", "msg">>, "QueryResult"),
  call_migrate_raw |->
    RawFunction("Migrate", <<"env", "msg">>, "ContractResult"),
  call_migrate_with_info_raw |->
    RawFunction("MigrateWithInfo", <<"env", "msg", "migrate_info">>, "ContractResult"),
  call_sudo_raw |->
    RawFunction("Sudo", <<"env", "msg">>, "ContractResult"),
  call_reply_raw |->
    RawFunction("Reply", <<"env", "reply">>, "ContractResult"),
  call_ibc_channel_open_raw |->
    RawFunction("IBCChannelOpen", <<"env", "msg">>, "IBCChannelOpenResult"),
  call_ibc_channel_connect_raw |->
    RawFunction("IBCChannelConnect", <<"env", "msg">>, "IBCBasicResult"),
  call_ibc_channel_close_raw |->
    RawFunction("IBCChannelClose", <<"env", "msg">>, "IBCBasicResult"),
  call_ibc_packet_receive_raw |->
    RawFunction("IBCPacketReceive", <<"env", "msg">>, "IBCReceiveResult"),
  call_ibc_packet_ack_raw |->
    RawFunction("IBCPacketAck", <<"env", "msg">>, "IBCBasicResult"),
  call_ibc_packet_timeout_raw |->
    RawFunction("IBCPacketTimeout", <<"env", "msg">>, "IBCBasicResult"),
  call_ibc_source_callback_raw |->
    RawFunction("IBCSourceCallback", <<"env", "msg">>, "IBCBasicResult"),
  call_ibc_destination_callback_raw |->
    RawFunction("IBCDestinationCallback", <<"env", "msg">>, "IBCBasicResult"),
  call_ibc2_packet_receive_raw |->
    RawFunction("IBC2PacketReceive", <<"env", "msg">>, "IBCReceiveResult"),
  call_ibc2_packet_ack_raw |->
    RawFunction("IBC2PacketAck", <<"env", "msg">>, "IBCBasicResult"),
  call_ibc2_packet_timeout_raw |->
    RawFunction("IBC2PacketTimeout", <<"env", "msg">>, "IBCBasicResult"),
  call_ibc2_packet_send_raw |->
    RawFunction("IBC2PacketSend", <<"env", "msg">>, "IBCBasicResult")]

-----------------------------------------------------------------------------

\* The call of cosmwasm_vm that VM method e ends in.
Dispatch(e) ==
  LET api == ApiFunctions[VMMethods[e].api]
      c   == CFunctions[api.c]
  IN  [vm_fn |-> c.vm_fn,
       args  |-> [k \in DOMAIN c.passes |-> VMMethods[e].args[api.passes[c.passes[k]]]],
       decodes |-> VMMethods[e].result]
=============================================================================
