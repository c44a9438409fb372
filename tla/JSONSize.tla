------------------------------ MODULE JSONSize ------------------------------
(***************************************************************************)
(* The sizes of JSON documents: the methods ExpectedJSONSize of            *)
(* types/json_size.go next to what encoding/json makes of the declarations *)
(* in types/ibc.go and types/types.go.  The methods count the bytes of     *)
(* every name, comma, quote and escape by hand and repeat the struct tags  *)
(* in their comments.                                                      *)
(*                                                                         *)
(* A string is a sequence of kinds of characters, a byte slice is Nil or   *)
(* its length, a struct is a record, a nil pointer is Nil.                 *)
(***************************************************************************)
EXTENDS Integers, Sequences

CONSTANTS
  Nil,
  MinInt,     \* the least int (-(2^63) in the code)
  Measured    \* bound: for each type, the values that are measured

\* The kinds of characters that one of the two sides tells apart.  separator
\* is U+2028 or U+2029, invalid a byte that is not UTF-8, short one of the
\* control characters that have an escape of two characters.
Chars ==
  {"plain", "quote", "backslash", "short", "control", "html", "wide", "separator", "invalid"}

Totals(s) ==
  LET total[n \in 0 .. Len(s)] == IF n = 0 THEN 0 ELSE total[n - 1] + s[n]
  IN total

Sum(s) == Totals(s)[Len(s)]

\* The bytes of a character in a Go string.
Bytes(c) == CASE c = "wide" -> 2 [] c = "separator" -> 3 [] OTHER -> 1

negate(i) == IF i = MinInt THEN MinInt ELSE -i

-----------------------------------------------------------------------------
(* types/json_size.go                                                      *)

brackets == 2
quotes == 2
comma == 1
colon == 1
null == 4

\* What ExpectedJSONSizeString adds for a character.
escape(c) ==
  CASE c \in {"quote", "backslash", "short"} -> 1
    [] c \in {"control", "html"} -> 5
    [] OTHER -> 0

ExpectedJSONSizeString(s) ==
  quotes + Sum([i \in DOMAIN s |-> Bytes(s[i])]) + Sum([i \in DOMAIN s |-> escape(s[i])])

ExpectedJSONSizeBinary(b) ==
  IF b = Nil THEN null ELSE LET n == (4 * b) \div 3 + 3 IN (n - (n % 4)) + quotes

digits[i \in Nat] == IF i = 0 THEN 0 ELSE 1 + digits[i \div 10]

\* The loop does not run for a number that is still negative.
ExpectedJSONSizeInt(i) ==
  LET abs == IF i <= 0 THEN negate(i) ELSE i
  IN (IF i <= 0 THEN 1 ELSE 0) + (IF abs > 0 THEN digits[abs] ELSE 0)

ExpectedJSONSizeUint64(i) == IF i = 0 THEN 1 ELSE digits[i]

ExpectedJSONSizeBool(b) == IF b THEN 4 ELSE 5

Size_Coin(c) ==
  brackets + 7 + colon + ExpectedJSONSizeString(c.Denom) + comma
           + 8 + colon + ExpectedJSONSizeString(c.Amount)

ExpectedJSONSizeArray(a) ==
  brackets + (IF a = << >> THEN 0 ELSE comma * (Len(a) - 1))
           + Sum([i \in DOMAIN a |-> Size_Coin(a[i])])

Size_IBCEndpoint(t) ==
  brackets + 9 + colon + ExpectedJSONSizeString(t.PortID) + comma
           + 12 + colon + ExpectedJSONSizeString(t.ChannelID)

Size_IBCChannel(t) ==
  brackets + 10 + colon + Size_IBCEndpoint(t.Endpoint) + comma
           + 23 + colon + Size_IBCEndpoint(t.CounterpartyEndpoint) + comma
           + 7 + colon + ExpectedJSONSizeString(t.Order) + comma
           + 9 + colon + ExpectedJSONSizeString(t.Version) + comma
           + 15 + colon + ExpectedJSONSizeString(t.ConnectionID)

Size_IBCOpenInit(t) == brackets + 9 + colon + Size_IBCChannel(t.Channel)

Size_IBCOpenTry(t) ==
  brackets + 9 + colon + Size_IBCChannel(t.Channel) + comma
           + 22 + colon + ExpectedJSONSizeString(t.CounterpartyVersion)

\* The messages with two pointers: sizes a and b of the fields if there are any.
Variants(x, a, y, b) ==
  brackets + (IF x # Nil THEN a ELSE 0)
           + (IF x # Nil /\ y # Nil THEN comma ELSE 0)
           + (IF y # Nil THEN b ELSE 0)

Size_IBCChannelOpenMsg(t) ==
  Variants(t.OpenInit, 11 + colon + Size_IBCOpenInit(t.OpenInit),
           t.OpenTry, 10 + colon + Size_IBCOpenTry(t.OpenTry))

Size_IBCOpenAck(t) ==
  brackets + 9 + colon + Size_IBCChannel(t.Channel) + comma
           + 22 + colon + ExpectedJSONSizeString(t.CounterpartyVersion)

Size_IBCOpenConfirm(t) == brackets + 9 + colon + Size_IBCChannel(t.Channel)

Size_IBCChannelConnectMsg(t) ==
  Variants(t.OpenAck, 10 + colon + Size_IBCOpenAck(t.OpenAck),
           t.OpenConfirm, 14 + colon + Size_IBCOpenConfirm(t.OpenConfirm))

Size_IBCCloseInit(t) == brackets + 9 + colon + Size_IBCChannel(t.Channel)

Size_IBCCloseConfirm(t) == brackets + 9 + colon + Size_IBCChannel(t.Channel)

Size_IBCChannelCloseMsg(t) ==
  Variants(t.CloseInit, 12 + colon + Size_IBCCloseInit(t.CloseInit),
           t.CloseConfirm, 15 + colon + Size_IBCCloseConfirm(t.CloseConfirm))

Size_IBCTimeoutBlock(t) ==
  brackets + 10 + colon + ExpectedJSONSizeUint64(t.Revision) + comma
           + 8 + colon + ExpectedJSONSizeUint64(t.Height)

fault_Size_IBCTimeout(t) ==
  brackets + (IF t.Block # Nil THEN 7 + colon + Size_IBCTimeoutBlock(t.Block) ELSE 0)
           + (IF t.Timestamp # 0
              THEN comma + 11 + colon + ExpectedJSONSizeUint64(t.Timestamp) + quotes ELSE 0)

Size_IBCTimeout(t) ==
  brackets + 7 + colon + (IF t.Block # Nil THEN Size_IBCTimeoutBlock(t.Block) ELSE null)
           + (IF t.Timestamp # 0
              THEN comma + 11 + colon + ExpectedJSONSizeUint64(t.Timestamp) + quotes ELSE 0)

Size_IBCPacket(t) ==
  brackets + 6 + colon + ExpectedJSONSizeBinary(t.Data) + comma
           + 5 + colon + Size_IBCEndpoint(t.Src) + comma
           + 6 + colon + Size_IBCEndpoint(t.Dest) + comma
           + 10 + colon + ExpectedJSONSizeUint64(t.Sequence) + comma
           + 9 + colon + Size_IBCTimeout(t.Timeout)

Size_IBCAcknowledgement(t) == brackets + 6 + colon + ExpectedJSONSizeBinary(t.Data)

Size_IBCPacketReceiveMsg(t) ==
  brackets + 8 + colon + Size_IBCPacket(t.Packet) + comma
           + 9 + colon + ExpectedJSONSizeString(t.Relayer)

Size_IBCPacketAckMsg(t) ==
  brackets + 17 + colon + Size_IBCAcknowledgement(t.Acknowledgement) + comma
           + 17 + colon + Size_IBCPacket(t.OriginalPacket) + comma
           + 9 + colon + ExpectedJSONSizeString(t.Relayer)

Size_IBCPacketTimeoutMsg(t) ==
  brackets + 8 + colon + Size_IBCPacket(t.Packet) + comma
           + 9 + colon + ExpectedJSONSizeString(t.Relayer)

Size_IBCAckCallbackMsg(t) ==
  brackets + 17 + colon + Size_IBCAcknowledgement(t.Acknowledgement) + comma
           + 17 + colon + Size_IBCPacket(t.OriginalPacket) + comma
           + 9 + colon + ExpectedJSONSizeString(t.Relayer)

Size_IBCTimeoutCallbackMsg(t) ==
  brackets + 8 + colon + Size_IBCPacket(t.Packet) + comma
           + 9 + colon + ExpectedJSONSizeString(t.Relayer)

Size_IBCSourceCallbackMsg(t) ==
  Variants(t.Acknowledgement, 17 + colon + Size_IBCAckCallbackMsg(t.Acknowledgement),
           t.Timeout, 9 + colon + Size_IBCTimeoutCallbackMsg(t.Timeout))

Size_IBCTransferCallback(t) ==
  brackets + 7 + colon + ExpectedJSONSizeArray(t.Funds) + comma
           + 10 + colon + ExpectedJSONSizeString(t.Receiver) + comma
           + 8 + colon + ExpectedJSONSizeString(t.Sender)

Size_IBCDestinationCallbackMsg(t) ==
  brackets + 5 + colon + Size_IBCAcknowledgement(t.Ack) + comma
           + 8 + colon + Size_IBCPacket(t.Packet)
           + (IF t.Transfer # Nil
              THEN comma + 10 + colon + Size_IBCTransferCallback(t.Transfer) ELSE 0)

-----------------------------------------------------------------------------
(* encoding/json: the bytes of the document that json.Marshal returns      *)

\* What a character takes in a JSON string.
Encoded(c) ==
  CASE c \in {"quote", "backslash", "short"} -> 2
    [] c \in {"control", "html", "separator", "invalid"} -> 6
    [] OTHER -> Bytes(c)

Marshal_string(s) == 2 + Sum([i \in DOMAIN s |-> Encoded(s[i])])

Marshal_null == Len("null")

\* Base64 with padding: four characters for each group of three bytes begun.
Marshal_bytes(b) == IF b = Nil THEN Marshal_null ELSE 2 + 4 * ((b + 2) \div 3)

PowerOfTen[k \in Nat] == IF k = 0 THEN 1 ELSE 10 * PowerOfTen[k - 1]

\* A number of k digits lies from 10^(k - 1) up to 10^k - 1.
Digits(n, k) == PowerOfTen[k - 1] <= n /\ n \div 10 < PowerOfTen[k - 1]

Numeral(n) == IF n = 0 THEN 1 ELSE CHOOSE k \in 1 .. n : Digits(n, k)

Marshal_int(i) == IF i < 0 THEN 1 + Numeral(-i) ELSE Numeral(i)

Marshal_bool(b) == IF b THEN Len("true") ELSE Len("false")

\* An object of the given members or an array of the given elements.
Joined(parts) == 2 + Sum(parts) + (IF parts = << >> THEN 0 ELSE Len(parts) - 1)

Member(name, n) == 2 + Len(name) + 1 + n

OmitEmpty(member, v, empty) == IF v = empty THEN << >> ELSE <<member>>

-----------------------------------------------------------------------------
(* types/ibc.go and types/types.go: for each declaration its values, given *)
(* the values T of the basic types, and its document.                      *)

Pointer(S) == {Nil} \cup S

Coin(strings) == [Denom : strings, Amount : strings]
Marshal_Coin(t) ==
  Joined(<<Member("denom", Marshal_string(t.Denom)),
           Member("amount", Marshal_string(t.Amount))>>)

Marshal_Coins(a) == Joined([i \in DOMAIN a |-> Marshal_Coin(a[i])])

IBCEndpoint(T) == [PortID : T.string, ChannelID : T.string]
Marshal_IBCEndpoint(t) ==
  Joined(<<Member("port_id", Marshal_string(t.PortID)),
           Member("channel_id", Marshal_string(t.ChannelID))>>)

IBCChannel(T) ==
  [Endpoint : IBCEndpoint(T), CounterpartyEndpoint : IBCEndpoint(T),
   Order : T.string, Version : T.string, ConnectionID : T.string]
Marshal_IBCChannel(t) ==
  Joined(<<Member("endpoint", Marshal_IBCEndpoint(t.Endpoint)),
           Member("counterparty_endpoint", Marshal_IBCEndpoint(t.CounterpartyEndpoint)),
           Member("order", Marshal_string(t.Order)),
           Member("version", Marshal_string(t.Version)),
           Member("connection_id", Marshal_string(t.ConnectionID))>>)

IBCOpenInit(T) == [Channel : IBCChannel(T)]
Marshal_IBCOpenInit(t) ==
  Joined(<<Member("channel", Marshal_IBCChannel(t.Channel))>>)

IBCOpenTry(T) == [Channel : IBCChannel(T), CounterpartyVersion : T.string]
Marshal_IBCOpenTry(t) ==
  Joined(<<Member("channel", Marshal_IBCChannel(t.Channel)),
           Member("counterparty_version", Marshal_string(t.CounterpartyVersion))>>)

IBCChannelOpenMsg(T) ==
  [OpenInit : Pointer(IBCOpenInit(T)), OpenTry : Pointer(IBCOpenTry(T))]
Marshal_IBCChannelOpenMsg(t) ==
  Joined(OmitEmpty(Member("open_init", Marshal_IBCOpenInit(t.OpenInit)),
                   t.OpenInit, Nil)
         \o OmitEmpty(Member("open_try", Marshal_IBCOpenTry(t.OpenTry)),
                      t.OpenTry, Nil))

IBCOpenAck(T) == [Channel : IBCChannel(T), CounterpartyVersion : T.string]
Marshal_IBCOpenAck(t) ==
  Joined(<<Member("channel", Marshal_IBCChannel(t.Channel)),
           Member("counterparty_version", Marshal_string(t.CounterpartyVersion))>>)

IBCOpenConfirm(T) == [Channel : IBCChannel(T)]
Marshal_IBCOpenConfirm(t) ==
  Joined(<<Member("channel", Marshal_IBCChannel(t.Channel))>>)

IBCChannelConnectMsg(T) ==
  [OpenAck : Pointer(IBCOpenAck(T)), OpenConfirm : Pointer(IBCOpenConfirm(T))]
Marshal_IBCChannelConnectMsg(t) ==
  Joined(OmitEmpty(Member("open_ack", Marshal_IBCOpenAck(t.OpenAck)),
                   t.OpenAck, Nil)
         \o OmitEmpty(Member("open_confirm", Marshal_IBCOpenConfirm(t.OpenConfirm)),
                      t.OpenConfirm, Nil))

IBCCloseInit(T) == [Channel : IBCChannel(T)]
Marshal_IBCCloseInit(t) ==
  Joined(<<Member("channel", Marshal_IBCChannel(t.Channel))>>)

IBCCloseConfirm(T) == [Channel : IBCChannel(T)]
Marshal_IBCCloseConfirm(t) ==
  Joined(<<Member("channel", Marshal_IBCChannel(t.Channel))>>)

IBCChannelCloseMsg(T) ==
  [CloseInit : Pointer(IBCCloseInit(T)), CloseConfirm : Pointer(IBCCloseConfirm(T))]
Marshal_IBCChannelCloseMsg(t) ==
  Joined(OmitEmpty(Member("close_init", Marshal_IBCCloseInit(t.CloseInit)),
                   t.CloseInit, Nil)
         \o OmitEmpty(Member("close_confirm", Marshal_IBCCloseConfirm(t.CloseConfirm)),
                      t.CloseConfirm, Nil))

IBCTimeoutBlock(T) == [Revision : T.uint64, Height : T.uint64]
Marshal_IBCTimeoutBlock(t) ==
  Joined(<<Member("revision", Marshal_int(t.Revision)),
           Member("height", Marshal_int(t.Height))>>)

IBCTimeout(T) == [Block : Pointer(IBCTimeoutBlock(T)), Timestamp : T.uint64]
Marshal_IBCTimeout(t) ==
  Joined(<<Member("block", IF t.Block = Nil THEN Marshal_null
                           ELSE Marshal_IBCTimeoutBlock(t.Block))>>
         \o OmitEmpty(Member("timestamp", 2 + Marshal_int(t.Timestamp)),
                      t.Timestamp, 0))

IBCAcknowledgement(T) == [Data : T.bytes]
Marshal_IBCAcknowledgement(t) == Joined(<<Member("data", Marshal_bytes(t.Data))>>)

IBCPacket(T) ==
  [Data : T.bytes, Src : IBCEndpoint(T), Dest : IBCEndpoint(T), Sequence : T.uint64,
   Timeout : IBCTimeout(T)]
Marshal_IBCPacket(t) ==
  Joined(<<Member("data", Marshal_bytes(t.Data)),
           Member("src", Marshal_IBCEndpoint(t.Src)),
           Member("dest", Marshal_IBCEndpoint(t.Dest)),
           Member("sequence", Marshal_int(t.Sequence)),
           Member("timeout", Marshal_IBCTimeout(t.Timeout))>>)

IBCPacketReceiveMsg(T) == [Packet : IBCPacket(T), Relayer : T.string]
Marshal_IBCPacketReceiveMsg(t) ==
  Joined(<<Member("packet", Marshal_IBCPacket(t.Packet)),
           Member("relayer", Marshal_string(t.Relayer))>>)

IBCPacketAckMsg(T) ==
  [Acknowledgement : IBCAcknowledgement(T), OriginalPacket : IBCPacket(T),
   Relayer : T.string]
Marshal_IBCPacketAckMsg(t) ==
  Joined(<<Member("acknowledgement", Marshal_IBCAcknowledgement(t.Acknowledgement)),
           Member("original_packet", Marshal_IBCPacket(t.OriginalPacket)),
           Member("relayer", Marshal_string(t.Relayer))>>)

IBCPacketTimeoutMsg(T) == [Packet : IBCPacket(T), Relayer : T.string]
Marshal_IBCPacketTimeoutMsg(t) ==
  Joined(<<Member("packet", Marshal_IBCPacket(t.Packet)),
           Member("relayer", Marshal_string(t.Relayer))>>)

IBCAckCallbackMsg(T) ==
  [Acknowledgement : IBCAcknowledgement(T), OriginalPacket : IBCPacket(T),
   Relayer : T.string]
Marshal_IBCAckCallbackMsg(t) ==
  Joined(<<Member("acknowledgement", Marshal_IBCAcknowledgement(t.Acknowledgement)),
           Member("original_packet", Marshal_IBCPacket(t.OriginalPacket)),
           Member("relayer", Marshal_string(t.Relayer))>>)

IBCTimeoutCallbackMsg(T) == [Packet : IBCPacket(T), Relayer : T.string]
Marshal_IBCTimeoutCallbackMsg(t) ==
  Joined(<<Member("packet", Marshal_IBCPacket(t.Packet)),
           Member("relayer", Marshal_string(t.Relayer))>>)

IBCSourceCallbackMsg(T) ==
  [Acknowledgement : Pointer(IBCAckCallbackMsg(T)),
   Timeout : Pointer(IBCTimeoutCallbackMsg(T))]
Marshal_IBCSourceCallbackMsg(t) ==
  Joined(OmitEmpty(Member("acknowledgement", Marshal_IBCAckCallbackMsg(t.Acknowledgement)),
                   t.Acknowledgement, Nil)
         \o OmitEmpty(Member("timeout", Marshal_IBCTimeoutCallbackMsg(t.Timeout)),
                      t.Timeout, Nil))

IBCTransferCallback(T) == [Funds : T.Coins, Receiver : T.string, Sender : T.string]
Marshal_IBCTransferCallback(t) ==
  Joined(<<Member("funds", Marshal_Coins(t.Funds)),
           Member("receiver", Marshal_string(t.Receiver)),
           Member("sender", Marshal_string(t.Sender))>>)

IBCDestinationCallbackMsg(T) ==
  [Ack : IBCAcknowledgement(T), Packet : IBCPacket(T),
   Transfer : Pointer(IBCTransferCallback(T))]
Marshal_IBCDestinationCallbackMsg(t) ==
  Joined(<<Member("ack", Marshal_IBCAcknowledgement(t.Ack)),
           Member("packet", Marshal_IBCPacket(t.Packet))>>
         \o OmitEmpty(Member("transfer", Marshal_IBCTransferCallback(t.Transfer)),
                      t.Transfer, Nil))

-----------------------------------------------------------------------------
(* The types                                                               *)

\* The values of the basic types, given the strings and the ints.
Basic(strings, ints) ==
  [string |-> strings, bytes |-> Pointer(Nat), int |-> ints, uint64 |-> Nat,
   bool |-> BOOLEAN, Coins |-> Seq(Coin(strings))]

\* All values.
AllValues == Basic(Seq(Chars), MinInt .. -(MinInt + 1))

\* The values for which the methods count what encoding/json writes: no string
\* has U+2028, U+2029 or a byte that is not UTF-8, which the loop of
\* ExpectedJSONSizeString does not look for, and no int is the least one, which
\* negation leaves negative (json_size.go:60).
Counted == Basic(Seq(Chars \ {"separator", "invalid"}), (MinInt + 1) .. -(MinInt + 1))

Declared(T) ==
  [string |-> T.string,
   bytes |-> T.bytes,
   int |-> T.int,
   uint64 |-> T.uint64,
   bool |-> T.bool,
   Coins |-> T.Coins,
   Coin |-> Coin(T.string),
   IBCEndpoint |-> IBCEndpoint(T),
   IBCChannel |-> IBCChannel(T),
   IBCOpenInit |-> IBCOpenInit(T),
   IBCOpenTry |-> IBCOpenTry(T),
   IBCChannelOpenMsg |-> IBCChannelOpenMsg(T),
   IBCOpenAck |-> IBCOpenAck(T),
   IBCOpenConfirm |-> IBCOpenConfirm(T),
   IBCChannelConnectMsg |-> IBCChannelConnectMsg(T),
   IBCCloseInit |-> IBCCloseInit(T),
   IBCCloseConfirm |-> IBCCloseConfirm(T),
   IBCChannelCloseMsg |-> IBCChannelCloseMsg(T),
   IBCTimeoutBlock |-> IBCTimeoutBlock(T),
   IBCTimeout |-> IBCTimeout(T),
   IBCAcknowledgement |-> IBCAcknowledgement(T),
   IBCPacket |-> IBCPacket(T),
   IBCPacketReceiveMsg |-> IBCPacketReceiveMsg(T),
   IBCPacketAckMsg |-> IBCPacketAckMsg(T),
   IBCPacketTimeoutMsg |-> IBCPacketTimeoutMsg(T),
   IBCAckCallbackMsg |-> IBCAckCallbackMsg(T),
   IBCTimeoutCallbackMsg |-> IBCTimeoutCallbackMsg(T),
   IBCSourceCallbackMsg |-> IBCSourceCallbackMsg(T),
   IBCTransferCallback |-> IBCTransferCallback(T),
   IBCDestinationCallbackMsg |-> IBCDestinationCallbackMsg(T)]

Types == DOMAIN Declared(AllValues)

ASSUME JSONSizeAssumption ==
  /\ MinInt \in Int /\ MinInt < 0
  /\ \A t \in Types : Measured[t] \subseteq Declared(AllValues)[t]

\* The lengths of the strings that encoding/json copies into the document.
ASSUME NameLengths ==
  /\ Len("ack") = 3 /\ Len("src") = 3
  /\ Len("data") = 4 /\ Len("dest") = 4 /\ Len("null") = 4 /\ Len("true") = 4
  /\ Len("block") = 5 /\ Len("denom") = 5 /\ Len("false") = 5 /\ Len("funds") = 5
  /\ Len("order") = 5
  /\ Len("amount") = 6 /\ Len("height") = 6 /\ Len("packet") = 6 /\ Len("sender") = 6
  /\ Len("channel") = 7 /\ Len("port_id") = 7 /\ Len("relayer") = 7 /\ Len("timeout") = 7
  /\ Len("version") = 7
  /\ Len("endpoint") = 8 /\ Len("open_ack") = 8 /\ Len("open_try") = 8 /\ Len("receiver") = 8
  /\ Len("revision") = 8 /\ Len("sequence") = 8 /\ Len("transfer") = 8
  /\ Len("open_init") = 9 /\ Len("timestamp") = 9
  /\ Len("channel_id") = 10 /\ Len("close_init") = 10
  /\ Len("open_confirm") = 12
  /\ Len("close_confirm") = 13 /\ Len("connection_id") = 13
  /\ Len("acknowledgement") = 15 /\ Len("original_packet") = 15
  /\ Len("counterparty_version") = 20
  /\ Len("counterparty_endpoint") = 21

\* The method of the type.
ExpectedJSONSize(t, v) ==
  CASE t = "string" -> ExpectedJSONSizeString(v)
    [] t = "bytes" -> ExpectedJSONSizeBinary(v)
    [] t = "int" -> ExpectedJSONSizeInt(v)
    [] t = "uint64" -> ExpectedJSONSizeUint64(v)
    [] t = "bool" -> ExpectedJSONSizeBool(v)
    [] t = "Coins" -> ExpectedJSONSizeArray(v)
    [] t = "Coin" -> Size_Coin(v)
    [] t = "IBCEndpoint" -> Size_IBCEndpoint(v)
    [] t = "IBCChannel" -> Size_IBCChannel(v)
    [] t = "IBCOpenInit" -> Size_IBCOpenInit(v)
    [] t = "IBCOpenTry" -> Size_IBCOpenTry(v)
    [] t = "IBCChannelOpenMsg" -> Size_IBCChannelOpenMsg(v)
    [] t = "IBCOpenAck" -> Size_IBCOpenAck(v)
    [] t = "IBCOpenConfirm" -> Size_IBCOpenConfirm(v)
    [] t = "IBCChannelConnectMsg" -> Size_IBCChannelConnectMsg(v)
    [] t = "IBCCloseInit" -> Size_IBCCloseInit(v)
    [] t = "IBCCloseConfirm" -> Size_IBCCloseConfirm(v)
    [] t = "IBCChannelCloseMsg" -> Size_IBCChannelCloseMsg(v)
    [] t = "IBCTimeoutBlock" -> Size_IBCTimeoutBlock(v)
    [] t = "IBCTimeout" -> Size_IBCTimeout(v)
    [] t = "IBCAcknowledgement" -> Size_IBCAcknowledgement(v)
    [] t = "IBCPacket" -> Size_IBCPacket(v)
    [] t = "IBCPacketReceiveMsg" -> Size_IBCPacketReceiveMsg(v)
    [] t = "IBCPacketAckMsg" -> Size_IBCPacketAckMsg(v)
    [] t = "IBCPacketTimeoutMsg" -> Size_IBCPacketTimeoutMsg(v)
    [] t = "IBCAckCallbackMsg" -> Size_IBCAckCallbackMsg(v)
    [] t = "IBCTimeoutCallbackMsg" -> Size_IBCTimeoutCallbackMsg(v)
    [] t = "IBCSourceCallbackMsg" -> Size_IBCSourceCallbackMsg(v)
    [] t = "IBCTransferCallback" -> Size_IBCTransferCallback(v)
    [] t = "IBCDestinationCallbackMsg" -> Size_IBCDestinationCallbackMsg(v)

Marshal(t, v) ==
  CASE t = "string" -> Marshal_string(v)
    [] t = "bytes" -> Marshal_bytes(v)
    [] t = "int" -> Marshal_int(v)
    [] t = "uint64" -> Marshal_int(v)
    [] t = "bool" -> Marshal_bool(v)
    [] t = "Coins" -> Marshal_Coins(v)
    [] t = "Coin" -> Marshal_Coin(v)
    [] t = "IBCEndpoint" -> Marshal_IBCEndpoint(v)
    [] t = "IBCChannel" -> Marshal_IBCChannel(v)
    [] t = "IBCOpenInit" -> Marshal_IBCOpenInit(v)
    [] t = "IBCOpenTry" -> Marshal_IBCOpenTry(v)
    [] t = "IBCChannelOpenMsg" -> Marshal_IBCChannelOpenMsg(v)
    [] t = "IBCOpenAck" -> Marshal_IBCOpenAck(v)
    [] t = "IBCOpenConfirm" -> Marshal_IBCOpenConfirm(v)
    [] t = "IBCChannelConnectMsg" -> Marshal_IBCChannelConnectMsg(v)
    [] t = "IBCCloseInit" -> Marshal_IBCCloseInit(v)
    [] t = "IBCCloseConfirm" -> Marshal_IBCCloseConfirm(v)
    [] t = "IBCChannelCloseMsg" -> Marshal_IBCChannelCloseMsg(v)
    [] t = "IBCTimeoutBlock" -> Marshal_IBCTimeoutBlock(v)
    [] t = "IBCTimeout" -> Marshal_IBCTimeout(v)
    [] t = "IBCAcknowledgement" -> Marshal_IBCAcknowledgement(v)
    [] t = "IBCPacket" -> Marshal_IBCPacket(v)
    [] t = "IBCPacketReceiveMsg" -> Marshal_IBCPacketReceiveMsg(v)
    [] t = "IBCPacketAckMsg" -> Marshal_IBCPacketAckMsg(v)
    [] t = "IBCPacketTimeoutMsg" -> Marshal_IBCPacketTimeoutMsg(v)
    [] t = "IBCAckCallbackMsg" -> Marshal_IBCAckCallbackMsg(v)
    [] t = "IBCTimeoutCallbackMsg" -> Marshal_IBCTimeoutCallbackMsg(v)
    [] t = "IBCSourceCallbackMsg" -> Marshal_IBCSourceCallbackMsg(v)
    [] t = "IBCTransferCallback" -> Marshal_IBCTransferCallback(v)
    [] t = "IBCDestinationCallbackMsg" -> Marshal_IBCDestinationCallbackMsg(v)

-----------------------------------------------------------------------------
(* One call of ExpectedJSONSize on a value                                 *)

VARIABLES
  type,   \* the type of the value
  value,
  size    \* what the call returned, Nil before it

vars == <<type, value, size>>

Init ==
  /\ type \in Types
  /\ value \in Measured[type]
  /\ size = Nil

Measure ==
  /\ size = Nil
  /\ size' = ExpectedJSONSize(type, value)
  /\ UNCHANGED <<type, value>>

Next == Measure

Spec == Init /\ [][Next]_vars

-----------------------------------------------------------------------------
(* Properties                                                              *)

\* ExpectedJSONSize "returns the expected JSON size in bytes when using
\* json.Marshal with the given value" (json_size.go:4): the hand-counted sum of
\* every method is exactly the length of the document that the struct tags
\* produce, for each combination of nil pointers, omitted fields, escapes,
\* paddings and decimal lengths; for the values it does not count it is too
\* small, never too large.
SizesAreExact ==
  size # Nil => /\ size <= Marshal(type, value)
                /\ size = Marshal(type, value) <=> value \in Declared(Counted)[type]

=============================================================================
