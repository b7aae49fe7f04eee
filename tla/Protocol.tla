------------------------------- MODULE Protocol -------------------------------
(***************************************************************************)
(* protocol/: the wire format of the four messages, encode() and decode(). *)
(* A byte is a digit below Radix, which is 256 in the code: everything     *)
(* said here is about positions and digits, and a smaller radix lets every *)
(* 8-byte field be an integer TLC can compute with.                        *)
(*                                                                         *)
(* The behaviour is one message's way: it is encoded into a buffer of some *)
(* size, some of the bytes arrive, one of them perhaps changed, and what   *)
(* arrived is decoded.                                                     *)
(***************************************************************************)
EXTENDS Integers, Sequences

CONSTANTS Radix,      \* values of a byte
          Messages,   \* the messages sent
          SpareRoom,  \* sizes of the output buffer, relative to the message's
          NewBytes    \* values a changed byte takes

\* Two bytes hold the length of any message.
ASSUME ProtocolAssumption == Radix \in Nat /\ Radix % 2 = 0 /\ Radix * Radix > 48

VARIABLES step,       \* "new", "encoded", "arrived", "decoded"
          message,
          buffer,     \* the bytes of the output buffer, then those that arrived
          changed,    \* a byte was changed on the way
          result,     \* what encode(), then decode(), returned
          lastRead    \* the last position decode() looked at

protocolVars == <<step, message, buffer, changed, result, lastRead>>

-----------------------------------------------------------------------------
(***************************************************************************)
(* byte_order.hpp: little-endian fields; a price is two's complement.      *)
(***************************************************************************)
Width == [u8 |-> 1, u16 |-> 2, u32 |-> 4, u64 |-> 8, i64 |-> 8, symbol |-> 8]

\* What a shift by i bytes divides or multiplies by.
Weight[i \in 0 .. 8] == IF i = 0 THEN 1 ELSE Weight[i - 1] * Radix

PutUnsigned(v, w) == [i \in 1 .. w |-> (v \div Weight[i - 1]) % Radix]

\* v[i] is what the loop has after i bytes.
GetUnsigned(bytes) ==
  LET v[i \in 0 .. Len(bytes)] == IF i = 0 THEN 0 ELSE v[i - 1] + Weight[i - 1] * bytes[i]
  IN  v[Len(bytes)]

PutField(kind, v) ==
  CASE kind = "symbol" -> v
    [] kind = "i64"    -> PutUnsigned(v % Weight[8], 8)
    [] OTHER           -> PutUnsigned(v, Width[kind])

GetField(kind, bytes) ==
  LET u == GetUnsigned(bytes)
  IN  CASE kind = "symbol" -> bytes
        [] kind = "i64"    -> IF u < Weight[8] \div 2 THEN u ELSE u - Weight[8]
        [] OTHER           -> u

-----------------------------------------------------------------------------
(***************************************************************************)
(* message_types.hpp: kType and kWireSize.                                 *)
(***************************************************************************)
kHeaderSize == 3
kType == [AddOrder |-> 1, CancelOrder |-> 2, ExecuteOrder |-> 3, ReplaceOrder |-> 4]
kWireSize == [AddOrder     |-> kHeaderSize + 8 + 8 + 8 + 1 + 8 + 4 + 8,
              CancelOrder  |-> kHeaderSize + 8 + 8 + 8,
              ExecuteOrder |-> kHeaderSize + 8 + 8 + 4 + 8,
              ReplaceOrder |-> kHeaderSize + 8 + 8 + 8 + 8 + 4 + 8]

(***************************************************************************)
(* encoder.cpp: the fields each encode() puts, in order.                   *)
(***************************************************************************)
AddOrderPut ==
  <<<<"seq_num", "u64">>, <<"order_id", "u64">>, <<"symbol", "symbol">>, <<"side", "u8">>,
    <<"price", "i64">>, <<"quantity", "u32">>, <<"timestamp", "u64">>>>
CancelOrderPut ==
  <<<<"seq_num", "u64">>, <<"order_id", "u64">>, <<"timestamp", "u64">>>>
ExecuteOrderPut ==
  <<<<"seq_num", "u64">>, <<"order_id", "u64">>, <<"executed_quantity", "u32">>,
    <<"timestamp", "u64">>>>

\* Faulty: the quantity takes eight bytes.
ReplaceOrderPutWide ==
  <<<<"seq_num", "u64">>, <<"old_order_id", "u64">>, <<"new_order_id", "u64">>,
    <<"price", "i64">>, <<"quantity", "u64">>, <<"timestamp", "u64">>>>

ReplaceOrderPut ==
  <<<<"seq_num", "u64">>, <<"old_order_id", "u64">>, <<"new_order_id", "u64">>,
    <<"price", "i64">>, <<"quantity", "u32">>, <<"timestamp", "u64">>>>
Put == [AddOrder |-> AddOrderPut, CancelOrder |-> CancelOrderPut,
        ExecuteOrder |-> ExecuteOrderPut, ReplaceOrder |-> ReplaceOrderPut]

put_header(type) == PutUnsigned(kType[type], 1) \o PutUnsigned(kWireSize[type], 2)

\* Where p stands after k fields; field k takes the bytes from p[k - 1] to p[k].
Offset(fields) ==
  LET p[k \in 0 .. Len(fields)] == IF k = 0 THEN kHeaderSize ELSE p[k - 1] + Width[fields[k][2]]
  IN  p
FieldAt(p, i) == CHOOSE k \in DOMAIN p \ {0} : p[k - 1] < i /\ i <= p[k]

Written(m) ==
  LET fields  == Put[m.type]
      p       == Offset(fields)
      Data(i) == LET k == FieldAt(p, i)
                 IN  PutField(fields[k][2], m[fields[k][1]])[i - p[k - 1]]
  IN  [i \in 1 .. p[Len(fields)] |-> IF i <= kHeaderSize THEN put_header(m.type)[i] ELSE Data(i)]

\* The whole of encode(): the bytes go to the front of the buffer.
Encoded(m, out) ==
  IF Len(out) < kWireSize[m.type]
    THEN [result |-> <<"BufferTooSmall">>, out |-> out]
    ELSE [result |-> <<"Written", kWireSize[m.type]>>,
          out |-> Written(m) \o SubSeq(out, Len(Written(m)) + 1, Len(out))]

-----------------------------------------------------------------------------
(***************************************************************************)
(* decoder.cpp: the fields each decode_*() gets, in order.                 *)
(***************************************************************************)
AddOrderGet ==
  <<<<"seq_num", "u64">>, <<"order_id", "u64">>, <<"symbol", "symbol">>, <<"side", "u8">>,
    <<"price", "i64">>, <<"quantity", "u32">>, <<"timestamp", "u64">>>>
CancelOrderGet ==
  <<<<"seq_num", "u64">>, <<"order_id", "u64">>, <<"timestamp", "u64">>>>

\* Faulty: two fields of the same width are exchanged.
ExecuteOrderGetSwapped ==
  <<<<"order_id", "u64">>, <<"seq_num", "u64">>, <<"executed_quantity", "u32">>,
    <<"timestamp", "u64">>>>

ExecuteOrderGet ==
  <<<<"seq_num", "u64">>, <<"order_id", "u64">>, <<"executed_quantity", "u32">>,
    <<"timestamp", "u64">>>>
ReplaceOrderGet ==
  <<<<"seq_num", "u64">>, <<"old_order_id", "u64">>, <<"new_order_id", "u64">>,
    <<"price", "i64">>, <<"quantity", "u32">>, <<"timestamp", "u64">>>>
Get == [AddOrder |-> AddOrderGet, CancelOrder |-> CancelOrderGet,
        ExecuteOrder |-> ExecuteOrderGet, ReplaceOrder |-> ReplaceOrderGet]

\* A read past the end gives some byte.
Bytes(in, from, n) == [i \in 1 .. n |-> IF from + i <= Len(in) THEN in[from + i] ELSE 0]

Payload(in, type) ==
  LET fields == Get[type]
      p == Offset(fields)
      Named(name) == CHOOSE k \in DOMAIN fields : fields[k][1] = name
      Field(k) == GetField(fields[k][2], Bytes(in, p[k - 1], Width[fields[k][2]]))
  IN  [name \in {fields[k][1] : k \in DOMAIN fields} |-> Field(Named(name))]

wire_size_for(raw) == {type \in DOMAIN kType : kType[type] = raw}

\* Faulty: a short payload is not noticed.
IncompleteNever(in, length) == FALSE

Incomplete(in, length) == Len(in) < length

Error(e, n) == [result |-> <<e>>, read |-> n]

\* The whole of decode(), with the last position it reads.
Decoded(in) ==
  IF Len(in) < kHeaderSize THEN Error("TruncatedMessage", 0)
  ELSE IF wire_size_for(in[1]) = {} THEN Error("InvalidMessageType", kHeaderSize)
  ELSE LET type == CHOOSE t \in wire_size_for(in[1]) : TRUE
           length == GetUnsigned(Bytes(in, 1, 2))
       IN  IF length # kWireSize[type] THEN Error("LengthMismatch", kHeaderSize)
           ELSE IF Incomplete(in, length) THEN Error("TruncatedMessage", kHeaderSize)
           ELSE [result |-> <<type, Payload(in, type)>>,
                 read |-> Offset(Get[type])[Len(Get[type])]]

-----------------------------------------------------------------------------
(***************************************************************************)
(* One message's way.  The fields of a message hold what their types do; a *)
(* Side may be any byte, as decode() makes one of whatever it reads.       *)
(***************************************************************************)
FieldValues(kind) ==
  CASE kind = "symbol" -> [1 .. 8 -> 0 .. Radix - 1]
    [] kind = "i64"    -> -(Weight[8] \div 2) .. Weight[8] \div 2 - 1
    [] OTHER           -> 0 .. Weight[Width[kind]] - 1

IsMessage(m) ==
  /\ m = [name \in DOMAIN m |-> m[name]] /\ m.type \in DOMAIN kType
  /\ LET fields == Put[m.type]
     IN  /\ DOMAIN m = {fields[k][1] : k \in DOMAIN fields} \cup {"type"}
         /\ \A k \in DOMAIN fields : m[fields[k][1]] \in FieldValues(fields[k][2])

ASSUME MessagesAssumption ==
  /\ \A m \in Messages : IsMessage(m)
  /\ SpareRoom \subseteq Int /\ NewBytes \subseteq 0 .. Radix - 1

Size == kWireSize[message.type]

ProtocolInit ==
  /\ message \in Messages
  /\ step = "new" /\ buffer = <<>> /\ changed = FALSE
  /\ result = <<"none">> /\ lastRead = 0

\* encode() into a buffer of some size that holds other bytes.
Encode ==
  /\ step = "new"
  /\ \E room \in SpareRoom :
       LET e == Encoded(message, [i \in 1 .. Size + room |-> Radix - 1])
       IN  buffer' = e.out /\ result' = e.result
  /\ step' = "encoded"
  /\ UNCHANGED <<message, changed, lastRead>>

\* What arrives: the first n bytes, or all of them with one changed.
Arrive ==
  /\ step = "encoded" /\ result[1] # "BufferTooSmall"
  /\ step' = "arrived"
  /\ \/ /\ \E n \in 0 .. Len(buffer) : buffer' = SubSeq(buffer, 1, n)
        /\ UNCHANGED changed
     \/ /\ \E k \in 1 .. Size, b \in NewBytes : b # buffer[k] /\ buffer' = [buffer EXCEPT ![k] = b]
        /\ changed' = TRUE
  /\ UNCHANGED <<message, result, lastRead>>

Decode ==
  /\ step = "arrived"
  /\ result' = Decoded(buffer).result /\ lastRead' = Decoded(buffer).read
  /\ step' = "decoded"
  /\ UNCHANGED <<message, buffer, changed>>

ProtocolNext == Encode \/ Arrive \/ Decode
ProtocolSpec == ProtocolInit /\ [][ProtocolNext]_protocolVars

-----------------------------------------------------------------------------
Errors == {"TruncatedMessage", "InvalidMessageType", "LengthMismatch"}
AsMessage(r) == [f \in DOMAIN r[2] \cup {"type"} |-> IF f = "type" THEN r[1] ELSE r[2][f]]

\* What encode() wrote decode() gives back, whatever follows it in the buffer,
\* and anything shorter is TruncatedMessage: with buffers of kWireSize bytes, as
\* FeedGenerator makes them, demux() never meets DecodeFailed.
RoundTrip ==
  step = "decoded" /\ ~changed =>
    IF Len(buffer) >= Size THEN result[1] \notin Errors /\ AsMessage(result) = message
                           ELSE result[1] = "TruncatedMessage"

\* Of changed bytes decode() makes an error or a message it could have been sent
\* as: what it accepts starts with the encoding of what it returns.
AcceptsOnlyEncodings ==
  step = "decoded" /\ result[1] \notin Errors =>
    LET m == AsMessage(result) IN SubSeq(buffer, 1, kWireSize[m.type]) = Written(m)

\* encode() writes the bytes it says it wrote and leaves the rest of the buffer
\* alone, or touches nothing; decode() reads nothing past the end.
StaysInside ==
  /\ step = "encoded" =>
       IF result[1] = "BufferTooSmall"
         THEN Len(buffer) < Size /\ \A i \in DOMAIN buffer : buffer[i] = Radix - 1
         ELSE \A i \in DOMAIN buffer : i > result[2] => buffer[i] = Radix - 1
  /\ lastRead <= Len(buffer)
=============================================================================
