------------------------------ MODULE WireForms ------------------------------
(***************************************************************************)
(* The payloads of the session protocol: TLV fields                        *)
(* (src/internal/protocol/tlv), the fields each message must have          *)
(* (src/internal/protocol/schema) and the four messages that are encoded   *)
(* with them (src/internal/protocol/session: eventwire.go,                 *)
(* command_report_wire.go).  A form lists the fields of a message in the   *)
(* order its encoder writes them, each with what encoder and decoder do    *)
(* with it.                                                                *)
(*                                                                         *)
(* A sender encodes a message; a sender of another version adds a field;   *)
(* the receiver decodes.  A payload is never cut short here: Frame says    *)
(* that a reader gets whole frames.                                        *)
(*                                                                         *)
(* Abstractions.  A message maps the field ids of its form to values.      *)
(* Strings are sequences of bytes of which only the space is special.      *)
(* Command arguments are the bytes between two braces: of JSON it matters  *)
(* only that an empty map is not sent.                                     *)
(***************************************************************************)
EXTENDS Integers, Sequences, SequencesExt

CONSTANTS
  Messages,      \* bound: the messages of each kind that are tried
  ExtraFields    \* bound: fields of another version

MaxFields == 9         \* the fields of a report

Space == 32

TypeU32 == 3
TypeU64 == 4
TypeString == 6
TypeBytes == 7

\* DefaultLimits: the bytes of a payload.
PayloadLimit == 8 * 1024 * 1024

-----------------------------------------------------------------------------
(* Numbers on the wire *)

TwoBytes == 65536

Byte == {v \in Nat : v < 256}

\* The numbers of 16, 32 and 64 bits.
U16 == {v \in Nat : v < TwoBytes}
U32 == {v \in Nat : v \div TwoBytes \in U16}
U64 == {v \in Nat : (v \div TwoBytes) \div TwoBytes \in U32}

PutUint16(v) == <<v \div 256, v % 256>>

PutUint32(v) == PutUint16(v \div TwoBytes) \o PutUint16(v % TwoBytes)

PutUint64(v) ==
  LET high == (v \div TwoBytes) \div TwoBytes
  IN  PutUint32(high) \o PutUint32(v - high * TwoBytes * TwoBytes)

Uint16(b) == b[1] * 256 + b[2]

\* The lowest 32 bits of a number.
Low32(n) == ((n \div TwoBytes) % TwoBytes) * TwoBytes + (n % TwoBytes)

Uint32(b) == Uint16(SubSeq(b, 1, 2)) * TwoBytes + Uint16(SubSeq(b, 3, 4))

Uint64(b) == Uint32(SubSeq(b, 1, 4)) * TwoBytes * TwoBytes + Uint32(SubSeq(b, 5, 8))

-----------------------------------------------------------------------------
(* TLV *)

TlvHeaderLen == 7

TlvField == [id : U16, type : Byte, value : {s \in Seq(Byte) : Len(s) \in U32}]

\* Mutation: the length counts the header as well.
EncodeFieldWithHeaderLen(f) ==
  PutUint16(f.id) \o <<f.type>> \o PutUint32(TlvHeaderLen + Len(f.value)) \o f.value

EncodeField(f) == PutUint16(f.id) \o <<f.type>> \o PutUint32(Len(f.value)) \o f.value

EncodeFields(fs) == FlattenSeq([i \in DOMAIN fs |-> EncodeField(fs[i])])

\* Stands after the last whole field of a payload that is cut short; no field
\* has its type.
Malformed == [id |-> 0, type |-> -1, value |-> <<>>]

ValueLen(bytes, i) == Uint32(SubSeq(bytes, i + 4, i + TlvHeaderLen))

\* Where the field that starts after i bytes ends.
FieldEnd(bytes, i) == i + TlvHeaderLen + ValueLen(bytes, i)

\* What is left of a payload is compared as a number of 32 bits.
IsWholeField(bytes, i) ==
  /\ Len(bytes) - i >= TlvHeaderLen
  /\ ValueLen(bytes, i) <= Low32(Len(bytes) - i - TlvHeaderLen)

FieldAt(bytes, i) ==
  [id |-> Uint16(SubSeq(bytes, i + 1, i + 2)), type |-> bytes[i + 3],
   value |-> SubSeq(bytes, i + TlvHeaderLen + 1, FieldEnd(bytes, i))]

\* The fields from offset i on, in terms of those from the next offset on.
DecodeFields(bytes) ==
  LET from[i \in 0 .. Len(bytes)] ==
        IF i = Len(bytes) THEN <<>>
        ELSE IF ~ IsWholeField(bytes, i) THEN <<Malformed>>
        ELSE <<FieldAt(bytes, i)>> \o from[FieldEnd(bytes, i)]
  IN  from[0]

HasField(fs, id) == \E i \in DOMAIN fs : fs[i].id = id

GetField(fs, id) == fs[SelectInSeq(fs, LAMBDA f : f.id = id)]

-----------------------------------------------------------------------------
(* Schema *)

\* The fields a message must have, and their types.
Requirements ==
  [event |-> {<<4, TypeString>>, <<2, TypeString>>, <<1, TypeString>>, <<200, TypeString>>,
              <<300, TypeString>>, <<500, TypeString>>},
   ack |-> {<<4, TypeString>>, <<2, TypeString>>, <<200, TypeString>>, <<700, TypeString>>,
            <<6, TypeU64>>},
   command |-> {<<2, TypeString>>, <<1, TypeString>>, <<200, TypeString>>, <<201, TypeString>>,
                <<202, TypeString>>},
   report |-> {<<1, TypeString>>, <<5, TypeString>>, <<600, TypeString>>, <<601, TypeString>>}]

Kinds == DOMAIN Requirements

Validate(kind, fs) ==
  \A req \in Requirements[kind] :
    HasField(fs, req[1]) /\ GetField(fs, req[1]).type = req[2]

-----------------------------------------------------------------------------
(***************************************************************************)
(* The forms.  A required string must not be blank and is sent as it is;   *)
(* an optional one is trimmed and sent unless nothing is left.  A stamp is *)
(* sent unless zero; a required stamp must not be zero.  A code is always  *)
(* sent.                                                                   *)
(***************************************************************************)
Required(id) == [id |-> id, type |-> TypeString, mode |-> "required"]
Optional(id) == [id |-> id, type |-> TypeString, mode |-> "optional"]
Stamp == [id |-> 6, type |-> TypeU64, mode |-> "stamp"]
RequiredStamp == [id |-> 6, type |-> TypeU64, mode |-> "required stamp"]
AckCode == [id |-> 701, type |-> TypeU32, mode |-> "code"]
Args == [id |-> 203, type |-> TypeBytes, mode |-> "args"]

EventForm ==
  <<Required(4), Required(2), Required(1), Required(200), Required(300), Required(500), Stamp>>

EventAckForm ==
  <<Required(4), Required(2), Required(200), Required(700), AckCode, RequiredStamp>>

CommandForm ==
  <<Required(2), Required(1), Required(200), Required(201), Required(202), Args>>

ReportForm ==
  <<Required(1), Required(5), Required(600), Required(601),
    Optional(2), Optional(3), Optional(4), Optional(500), Stamp>>

Form == [event |-> EventForm, ack |-> EventAckForm, command |-> CommandForm, report |-> ReportForm]

IdsOf(kind) == {f.id : f \in ToSet(Form[kind])}

Entry(kind, id) == CHOOSE f \in ToSet(Form[kind]) : f.id = id

\* What a message may hold where its form has f.  No frame takes a string as
\* long as the 32 bits of a field's length can tell.
ValuesOf(f) ==
  CASE f.type = TypeU32 -> U32
    [] f.type = TypeU64 -> U64
    [] OTHER -> {s \in Seq(Byte) : Len(s) + 2 \in U32}

ASSUME WireFormsAssumption ==
  /\ \A kind \in Kinds : \A m \in Messages[kind], f \in ToSet(Form[kind]) : m[f.id] \in ValuesOf(f)
  /\ \A kind \in Kinds : \A m \in Messages[kind] : m = [id \in IdsOf(kind) |-> m[id]]
  /\ ExtraFields \subseteq TlvField
  /\ \A kind \in Kinds, f \in ExtraFields : f.id \notin IdsOf(kind)

TrimSpace(s) ==
  LET inner == {i \in DOMAIN s : s[i] # Space}
  IN  IF inner = {} THEN <<>>
      ELSE SubSeq(s, CHOOSE i \in inner : \A j \in inner : i <= j,
                     CHOOSE i \in inner : \A j \in inner : i >= j)

\* The Validate methods of the messages.
ValidMessage(kind, m) ==
  \A f \in ToSet(Form[kind]) :
    /\ f.mode = "required" => TrimSpace(m[f.id]) # <<>>
    /\ f.mode = "required stamp" => m[f.id] # 0

IsSent(f, v) ==
  CASE f.mode = "optional" -> TrimSpace(v) # <<>>
    [] f.mode = "stamp" -> v # 0
    [] f.mode = "args" -> v # <<>>
    [] OTHER -> TRUE

ValueBytes(f, v) ==
  CASE f.mode = "optional" -> TrimSpace(v)
    [] f.mode = "args" -> <<123>> \o v \o <<125>>
    [] f.mode = "code" -> PutUint32(v)
    [] f.mode \in {"stamp", "required stamp"} -> PutUint64(v)
    [] OTHER -> v

FieldOf(f, m) == [id |-> f.id, type |-> f.type, value |-> ValueBytes(f, m[f.id])]

FieldsOf(kind, m) ==
  LET written(f) == IF IsSent(f, m[f.id]) THEN <<FieldOf(f, m)>> ELSE <<>>
  IN  FlattenSeq([i \in DOMAIN Form[kind] |-> written(Form[kind][i])])

\* A number must have the width of its type; only the required stamp of an
\* ack is read as zero when it does not.
ReadableField(f, fs) ==
  LET v == GetField(fs, f.id).value
  IN  CASE f.mode = "stamp" -> Len(v) = 8
        [] f.mode = "code" -> Len(v) = 4
        [] f.mode = "args" -> Len(v) >= 2 /\ v[1] = 123 /\ v[Len(v)] = 125
        [] OTHER -> TRUE

ReadValue(f, fs) ==
  IF ~ HasField(fs, f.id)
  THEN IF f.mode \in {"stamp", "code"} THEN 0 ELSE <<>>
  ELSE LET v == GetField(fs, f.id).value
       IN  CASE f.mode = "args" -> SubSeq(v, 2, Len(v) - 1)
             [] f.mode = "stamp" -> Uint64(v)
             [] f.mode = "code" -> Uint32(v)
             [] f.mode = "required stamp" -> IF Len(v) = 8 THEN Uint64(v) ELSE 0
             [] OTHER -> v

Accepts(kind, fs) ==
  /\ Malformed \notin ToSet(fs)
  /\ Validate(kind, fs)
  /\ \A f \in ToSet(Form[kind]) : HasField(fs, f.id) => ReadableField(f, fs)

\* The decoder reads by field id, whatever the order.
Decode(kind, bytes) ==
  LET fs == DecodeFields(bytes)
  IN  IF Accepts(kind, fs) THEN {[id \in IdsOf(kind) |-> ReadValue(Entry(kind, id), fs)]} ELSE {}

-----------------------------------------------------------------------------
VARIABLES
  outgoing,  \* the kind and message handed to the encoder
  fields,   \* the fields the sender puts on the wire
  payload,  \* the bytes on the wire, at most one payload
  decoded   \* what the decoder returned: at most one message

wireFormVars == <<outgoing, fields, payload, decoded>>

Nothing == [kind |-> "none"]

WireFormInit ==
  /\ outgoing = Nothing
  /\ fields = <<>>
  /\ payload = {}
  /\ decoded = {}

\* EncodeEventFrame and its kin, up to the fields; nothing is being sent yet.
BuildFields(kind, m) ==
  /\ ValidMessage(kind, m)
  /\ outgoing' = [kind |-> kind, message |-> m]
  /\ fields' = FieldsOf(kind, m)
  /\ UNCHANGED <<payload, decoded>>

\* A sender of another version has one more field, in any place.
AddField(i, f) ==
  /\ outgoing # Nothing
  /\ payload = {}
  /\ f \notin ToSet(fields)
  /\ i \in 1 .. Len(fields) + 1
  /\ fields' = InsertAt(fields, i, f)
  /\ UNCHANGED <<outgoing, payload, decoded>>

\* Validate cannot fail on what is built from a valid message; the model
\* checks it as the code does.  WriteFrame refuses a payload over the default
\* limit.
EncodeMessage ==
  /\ outgoing # Nothing
  /\ payload = {}
  /\ Validate(outgoing.kind, fields)
  /\ Len(EncodeFields(fields)) <= PayloadLimit
  /\ payload' = {EncodeFields(fields)}
  /\ UNCHANGED <<outgoing, fields, decoded>>

DecodeMessage ==
  /\ decoded = {}
  /\ \E bytes \in payload : decoded' = Decode(outgoing.kind, bytes)
  /\ decoded' # {}
  /\ UNCHANGED <<outgoing, fields, payload>>

WireFormNext ==
  \/ outgoing = Nothing /\ \E kind \in Kinds : \E m \in Messages[kind] : BuildFields(kind, m)
  \/ \E f \in ExtraFields : \E i \in 1 .. MaxFields + 1 : AddField(i, f)
  \/ EncodeMessage
  \/ DecodeMessage

WireFormSpec == WireFormInit /\ [][WireFormNext]_wireFormVars

-----------------------------------------------------------------------------
\* The message with its optional strings trimmed.
Canonical(kind, m) ==
  [id \in IdsOf(kind) |-> IF Entry(kind, id).mode = "optional" THEN TrimSpace(m[id]) ELSE m[id]]

\* Every message an encoder accepts is accepted by the decoder of its kind
\* and is the same message afterwards, but for the blanks around optional
\* strings: also when a value looks like the header of a field, when every
\* optional field is missing, and when another version of the sender puts a
\* field of its own among them (the Encode and Decode functions of
\* eventwire.go and command_report_wire.go; "Unknown fields are ignored by
\* design", schema.go:132).
RoundTrip ==
  \A bytes \in payload :
    Decode(outgoing.kind, bytes) = {Canonical(outgoing.kind, outgoing.message)}

-----------------------------------------------------------------------------
(***************************************************************************)
(* Why it holds.                                                           *)
(***************************************************************************)

\* The fields that the form has are those the message sends, in any order and
\* with any number of others among them.
Carries(kind, m, fs) ==
  /\ fs \in Seq(TlvField)
  /\ {g \in ToSet(fs) : g.id \in IdsOf(kind)} =
       {FieldOf(f, m) : f \in {e \in ToSet(Form[kind]) : IsSent(e, m[e.id])}}

WireInv ==
  /\ payload \subseteq {EncodeFields(fields)}
  /\ payload # {} => Len(EncodeFields(fields)) <= PayloadLimit
  /\ outgoing = Nothing => payload = {}
  /\ outgoing # Nothing =>
       \E kind \in Kinds : \E m \in Messages[kind] :
         /\ outgoing = [kind |-> kind, message |-> m]
         /\ ValidMessage(kind, m)
         /\ Carries(kind, m, fields)
=============================================================================
