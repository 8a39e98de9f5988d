-------------------------------- MODULE Frame --------------------------------
(***************************************************************************)
(* The framing of the session protocol, src/internal/protocol/frame: a     *)
(* fixed header, authentication bytes, payload.  A writer puts frames on a *)
(* connection, a reader takes them off; the connection can break in the    *)
(* middle of the last one.                                                 *)
(*                                                                         *)
(* Abstractions.  Authentication bytes and payload are their lengths: a    *)
(* reader that starts at the right byte and takes the right number has the *)
(* right bytes.  Magic and version are unset (zero), the protocol's, or    *)
(* another.  Message id and type are carried along and left out.  Flags    *)
(* are sets.  header_len is 16 bits wide, the other lengths never meet     *)
(* their width.                                                            *)
(***************************************************************************)
EXTENDS Integers, Sequences

CONSTANTS
  MaxAuthBytes,     \* Limits
  MaxPayloadBytes,
  Frames,           \* bound: what callers hand to WriteFrame
  MaxFrames         \* bound: frames on one connection

FixedHeaderLen == 32

HeaderLenRange == 65536  \* header_len is a uint16

SupportedFlags == {"auth", "response", "error"}

AnyFrame ==
  [magic : {"unset", "protocol", "other"}, version : {"unset", "protocol", "other"},
   flags : SUBSET (SupportedFlags \cup {"unknown"}), auth : Nat, payload : Nat]

\* The bound on MaxAuthBytes is what keeps a reader in step: DefaultLimits
\* allows exactly 64 * 1024 authentication bytes.
ASSUME FrameAssumption ==
  /\ MaxAuthBytes \in 0 .. HeaderLenRange
  /\ MaxPayloadBytes \in Nat
  /\ Frames \subseteq AnyFrame
  /\ MaxFrames \in Nat

Field(v) == IF v = "unset" THEN "protocol" ELSE v

\* The header WriteFrame puts before the bytes of f.  The length of the
\* authentication bytes is converted to 16 bits and added in 16 bits.
HeaderOf(f) ==
  [magic |-> Field(f.magic), version |-> Field(f.version),
   headerLen |-> (FixedHeaderLen + f.auth) % HeaderLenRange,
   flags |-> IF f.auth > 0 THEN f.flags \cup {"auth"} ELSE f.flags \ {"auth"},
   payloadLen |-> f.payload]

WriteAccepts(f) ==
  /\ f.auth <= MaxAuthBytes
  /\ f.payload <= MaxPayloadBytes
  /\ f.flags \subseteq SupportedFlags

DecodeHeaderAccepts(h) ==
  /\ h.magic = "protocol"
  /\ h.version = "protocol"
  /\ h.flags \subseteq SupportedFlags

\* Computed in 16 bits as well.
AuthLen(h) == (h.headerLen - FixedHeaderLen) % HeaderLenRange

\* Mutation: the auth flag is not compared with the length.
ReadIgnoresAuthFlag(h) ==
  /\ DecodeHeaderAccepts(h)
  /\ h.headerLen >= FixedHeaderLen
  /\ AuthLen(h) <= MaxAuthBytes
  /\ h.payloadLen <= MaxPayloadBytes

ReadAccepts(h) ==
  /\ DecodeHeaderAccepts(h)
  /\ h.headerLen >= FixedHeaderLen
  /\ ~ ("auth" \in h.flags /\ AuthLen(h) = 0)
  /\ AuthLen(h) <= MaxAuthBytes
  /\ h.payloadLen <= MaxPayloadBytes

-----------------------------------------------------------------------------
VARIABLES
  written,   \* the frames WriteFrame accepted, in order
  received,  \* the lengths of the frames ReadFrame returned, in order
  skew,      \* bytes the reader is away from the start of its next frame
  link       \* "open", "torn" inside the last frame, or "closed" by the reader

frameVars == <<written, received, skew, link>>

FrameInit ==
  /\ written = <<>>
  /\ received = <<>>
  /\ skew = 0
  /\ link = "open"

WriteFrame(f) ==
  /\ link = "open"
  /\ Len(written) < MaxFrames
  /\ WriteAccepts(f)
  /\ written' = Append(written, f)
  /\ UNCHANGED <<received, skew, link>>

\* A write fails half way: the reader will see the beginning of the frame.
TearConn ==
  /\ link = "open"
  /\ Len(received) < Len(written)
  /\ link' = "torn"
  /\ UNCHANGED <<written, received, skew>>

Incoming == HeaderOf(written[Len(received) + 1])

IsTorn == link = "torn" /\ Len(received) + 1 = Len(written)

ReadFrame ==
  /\ link # "closed"
  /\ skew = 0
  /\ Len(received) < Len(written)
  /\ ~ IsTorn
  /\ ReadAccepts(Incoming)
  /\ received' = Append(received, [auth |-> AuthLen(Incoming), payload |-> Incoming.payloadLen])
  /\ LET f == written[Len(received) + 1]
         taken == AuthLen(Incoming) + Incoming.payloadLen
     IN  skew' = (f.auth + f.payload) - taken
  /\ UNCHANGED <<written, link>>

\* ReadFrame returns an error: every caller drops the connection.
ReadFrameFails ==
  /\ link # "closed"
  /\ Len(received) < Len(written)
  /\ IsTorn \/ ~ ReadAccepts(Incoming)
  /\ link' = "closed"
  /\ UNCHANGED <<written, received, skew>>

FrameNext ==
  \/ \E f \in Frames : WriteFrame(f)
  \/ TearConn
  \/ ReadFrame
  \/ ReadFrameFails

FrameSpec == FrameInit /\ [][FrameNext]_frameVars

-----------------------------------------------------------------------------
\* Whatever was written, and wherever the connection broke, the frames the
\* reader has are the first ones the writer sent, byte for byte, and the next
\* one begins where the last one ended.  Near 64 KiB of authentication bytes
\* the 16-bit header_len of an accepted frame wraps: the reader must refuse
\* such a frame and never take a part of it for the next one (WriteFrame and
\* ReadFrame, src/internal/protocol/frame/frame.go:64-194).
InStep ==
  /\ skew = 0
  /\ Len(received) <= Len(written)
  /\ \A i \in 1 .. Len(received) :
       received[i] = [auth |-> written[i].auth, payload |-> written[i].payload]
=============================================================================
