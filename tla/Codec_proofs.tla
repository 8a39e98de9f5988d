----------------------------- MODULE Codec_proofs -----------------------------
(***************************************************************************)
(* Proofs about what is put on a connection: frames (Frame), and the       *)
(* payloads they carry (WireForms).                                        *)
(***************************************************************************)
EXTENDS Frame, WireForms, SequenceTheorems, WellFoundedInduction, TLAPS

-----------------------------------------------------------------------------
(***************************************************************************)
(* Frames.  The reader stays in step with the writer, for every limit on   *)
(* authentication bytes that is no larger than the width of header_len.    *)
(***************************************************************************)

\* Lengths as they are put on a connection.
Lengths == [auth : Nat, payload : Nat]

\* The frames on the connection are frames that WriteFrame accepts, and the
\* reader is in step.  That they were accepted is what the step of ReadFrame
\* needs.
FrameInv ==
  /\ written \in Seq(Frames)
  /\ \A i \in 1 .. Len(written) : WriteAccepts(written[i])
  /\ received \in Seq(Lengths)
  /\ InStep

\* A header that ReadFrame accepts, written for a frame that WriteFrame
\* accepts, says how long the authentication bytes are.  With up to 65503 of
\* them header_len has not wrapped; with more it is below the fixed header,
\* except for 65536, where it says zero and contradicts the auth flag
\* (WriteFrame and ReadFrame, src/internal/protocol/frame/frame.go:64-194).
LEMMA HeaderTellsLength ==
  ASSUME NEW f \in Frames, WriteAccepts(f), ReadAccepts(HeaderOf(f))
  PROVE  /\ AuthLen(HeaderOf(f)) = f.auth
         /\ HeaderOf(f).payloadLen = f.payload
<1> DEFINE h == HeaderOf(f)
<1>1. f.auth \in Nat /\ f.payload \in Nat
  BY FrameAssumption DEF FrameAssumption, AnyFrame
<1>2. f.auth <= HeaderLenRange
  <2>1. MaxAuthBytes \in Nat /\ MaxAuthBytes <= HeaderLenRange
    <3>1. HeaderLenRange \in Nat
      BY DEF HeaderLenRange
    <3>2. MaxAuthBytes \in 0 .. HeaderLenRange
      BY FrameAssumption DEF FrameAssumption
    <3>3. QED
      BY <3>1, <3>2
  <2>2. f.auth <= MaxAuthBytes
    BY DEF WriteAccepts
  <2>3. QED
    BY <1>1, <2>1, <2>2 DEF HeaderLenRange
<1>3. h.headerLen = (32 + f.auth) % 65536 /\ h.payloadLen = f.payload
  BY DEF HeaderOf, FixedHeaderLen, HeaderLenRange
<1>4. AuthLen(h) = (h.headerLen - 32) % 65536
  BY DEF AuthLen, FixedHeaderLen, HeaderLenRange
<1>5. h.headerLen >= 32
  BY DEF ReadAccepts, FixedHeaderLen
<1>6. f.auth > 0 => "auth" \in h.flags
  BY DEF HeaderOf
<1>7. "auth" \in h.flags => AuthLen(h) # 0
  BY DEF ReadAccepts
<1>8. AuthLen(h) = f.auth
  <2> HIDE DEF h
  <2>1. CASE f.auth < 65504
    BY <1>1, <1>3, <1>4, <2>1
  <2>2. CASE f.auth \in 65504 .. 65535
    <3>1. h.headerLen = f.auth - 65504
      BY <1>1, <1>3, <2>2
    <3>2. QED
      BY <1>1, <1>5, <2>2, <3>1
  <2>3. CASE f.auth = 65536
    <3>1. AuthLen(h) = 0
      BY <1>3, <1>4, <2>3
    <3>2. QED
      BY <1>6, <1>7, <2>3, <3>1
  <2>4. QED
    BY <1>1, <1>2, <2>1, <2>2, <2>3 DEF HeaderLenRange
<1>9. QED
  BY <1>3, <1>8

LEMMA FrameInitInv == FrameInit => FrameInv
BY EmptySeq DEF FrameInit, FrameInv, InStep

LEMMA WriteFrameInv ==
  ASSUME FrameInv, NEW f \in Frames, WriteFrame(f)
  PROVE  FrameInv'
<1>1. /\ written' \in Seq(Frames)
      /\ Len(written') = Len(written) + 1
      /\ \A i \in 1 .. Len(written) : written'[i] = written[i]
      /\ written'[Len(written) + 1] = f
  BY AppendProperties DEF FrameInv, WriteFrame
<1>2. Len(written) \in Nat /\ Len(received) \in Nat
  BY LenProperties DEF FrameInv
<1>3. \A i \in 1 .. Len(written') : WriteAccepts(written'[i])
  BY <1>1, <1>2 DEF FrameInv, WriteFrame
<1>4. InStep'
  BY <1>1, <1>2 DEF FrameInv, InStep, WriteFrame
<1>5. QED
  BY <1>1, <1>3, <1>4 DEF FrameInv, WriteFrame

LEMMA ReadFrameInv ==
  ASSUME FrameInv, ReadFrame
  PROVE  FrameInv'
<1> DEFINE f == written[Len(received) + 1]
           r == [auth |-> AuthLen(Incoming), payload |-> Incoming.payloadLen]
<1>1. Len(written) \in Nat /\ Len(received) \in Nat
  BY LenProperties DEF FrameInv
<1>2. Len(received) + 1 \in 1 .. Len(written)
  BY <1>1 DEF ReadFrame
<1>3. f \in Frames /\ WriteAccepts(f)
  BY <1>1, <1>2, ElementOfSeq DEF FrameInv
<1>4. f.auth \in Nat /\ f.payload \in Nat
  BY <1>3, FrameAssumption DEF FrameAssumption, AnyFrame
<1>5. AuthLen(Incoming) = f.auth /\ Incoming.payloadLen = f.payload
  BY <1>3, HeaderTellsLength DEF ReadFrame, Incoming
<1>6. r = [auth |-> f.auth, payload |-> f.payload] /\ r \in Lengths
  BY <1>4, <1>5 DEF Lengths
<1>7. received' = Append(received, r) /\ written' = written
  BY DEF ReadFrame
<1>8. skew' = (f.auth + f.payload) - (AuthLen(Incoming) + Incoming.payloadLen)
  BY DEF ReadFrame
<1> HIDE DEF r
<1>9. skew' = 0
  BY <1>4, <1>5, <1>8
<1>10. /\ received' \in Seq(Lengths)
       /\ Len(received') = Len(received) + 1
       /\ \A i \in 1 .. Len(received) : received'[i] = received[i]
       /\ received'[Len(received) + 1] = r
  BY <1>6, <1>7, AppendProperties DEF FrameInv
<1>11. InStep'
  <2>1. Len(received') <= Len(written')
    BY <1>1, <1>2, <1>7, <1>10
  <2>2. ASSUME NEW i \in 1 .. Len(received')
        PROVE  received'[i] = [auth |-> written'[i].auth, payload |-> written'[i].payload]
    <3>1. CASE i \in 1 .. Len(received)
      BY <1>7, <1>10, <3>1 DEF FrameInv, InStep
    <3>2. CASE i = Len(received) + 1
      BY <1>6, <1>7, <1>10, <3>2
    <3>3. QED
      BY <1>1, <1>10, <2>2, <3>1, <3>2
  <2>3. QED
    BY <1>9, <2>1, <2>2 DEF InStep
<1>12. QED
  BY <1>7, <1>10, <1>11 DEF FrameInv

\* The property that runs, for every set of frames and every such limit:
\* whatever is written, and wherever the connection breaks, what has been
\* read are the first frames written, with their lengths (WriteFrame and
\* ReadFrame, frame.go:64-194).
THEOREM ReaderStaysInStep == FrameSpec => []InStep
<1>1. FrameInv /\ [FrameNext]_frameVars => FrameInv'
  <2> SUFFICES ASSUME FrameInv, [FrameNext]_frameVars PROVE FrameInv'
    OBVIOUS
  <2>1. CASE \E f \in Frames : WriteFrame(f)
    BY <2>1, WriteFrameInv
  <2>2. CASE ReadFrame
    BY <2>2, ReadFrameInv
  <2>3. CASE TearConn \/ ReadFrameFails \/ UNCHANGED frameVars
    BY <2>3 DEF FrameInv, InStep, TearConn, ReadFrameFails, frameVars
  <2>4. QED
    BY <2>1, <2>2, <2>3 DEF FrameNext
<1>2. FrameInv => InStep
  BY DEF FrameInv
<1>3. QED
  BY <1>1, <1>2, FrameInitInv, PTL DEF FrameSpec

-----------------------------------------------------------------------------
(***************************************************************************)
(* Induction, and sequences put together and taken apart.  The induction   *)
(* theorems of the library take an operator, which the provers cannot      *)
(* instantiate; a set that has no least element outside it serves as well. *)
(***************************************************************************)

\* A set of natural numbers that is not empty has a least element.
LEMMA LeastNat ==
  ASSUME NEW T \in SUBSET Nat, T # {}
  PROVE  \E x \in T : \A y \in T : x <= y
<1> DEFINE R == OpToRel(<, Nat)
<1>1. IsWellFoundedOn(R, Nat)
  BY NatLessThanWellFounded
<1>2. \E x \in T : \A y \in T : <<y, x>> \notin R
  BY <1>1, WFMin, Zenon
<1>3. ASSUME NEW x \in T, NEW y \in T, <<y, x>> \notin R PROVE x <= y
  <2>1. ~ (y < x)
    BY <1>3 DEF OpToRel
  <2> QED
    BY <2>1
<1> QED
  BY <1>2, <1>3, Zenon

\* Induction over 0 .. n for a set of numbers, from below ...
LEMMA Upward ==
  ASSUME NEW n \in Nat, NEW P, 0 \in P, \A k \in 1 .. n : k - 1 \in P => k \in P
  PROVE  \A k \in 0 .. n : k \in P
<1> DEFINE T == {k \in Nat : k <= n /\ k \notin P}
<1>1. ASSUME T # {} PROVE FALSE
  <2>1. PICK x \in T : \A y \in T : x <= y
    BY <1>1, LeastNat
  <2>2. x \in 1 .. n /\ x - 1 \notin T
    BY <2>1
  <2> QED
    BY <2>1, <2>2
<1> QED
  BY <1>1

\* ... and from above.
LEMMA Downward ==
  ASSUME NEW n \in Nat, NEW P, n \in P, \A k \in 1 .. n : k \in P => k - 1 \in P
  PROVE  \A k \in 0 .. n : k \in P
<1> DEFINE T == {d \in Nat : d <= n /\ n - d \notin P}
<1>1. ASSUME T # {} PROVE FALSE
  <2>1. PICK x \in T : \A y \in T : x <= y
    BY <1>1, LeastNat
  <2>2. x \in 1 .. n /\ x - 1 \notin T /\ n - (x - 1) \in 1 .. n /\ (n - (x - 1)) - 1 = n - x
    BY <2>1
  <2> QED
    BY <2>1, <2>2
<1>2. ASSUME NEW k \in 0 .. n PROVE k \in P
  <2>1. n - k \in Nat /\ n - k <= n /\ n - (n - k) = k
    OBVIOUS
  <2> QED
    BY <1>1, <2>1
<1> QED
  BY <1>2

\* What stands where in two sequences put together.
LEMMA Joined ==
  ASSUME NEW S, NEW s \in Seq(S), NEW t \in Seq(S)
  PROVE  /\ s \o t \in Seq(S)
         /\ Len(s \o t) = Len(s) + Len(t)
         /\ \A i \in 1 .. Len(s) : (s \o t)[i] = s[i]
         /\ \A i \in 1 .. Len(t) : (s \o t)[Len(s) + i] = t[i]
<1>1. /\ s \o t \in Seq(S)
      /\ Len(s \o t) = Len(s) + Len(t)
      /\ \A i \in 1 .. Len(s) + Len(t) : (s \o t)[i] = IF i <= Len(s) THEN s[i] ELSE t[i - Len(s)]
  BY ConcatProperties, Zenon
<1>2. Len(s) \in Nat /\ Len(t) \in Nat
  BY LenProperties, Zenon
<1>3. ASSUME NEW i \in 1 .. Len(t) PROVE (s \o t)[Len(s) + i] = t[i]
  <2>1. Len(s) + i \in 1 .. Len(s) + Len(t) /\ ~ (Len(s) + i <= Len(s)) /\ Len(s) + i - Len(s) = i
    BY <1>2
  <2>2. (s \o t)[Len(s) + i] = t[Len(s) + i - Len(s)]
    BY <1>1, <2>1
  <2> QED
    BY <2>1, <2>2
<1>4. ASSUME NEW i \in 1 .. Len(s) PROVE (s \o t)[i] = s[i]
  <2>1. i \in 1 .. Len(s) + Len(t) /\ i <= Len(s)
    BY <1>2
  <2> QED
    BY <1>1, <2>1, Zenon
<1> QED
  BY <1>1, <1>3, <1>4, Zenon

\* A sequence that stands in another one after m elements is a part of it.
LEMMA Part ==
  ASSUME NEW S, NEW s, NEW t \in Seq(S), NEW m \in Nat, NEW n \in Nat, n = m + Len(t),
         \A i \in 1 .. Len(t) : s[m + i] = t[i]
  PROVE  SubSeq(s, m + 1, n) = t
<1>1. Len(t) \in Nat
  BY LenProperties, Zenon
<1>2. \A i \in m + 1 .. n : s[i] \in S
  <2> SUFFICES ASSUME NEW i \in m + 1 .. n PROVE s[i] \in S
    OBVIOUS
  <2>1. i - m \in 1 .. Len(t) /\ m + (i - m) = i
    BY <1>1
  <2>2. s[m + (i - m)] = t[i - m]
    BY <2>1
  <2>3. t[i - m] \in S
    BY <2>1, ElementOfSeq, Zenon
  <2> QED
    BY <2>1, <2>2, <2>3
<1>3. m + 1 \in Int /\ n \in Int
  OBVIOUS
<1> DEFINE a == m + 1
<1>a. a \in Int /\ n \in Int /\ \A i \in a .. n : s[i] \in S
  BY <1>2
<1> HIDE DEF a
<1>b. /\ SubSeq(s, a, n) \in Seq(S)
      /\ Len(SubSeq(s, a, n)) = IF a <= n THEN n - a + 1 ELSE 0
      /\ \A i \in 1 .. n - a + 1 : SubSeq(s, a, n)[i] = s[a + i - 1]
  BY <1>a, SubSeqProperties
<1>4. /\ SubSeq(s, m + 1, n) \in Seq(S)
      /\ Len(SubSeq(s, m + 1, n)) = IF m + 1 <= n THEN n - (m + 1) + 1 ELSE 0
      /\ \A i \in 1 .. n - (m + 1) + 1 : SubSeq(s, m + 1, n)[i] = s[m + 1 + i - 1]
  BY <1>b DEF a
<1> DEFINE u == SubSeq(s, m + 1, n)
<1> HIDE DEF u
<1>5. Len(u) = Len(t)
  BY <1>1, <1>4 DEF u
<1>6. ASSUME NEW i \in 1 .. Len(u) PROVE u[i] = t[i]
  <2>1. i \in 1 .. n - (m + 1) + 1 /\ m + 1 + i - 1 = m + i /\ i \in 1 .. Len(t)
    BY <1>1, <1>5
  <2>2. u[i] = s[m + 1 + i - 1]
    BY <1>4, <2>1, Zenon DEF u
  <2>3. s[m + i] = t[i]
    BY <2>1
  <2> QED
    BY <2>1, <2>2, <2>3, Zenon
<1>7. u = t
  BY <1>4, <1>5, <1>6, SeqEqual, Zenon DEF u
<1> QED
  BY <1>7 DEF u

\* Of two sequences put together each can be had back.
LEMMA Halves ==
  ASSUME NEW S, NEW s \in Seq(S), NEW t \in Seq(S)
  PROVE  /\ s \o t \in Seq(S)
         /\ Len(s \o t) = Len(s) + Len(t)
         /\ SubSeq(s \o t, 1, Len(s)) = s
         /\ SubSeq(s \o t, Len(s) + 1, Len(s) + Len(t)) = t
<1>1. /\ s \o t \in Seq(S)
      /\ Len(s \o t) = Len(s) + Len(t)
      /\ \A i \in 1 .. Len(s) : (s \o t)[i] = s[i]
      /\ \A i \in 1 .. Len(t) : (s \o t)[Len(s) + i] = t[i]
  BY Joined
<1> DEFINE u == s \o t
<1>0. /\ u \in Seq(S)
      /\ Len(u) = Len(s) + Len(t)
      /\ \A i \in 1 .. Len(s) : u[i] = s[i]
      /\ \A i \in 1 .. Len(t) : u[Len(s) + i] = t[i]
  BY <1>1, Zenon
<1>2. Len(s) \in Nat /\ Len(t) \in Nat
  BY LenProperties, Zenon
<1> HIDE DEF u
<1>3. SubSeq(u, Len(s) + 1, Len(s) + Len(t)) = t
  BY <1>0, <1>2, Part
<1>4. SubSeq(u, 0 + 1, Len(s)) = s
  BY <1>0, <1>2, Part
<1> QED
  BY <1>0, <1>3, <1>4 DEF u

-----------------------------------------------------------------------------
(***************************************************************************)
(* Numbers on the wire.                                                    *)
(***************************************************************************)

\* Numbers of 16, 32 and 64 bits are read as they were written, each as the
\* two halves of its bytes (binary.BigEndian in tlv.go, putU32, putU64 and
\* u64FromBytes in eventwire.go).
LEMMA Number16 ==
  ASSUME NEW v \in U16
  PROVE  /\ PutUint16(v) \in Seq(Byte)
         /\ Len(PutUint16(v)) = 2
         /\ PutUint16(v)[1] = v \div 256
         /\ PutUint16(v)[2] = v % 256
         /\ Uint16(PutUint16(v)) = v
<1>1. v \div 256 \in Byte /\ v % 256 \in Byte /\ (v \div 256) * 256 + (v % 256) = v
  BY SMT DEF U16, Byte, TwoBytes
<1> QED
  BY <1>1, SMT DEF PutUint16, Uint16

LEMMA Number32 ==
  ASSUME NEW v \in U32
  PROVE  /\ PutUint32(v) \in Seq(Byte)
         /\ Len(PutUint32(v)) = 4
         /\ Uint32(PutUint32(v)) = v
<1> DEFINE h == PutUint16(v \div TwoBytes)
           l == PutUint16(v % TwoBytes)
           b == PutUint32(v)
<1>1. v \div TwoBytes \in U16 /\ v % TwoBytes \in U16 /\ v = (v \div TwoBytes) * TwoBytes + (v % TwoBytes)
  BY SMT DEF U32, U16, TwoBytes
<1>2. h \in Seq(Byte) /\ Len(h) = 2 /\ Uint16(h) = v \div TwoBytes
  <2> DEFINE q == v \div TwoBytes
  <2>1. q \in U16
    BY <1>1
  <2> HIDE DEF q
  <2>2. PutUint16(q) \in Seq(Byte) /\ Len(PutUint16(q)) = 2 /\ Uint16(PutUint16(q)) = q
    BY <2>1, Number16
  <2> QED
    BY <2>2 DEF q
<1>3. l \in Seq(Byte) /\ Len(l) = 2 /\ Uint16(l) = v % TwoBytes
  BY <1>1, Number16
<1>4. b = h \o l
  BY DEF PutUint32
<1> HIDE DEF h, l, b
<1>5. b \in Seq(Byte) /\ Len(b) = 4 /\ SubSeq(b, 1, 2) = h /\ SubSeq(b, 3, 4) = l
  <2>0. h \in Seq(Byte) /\ l \in Seq(Byte)
    BY <1>2, <1>3
  <2>1. /\ h \o l \in Seq(Byte)
        /\ Len(h \o l) = Len(h) + Len(l)
        /\ SubSeq(h \o l, 1, Len(h)) = h
        /\ SubSeq(h \o l, Len(h) + 1, Len(h) + Len(l)) = l
    BY <2>0, Halves
  <2> QED
    BY <1>2, <1>3, <1>4, <2>1
<1>6. Uint32(b) = Uint16(h) * TwoBytes + Uint16(l)
  BY <1>5 DEF Uint32
<1>7. Uint32(b) = v
  BY <1>1, <1>2, <1>3, <1>6
<1> QED
  BY <1>5, <1>7 DEF b

LEMMA Number64 ==
  ASSUME NEW v \in U64
  PROVE  /\ PutUint64(v) \in Seq(Byte)
         /\ Len(PutUint64(v)) = 8
         /\ Uint64(PutUint64(v)) = v
<1> DEFINE high == (v \div TwoBytes) \div TwoBytes
           low == v - high * TwoBytes * TwoBytes
           h == PutUint32(high)
           l == PutUint32(low)
           b == PutUint64(v)
<1>1. high \in U32 /\ low \in U32 /\ v = high * TwoBytes * TwoBytes + low /\ v \in Nat
  BY SMT DEF U64, U32, U16, TwoBytes
<1>2. b = h \o l
  BY DEF PutUint64
<1> HIDE DEF high, low
<1>3. h \in Seq(Byte) /\ Len(h) = 4 /\ Uint32(h) = high
  BY <1>1, Number32, Zenon
<1>4. l \in Seq(Byte) /\ Len(l) = 4 /\ Uint32(l) = low
  BY <1>1, Number32, Zenon
<1> HIDE DEF h, l, b
<1>5. b \in Seq(Byte) /\ Len(b) = 8 /\ SubSeq(b, 1, 4) = h /\ SubSeq(b, 5, 8) = l
  <2>0. h \in Seq(Byte) /\ l \in Seq(Byte)
    BY <1>3, <1>4
  <2>1. /\ h \o l \in Seq(Byte)
        /\ Len(h \o l) = Len(h) + Len(l)
        /\ SubSeq(h \o l, 1, Len(h)) = h
        /\ SubSeq(h \o l, Len(h) + 1, Len(h) + Len(l)) = l
    BY <2>0, Halves
  <2> QED
    BY <1>2, <1>3, <1>4, <2>1
<1>6. Uint64(b) = Uint32(h) * TwoBytes * TwoBytes + Uint32(l)
  BY <1>5 DEF Uint64
<1>7. Uint64(b) = v
  BY <1>1, <1>3, <1>4, <1>6
<1> QED
  BY <1>5, <1>7 DEF b

\* A number that fits into 32 bits is its lowest 32 bits.
LEMMA Low32Fits ==
  ASSUME NEW n \in Nat
  PROVE  /\ Low32(n) \in Nat
         /\ Low32(n) <= n
         /\ n \in U32 => Low32(n) = n
BY SMT DEF Low32, U32, U16, TwoBytes

\* Lengths that fit into 32 bits.
LEMMA LengthFits ==
  ASSUME NEW n \in Nat, n + 2 \in U32
  PROVE  n \in U32
  BY SMT DEF U32, U16, TwoBytes

LEMMA ShorterFits ==
  ASSUME NEW n \in Nat, NEW k \in Nat, k <= n, n \in U32
  PROVE  k \in U32
  BY SMT DEF U32, U16, TwoBytes

-----------------------------------------------------------------------------
(***************************************************************************)
(* TLV: what EncodeFields writes is what DecodeFields reads.               *)
(***************************************************************************)

\* What stands where in an encoded field (EncodeField, tlv.go).
LEMMA EncodedField ==
  ASSUME NEW f \in TlvField
  PROVE  /\ EncodeField(f) \in Seq(Byte)
         /\ Len(EncodeField(f)) = 7 + Len(f.value)
         /\ \A j \in 1 .. 2 : EncodeField(f)[j] = PutUint16(f.id)[j]
         /\ EncodeField(f)[3] = f.type
         /\ \A j \in 1 .. 4 : EncodeField(f)[3 + j] = PutUint32(Len(f.value))[j]
         /\ \A j \in 1 .. Len(f.value) : EncodeField(f)[7 + j] = f.value[j]
<1> DEFINE a == PutUint16(f.id)
           t == <<f.type>>
           c == PutUint32(Len(f.value))
           v == f.value
<1>1. f.id \in U16 /\ f.type \in Byte /\ v \in Seq(Byte) /\ Len(v) \in U32
  BY DEF TlvField
<1>2. a \in Seq(Byte) /\ Len(a) = 2
  BY <1>1, Number16
<1>3. t \in Seq(Byte) /\ Len(t) = 1 /\ t[1] = f.type
  BY <1>1
<1>4. c \in Seq(Byte) /\ Len(c) = 4
  BY <1>1, Number32
<1>5. EncodeField(f) = ((a \o t) \o c) \o v
  BY DEF EncodeField
<1>a. v \in Seq(Byte)
  BY <1>1
<1> HIDE DEF a, t, c, v
<1>6. /\ a \o t \in Seq(Byte)
      /\ Len(a \o t) = Len(a) + Len(t)
      /\ \A j \in 1 .. Len(a) : (a \o t)[j] = a[j]
      /\ \A j \in 1 .. Len(t) : (a \o t)[Len(a) + j] = t[j]
  <2>1. a \in Seq(Byte) /\ t \in Seq(Byte)
    BY <1>2, <1>3
  <2> QED
    BY <2>1, Joined
<1>7. /\ (a \o t) \o c \in Seq(Byte)
      /\ Len((a \o t) \o c) = Len(a \o t) + Len(c)
      /\ \A j \in 1 .. Len(a \o t) : ((a \o t) \o c)[j] = (a \o t)[j]
      /\ \A j \in 1 .. Len(c) : ((a \o t) \o c)[Len(a \o t) + j] = c[j]
  <2> DEFINE p == a \o t
  <2>1. p \in Seq(Byte) /\ c \in Seq(Byte)
    BY <1>4, <1>6
  <2> HIDE DEF p
  <2>2. /\ p \o c \in Seq(Byte)
        /\ Len(p \o c) = Len(p) + Len(c)
        /\ \A j \in 1 .. Len(p) : (p \o c)[j] = p[j]
        /\ \A j \in 1 .. Len(c) : (p \o c)[Len(p) + j] = c[j]
    BY <2>1, Joined
  <2> QED
    BY <2>2 DEF p
<1> DEFINE h == (a \o t) \o c
<1>8. /\ h \in Seq(Byte)
      /\ Len(h) = 7
      /\ \A j \in 1 .. 2 : h[j] = a[j]
      /\ h[3] = t[1]
      /\ \A j \in 1 .. 4 : h[3 + j] = c[j]
  BY <1>2, <1>3, <1>4, <1>6, <1>7
<1> HIDE DEF h
<1>9. /\ h \o v \in Seq(Byte)
      /\ Len(h \o v) = Len(h) + Len(v)
      /\ \A j \in 1 .. Len(h) : (h \o v)[j] = h[j]
      /\ \A j \in 1 .. Len(v) : (h \o v)[Len(h) + j] = v[j]
  <2>1. h \in Seq(Byte) /\ v \in Seq(Byte)
    BY <1>8, <1>a
  <2> QED
    BY <2>1, Joined
<1> DEFINE e == EncodeField(f)
<1>10. e = h \o v
  BY <1>5 DEF h
<1> HIDE DEF e
<1>11. /\ e \in Seq(Byte)
       /\ Len(e) = 7 + Len(v)
       /\ \A j \in 1 .. 2 : e[j] = a[j]
       /\ e[3] = f.type
       /\ \A j \in 1 .. 4 : e[3 + j] = c[j]
       /\ \A j \in 1 .. Len(v) : e[7 + j] = v[j]
  BY <1>3, <1>8, <1>9, <1>10
<1> QED
  BY <1>11 DEF e, a, c, v

\* The field that is encoded after i bytes of a payload ends where DecodeFields
\* looks for its end, and is the field that is read there.
LEMMA DecodedField ==
  ASSUME NEW f \in TlvField, NEW bytes, NEW i \in Nat,
         \A j \in 1 .. Len(EncodeField(f)) : bytes[i + j] = EncodeField(f)[j]
  PROVE  /\ ValueLen(bytes, i) = Len(f.value)
         /\ FieldEnd(bytes, i) = i + Len(EncodeField(f))
         /\ FieldAt(bytes, i) = f
<1> DEFINE e == EncodeField(f)
           a == PutUint16(f.id)
           c == PutUint32(Len(f.value))
           v == f.value
<1>1. f.id \in U16 /\ f.type \in Byte /\ v \in Seq(Byte) /\ Len(v) \in U32
  BY DEF TlvField
<1>2. a \in Seq(Byte) /\ Len(a) = 2 /\ Uint16(a) = f.id
  BY <1>1, Number16
<1>3. c \in Seq(Byte) /\ Len(c) = 4 /\ Uint32(c) = Len(v)
  BY <1>1, Number32
<1>4. /\ Len(e) = 7 + Len(v)
      /\ \A j \in 1 .. 2 : e[j] = a[j]
      /\ e[3] = f.type
      /\ \A j \in 1 .. 4 : e[3 + j] = c[j]
      /\ \A j \in 1 .. Len(v) : e[7 + j] = v[j]
  BY EncodedField
<1>5. \A j \in 1 .. Len(e) : bytes[i + j] = e[j]
  OBVIOUS
<1>6. Len(v) \in Nat
  BY <1>1
<1>7. f = [id |-> f.id, type |-> f.type, value |-> v]
  BY DEF TlvField
<1> HIDE DEF e, a, c, v
<1>8. SubSeq(bytes, i + 1, i + 2) = a
  <2>1. \A j \in 1 .. Len(a) : bytes[i + j] = a[j]
    <3> SUFFICES ASSUME NEW j \in 1 .. Len(a) PROVE bytes[i + j] = a[j]
      OBVIOUS
    <3>1. j \in 1 .. Len(e) /\ j \in 1 .. 2
      BY <1>2, <1>4, <1>6
    <3> QED
      BY <1>4, <1>5, <3>1
  <2>2. i \in Nat /\ i + 2 \in Nat /\ i + 2 = i + Len(a)
    BY <1>2
  <2> QED
    BY <1>2, <2>1, <2>2, Part
<1>9. SubSeq(bytes, i + 4, i + 7) = c
  <2> DEFINE m == i + 3
             n == i + 7
  <2>1. \A j \in 1 .. Len(c) : bytes[m + j] = c[j]
    <3> SUFFICES ASSUME NEW j \in 1 .. Len(c) PROVE bytes[m + j] = c[j]
      OBVIOUS
    <3>1. 3 + j \in 1 .. Len(e) /\ i + (3 + j) = m + j /\ j \in 1 .. 4
      BY <1>3, <1>4, <1>6
    <3>2. bytes[i + (3 + j)] = e[3 + j]
      BY <1>5, <3>1
    <3> QED
      BY <1>4, <3>1, <3>2
  <2>2. m \in Nat /\ n \in Nat /\ n = m + Len(c) /\ m + 1 = i + 4
    BY <1>3
  <2> HIDE DEF m, n
  <2>3. SubSeq(bytes, m + 1, n) = c
    BY <1>3, <2>1, <2>2, Part
  <2> QED
    BY <2>2, <2>3 DEF n
<1>10. FieldEnd(bytes, i) = i + Len(e)
  <2>1. FieldEnd(bytes, i) = i + 7 + Uint32(SubSeq(bytes, i + 4, i + 7))
    BY DEF FieldEnd, ValueLen, TlvHeaderLen
  <2>2. Uint32(SubSeq(bytes, i + 4, i + 7)) = Len(v)
    BY <1>3, <1>9
  <2>3. FieldEnd(bytes, i) = i + 7 + Len(v)
    BY <2>1, <2>2
  <2>4. Len(e) = 7 + Len(v)
    BY <1>4
  <2> QED
    BY <1>6, <2>3, <2>4
<1>11. bytes[i + 3] = f.type
  BY <1>4, <1>5, <1>6
<1>12. SubSeq(bytes, i + 8, i + Len(e)) = v
  <2> DEFINE m == i + 7
             n == i + Len(e)
  <2>1. \A j \in 1 .. Len(v) : bytes[m + j] = v[j]
    <3> SUFFICES ASSUME NEW j \in 1 .. Len(v) PROVE bytes[m + j] = v[j]
      OBVIOUS
    <3>1. 7 + j \in 1 .. Len(e) /\ i + (7 + j) = m + j
      BY <1>4, <1>6
    <3>2. bytes[i + (7 + j)] = e[7 + j]
      BY <1>5, <3>1
    <3> QED
      BY <1>4, <3>1, <3>2
  <2>2. m \in Nat /\ n \in Nat /\ n = m + Len(v) /\ m + 1 = i + 8
    BY <1>4, <1>6
  <2> HIDE DEF m, n
  <2>3. SubSeq(bytes, m + 1, n) = v
    BY <1>1, <2>1, <2>2, Part DEF v
  <2> QED
    BY <2>2, <2>3 DEF n
<1>13. FieldAt(bytes, i) = f
  <2>1. FieldAt(bytes, i) = [id |-> Uint16(SubSeq(bytes, i + 1, i + 2)), type |-> bytes[i + 3],
                             value |-> SubSeq(bytes, i + 8, FieldEnd(bytes, i))]
    <3>1. i + 7 + 1 = i + 8
      OBVIOUS
    <3> QED
      BY <3>1 DEF FieldAt, TlvHeaderLen
  <2> QED
    BY <1>2, <1>7, <1>8, <1>10, <1>11, <1>12, <2>1
<1>14. ValueLen(bytes, i) = Len(v)
  BY <1>3, <1>9 DEF ValueLen, TlvHeaderLen
<1> QED
  BY <1>10, <1>13, <1>14 DEF e, v

\* FlattenSeq is defined by a recursive function on the positions of its
\* argument.  There is such a function: its values are got by induction.
LEMMA FlattenDefined ==
  ASSUME NEW seqs, NEW n \in Nat, n > 0
  PROVE  \E f : f = [i \in 1 .. n |-> IF i = 1 THEN seqs[i] ELSE f[i - 1] \o seqs[i]]
<1> DEFINE Defined(k) == \E f : f = [i \in 1 .. k |-> IF i = 1 THEN seqs[i] ELSE f[i - 1] \o seqs[i]]
           P == {k \in Nat : Defined(k + 1)}
<1>1. Defined(1)
  <2> DEFINE f == [i \in 1 .. 1 |-> seqs[i]]
  <2>1. f = [i \in 1 .. 1 |-> IF i = 1 THEN seqs[i] ELSE f[i - 1] \o seqs[i]]
    OBVIOUS
  <2> QED
    BY <2>1
<1>2. ASSUME NEW k \in Nat, k > 0, Defined(k) PROVE Defined(k + 1)
  <2>1. PICK f : f = [i \in 1 .. k |-> IF i = 1 THEN seqs[i] ELSE f[i - 1] \o seqs[i]]
    BY <1>2
  <2> DEFINE g == [i \in 1 .. k + 1 |-> IF i = k + 1 THEN f[k] \o seqs[i] ELSE f[i]]
  <2>2. ASSUME NEW i \in 1 .. k + 1
        PROVE  g[i] = IF i = 1 THEN seqs[i] ELSE g[i - 1] \o seqs[i]
    <3>1. CASE i = k + 1
      <4>1. i # 1 /\ i - 1 = k /\ k \in 1 .. k + 1 /\ k # k + 1
        BY <1>2, <3>1
      <4>2. g[k] = f[k]
        BY <4>1
      <4> QED
        BY <3>1, <4>1, <4>2
    <3>2. CASE i = 1
      <4>1. i # k + 1 /\ i \in 1 .. k
        BY <1>2, <3>2
      <4> QED
        BY <2>1, <3>2, <4>1
    <3>3. CASE i # 1 /\ i # k + 1
      <4>1. i \in 1 .. k /\ i - 1 \in 1 .. k + 1 /\ i - 1 # k + 1
        BY <1>2, <3>3
      <4>2. f[i] = f[i - 1] \o seqs[i]
        BY <2>1, <3>3, <4>1
      <4>3. g[i] = f[i] /\ g[i - 1] = f[i - 1]
        BY <3>3, <4>1
      <4> QED
        BY <3>3, <4>2, <4>3
    <3> QED
      BY <3>1, <3>2, <3>3
  <2>3. g = [i \in 1 .. k + 1 |-> g[i]]
    OBVIOUS
  <2> HIDE DEF g
  <2>4. g = [i \in 1 .. k + 1 |-> IF i = 1 THEN seqs[i] ELSE g[i - 1] \o seqs[i]]
    BY <2>2, <2>3
  <2> QED
    BY <2>4
<1> HIDE DEF Defined
<1>3. 0 \in P
  <2>1. 0 + 1 = 1
    OBVIOUS
  <2> QED
    BY <1>1, <2>1
<1>4. ASSUME NEW k \in 1 .. n - 1, k - 1 \in P PROVE k \in P
  <2>1. k \in Nat /\ k > 0 /\ (k - 1) + 1 = k
    OBVIOUS
  <2> QED
    BY <1>2, <1>4, <2>1
<1> HIDE DEF P
<1>5. n - 1 \in 0 .. n - 1 /\ n - 1 \in Nat
  OBVIOUS
<1>6. n - 1 \in P
  BY <1>3, <1>4, <1>5, Upward
<1>7. Defined(n)
  <2>1. (n - 1) + 1 = n
    OBVIOUS
  <2> QED
    BY <1>6, <2>1 DEF P
<1> QED
  BY <1>7 DEF Defined

\* The sequences put together one after the other, from none of them to all.
LEMMA Flattened ==
  ASSUME NEW S, NEW seqs \in Seq(Seq(S))
  PROVE  \E u \in [0 .. Len(seqs) -> Seq(S)] :
           /\ u[0] = <<>>
           /\ \A k \in 1 .. Len(seqs) : u[k] = u[k - 1] \o seqs[k]
           /\ FlattenSeq(seqs) = u[Len(seqs)]
<1> DEFINE n == Len(seqs)
<1>1. n \in Nat /\ \A k \in 1 .. n : seqs[k] \in Seq(S)
  BY LenProperties, ElementOfSeq
<1>2. <<>> \in Seq(S)
  OBVIOUS
<1>3. CASE n = 0
  <2>1. seqs = <<>>
    BY <1>3, EmptySeq
  <2>2. FlattenSeq(seqs) = <<>>
    BY <1>3, <2>1 DEF FlattenSeq
  <2> DEFINE u == [k \in 0 .. 0 |-> <<>>]
  <2>3. u \in [0 .. 0 -> Seq(S)] /\ u[0] = <<>> /\ \A k \in 1 .. 0 : u[k] = u[k - 1] \o seqs[k]
    BY <1>2
  <2> QED
    BY <1>3, <2>2, <2>3
<1>4. CASE n > 0
  <2> DEFINE f == CHOOSE f : f = [i \in 1 .. Len(seqs) |-> IF i = 1 THEN seqs[i] ELSE f[i - 1] \o seqs[i]]
  <2>1. FlattenSeq(seqs) = f[n]
    BY <1>1, <1>4 DEF FlattenSeq
  <2>2. f = [i \in 1 .. n |-> IF i = 1 THEN seqs[i] ELSE f[i - 1] \o seqs[i]]
    BY <1>1, <1>4, FlattenDefined
  <2> HIDE DEF f
  <2> DEFINE u == [k \in 0 .. n |-> IF k = 0 THEN <<>> ELSE f[k]]
             P == {k \in 0 .. n : u[k] \in Seq(S)}
  <2>3. u[0] = <<>>
    BY <1>1
  <2>4. ASSUME NEW k \in 1 .. n, u[k - 1] \in Seq(S) PROVE u[k] = u[k - 1] \o seqs[k]
    <3>1. u[k] = f[k] /\ k - 1 \in 0 .. n
      BY <1>1
    <3>2. CASE k = 1
      <4>1. u[k - 1] = <<>> /\ f[k] = seqs[k]
        BY <1>1, <2>2, <2>3, <3>2
      <4>2. <<>> \o seqs[k] = seqs[k]
        BY <1>1, ConcatEmptySeq
      <4> QED
        BY <3>1, <4>1, <4>2
    <3>3. CASE k # 1
      <4>1. f[k] = f[k - 1] \o seqs[k]
        BY <1>1, <2>2, <3>3
      <4>2. k - 1 # 0 /\ k - 1 \in 0 .. n
        BY <1>1, <3>3
      <4>3. u[k - 1] = f[k - 1]
        BY <4>2
      <4> QED
        BY <3>1, <4>1, <4>3
    <3> QED
      BY <3>2, <3>3
  <2>a. DOMAIN u = 0 .. n /\ u = [k \in 0 .. n |-> u[k]]
    OBVIOUS
  <2> HIDE DEF u
  <2>5. ASSUME NEW k \in 1 .. n, k - 1 \in P PROVE k \in P
    <3>1. u[k - 1] \in Seq(S) /\ seqs[k] \in Seq(S)
      BY <1>1, <2>5
    <3>2. u[k - 1] \o seqs[k] \in Seq(S)
      BY <3>1, Joined
    <3>3. u[k] = u[k - 1] \o seqs[k]
      BY <2>4, <3>1
    <3>4. k \in 0 .. n
      BY <1>1
    <3>5. u[k] \in Seq(S)
      BY <3>2, <3>3
    <3> QED
      BY <3>4, <3>5
  <2>b. 0 \in P
    <3>1. 0 \in 0 .. n /\ u[0] \in Seq(S)
      BY <1>1, <1>2, <2>3
    <3> QED
      BY <3>1
  <2>6. \A k \in 0 .. n : u[k] \in Seq(S)
    <3> HIDE DEF P
    <3>1. \A k \in 0 .. n : k \in P
      BY <1>1, <2>b, <2>5, Upward
    <3> QED
      BY <3>1 DEF P
  <2>7. \A k \in 1 .. n : u[k] = u[k - 1] \o seqs[k]
    <3> SUFFICES ASSUME NEW k \in 1 .. n PROVE u[k] = u[k - 1] \o seqs[k]
      OBVIOUS
    <3>1. u[k - 1] \in Seq(S)
      BY <1>1, <2>6
    <3> QED
      BY <2>4, <3>1
  <2>8. u \in [0 .. n -> Seq(S)] /\ u[n] = f[n]
    <3>1. u[n] = f[n]
      BY <1>1, <1>4 DEF u
    <3> QED
      BY <2>a, <2>6, <3>1
  <2> QED
    BY <2>1, <2>3, <2>7, <2>8
<1>5. n = 0 \/ n > 0
  BY <1>1
<1> QED
  BY <1>3, <1>4, <1>5, Zenon

\* A part of a sequence and what stands in it.
LEMMA Slice ==
  ASSUME NEW S, NEW s \in Seq(S), NEW m \in Nat, NEW n \in Nat, m <= n, n <= Len(s)
  PROVE  /\ SubSeq(s, m + 1, n) \in Seq(S)
         /\ Len(SubSeq(s, m + 1, n)) = n - m
         /\ \A i \in 1 .. n - m : SubSeq(s, m + 1, n)[i] = s[m + i]
<1> DEFINE a == m + 1
<1>1. Len(s) \in Nat
  BY LenProperties
<1>2. a \in Int /\ n \in Int /\ \A i \in a .. n : s[i] \in S
  <2>1. \A i \in a .. n : i \in 1 .. Len(s)
    BY <1>1
  <2> QED
    BY <2>1, ElementOfSeq
<1>3. (IF a <= n THEN n - a + 1 ELSE 0) = n - m /\ n - a + 1 = n - m /\ \A i \in 1 .. n - m : a + i - 1 = m + i
  OBVIOUS
<1> HIDE DEF a
<1>4. /\ SubSeq(s, a, n) \in Seq(S)
      /\ Len(SubSeq(s, a, n)) = IF a <= n THEN n - a + 1 ELSE 0
      /\ \A i \in 1 .. n - a + 1 : SubSeq(s, a, n)[i] = s[a + i - 1]
  BY <1>2, SubSeqProperties
<1>5. /\ SubSeq(s, a, n) \in Seq(S)
      /\ Len(SubSeq(s, a, n)) = n - m
      /\ \A i \in 1 .. n - m : SubSeq(s, a, n)[i] = s[m + i]
  BY <1>3, <1>4
<1> QED
  BY <1>5 DEF a

\* A length that is read is a natural number, whatever the bytes are.
LEMMA Uint16IsNat ==
  ASSUME NEW b \in Seq(Byte), Len(b) = 2
  PROVE  Uint16(b) \in Nat
<1>1. b[1] \in Byte /\ b[2] \in Byte
  BY ElementOfSeq
<1> QED
  BY <1>1, SMT DEF Byte, Uint16

LEMMA Uint32IsNat ==
  ASSUME NEW b \in Seq(Byte), Len(b) = 4
  PROVE  Uint32(b) \in Nat
<1>1. SubSeq(b, 1, 2) \in Seq(Byte) /\ Len(SubSeq(b, 1, 2)) = 2
  <2>1. SubSeq(b, 0 + 1, 2) \in Seq(Byte) /\ Len(SubSeq(b, 0 + 1, 2)) = 2 - 0
    BY Slice
  <2> QED
    BY <2>1
<1>2. SubSeq(b, 3, 4) \in Seq(Byte) /\ Len(SubSeq(b, 3, 4)) = 2
  <2> DEFINE m == 2
             n == 4
  <2>1. m \in Nat /\ n \in Nat /\ m <= n /\ n <= Len(b) /\ m + 1 = 3 /\ n - m = 2
    OBVIOUS
  <2> HIDE DEF m, n
  <2>2. SubSeq(b, m + 1, n) \in Seq(Byte) /\ Len(SubSeq(b, m + 1, n)) = n - m
    BY <2>1, Slice
  <2> QED
    BY <2>1, <2>2 DEF n
<1>3. Uint16(SubSeq(b, 1, 2)) \in Nat /\ Uint16(SubSeq(b, 3, 4)) \in Nat
  BY <1>1, <1>2, Uint16IsNat
<1> QED
  BY <1>3, SMT DEF Uint32, TwoBytes

\* DecodeFields leaves a field behind with every turn of its loop, which is why
\* the loop ends.
LEMMA FieldsAdvance ==
  ASSUME NEW bytes \in Seq(Byte), NEW i \in 0 .. Len(bytes), IsWholeField(bytes, i)
  PROVE  FieldEnd(bytes, i) \in i + 1 .. Len(bytes)
<1> DEFINE m == i + 3
           n == i + 7
           b == SubSeq(bytes, m + 1, n)
<1>1. Len(bytes) \in Nat
  BY LenProperties
<1>2. m \in Nat /\ n \in Nat /\ m <= n /\ n <= Len(bytes) /\ n - m = 4 /\ m + 1 = i + 4
  BY <1>1 DEF IsWholeField, TlvHeaderLen
<1> HIDE DEF m
<1>3. b \in Seq(Byte) /\ Len(b) = 4
  <2> HIDE DEF n
  <2>1. SubSeq(bytes, m + 1, n) \in Seq(Byte) /\ Len(SubSeq(bytes, m + 1, n)) = n - m
    BY <1>2, Slice
  <2> QED
    BY <1>2, <2>1
<1>4. FieldEnd(bytes, i) = i + 7 + Uint32(b)
  BY <1>2 DEF FieldEnd, ValueLen, TlvHeaderLen
<1>7. ValueLen(bytes, i) = Uint32(b)
  BY <1>2 DEF ValueLen, TlvHeaderLen
<1> HIDE DEF b
<1>5. Uint32(b) \in Nat
  BY <1>3, Uint32IsNat
<1>6. FieldEnd(bytes, i) <= Len(bytes)
  <2>0. Len(bytes) - i - 7 \in Nat
    BY <1>1, <1>2, SMT
  <2>1. PICK left \in Nat : left = Len(bytes) - i - 7
    BY <2>0, Zenon
  <2>2. ValueLen(bytes, i) <= Low32(left)
    <3>1. Len(bytes) - i - TlvHeaderLen = left
      BY <2>1, SMT DEF TlvHeaderLen
    <3>2. ValueLen(bytes, i) <= Low32(Len(bytes) - i - TlvHeaderLen)
      BY DEF IsWholeField
    <3> QED
      BY <3>1, <3>2, Zenon
  <2>3. Low32(left) \in Nat /\ Low32(left) <= left
    BY Low32Fits
  <2>4. ValueLen(bytes, i) = Uint32(b) /\ FieldEnd(bytes, i) = i + 7 + ValueLen(bytes, i)
    BY <1>4, <1>7
  <2>5. Uint32(b) <= left
    BY <1>5, <2>2, <2>3, <2>4, SMT
  <2> QED
    BY <1>1, <1>4, <1>5, <2>1, <2>5, SMT
<1> QED
  BY <1>1, <1>4, <1>5, <1>6

\* Hence the recursive function of DecodeFields exists, for all bytes: by
\* induction on how many bytes are left.
LEMMA DecodeDefined ==
  ASSUME NEW bytes \in Seq(Byte)
  PROVE  \E f : f = [i \in 0 .. Len(bytes) |->
                       IF i = Len(bytes) THEN <<>>
                       ELSE IF ~ IsWholeField(bytes, i) THEN <<Malformed>>
                       ELSE <<FieldAt(bytes, i)>> \o f[FieldEnd(bytes, i)]]
<1> DEFINE n == Len(bytes)
           Step(f, i) == IF i = n THEN <<>>
                         ELSE IF ~ IsWholeField(bytes, i) THEN <<Malformed>>
                         ELSE <<FieldAt(bytes, i)>> \o f[FieldEnd(bytes, i)]
           Defined(k) == \E f : f = [i \in k .. n |-> Step(f, i)]
           P == {k \in 0 .. n : Defined(k)}
<1>1. n \in Nat
  BY LenProperties
<1>2. ASSUME NEW f, NEW g, NEW i \in 0 .. n,
             \A j \in i + 1 .. n : f[j] = g[j]
      PROVE  Step(f, i) = Step(g, i)
  <2>1. CASE i = n \/ ~ IsWholeField(bytes, i)
    BY <2>1
  <2>2. CASE ~ (i = n \/ ~ IsWholeField(bytes, i))
    <3>1. FieldEnd(bytes, i) \in i + 1 .. n
      BY <2>2, FieldsAdvance
    <3>2. f[FieldEnd(bytes, i)] = g[FieldEnd(bytes, i)]
      BY <1>2, <3>1
    <3> QED
      BY <2>2, <3>2
  <2> QED
    BY <2>1, <2>2
<1>3. Defined(n)
  <2> DEFINE f == [i \in n .. n |-> <<>>]
  <2>1. \A i \in n .. n : Step(f, i) = <<>>
    BY <1>1
  <2>2. f = [i \in n .. n |-> Step(f, i)]
    BY <2>1
  <2> QED
    BY <2>2
<1>4. ASSUME NEW k \in Nat, k < n, Defined(k + 1) PROVE Defined(k)
  <2>1. PICK f : f = [i \in k + 1 .. n |-> Step(f, i)]
    BY <1>4
  <2> HIDE DEF Step
  <2> DEFINE g == [i \in k .. n |-> IF i = k THEN Step(f, k) ELSE f[i]]
  <2>2. \A j \in k + 1 .. n : g[j] = f[j]
    BY <1>1, <1>4
  <2>3. \A i \in k .. n : g[i] = Step(g, i)
    <3> SUFFICES ASSUME NEW i \in k .. n PROVE g[i] = Step(g, i)
      OBVIOUS
    <3>1. i \in 0 .. n /\ \A j \in i + 1 .. n : j \in k + 1 .. n
      BY <1>1
    <3>2. Step(f, i) = Step(g, i)
      <4>1. \A j \in i + 1 .. n : f[j] = g[j]
        BY <2>2, <3>1
      <4> HIDE DEF g
      <4> QED
        BY <1>2, <3>1, <4>1
    <3>3. g[i] = Step(f, i)
      <4>1. CASE i = k
        BY <4>1
      <4>2. CASE i # k
        <5>1. i \in k + 1 .. n
          BY <1>1, <4>2
        <5>2. f[i] = Step(f, i)
          BY <2>1, <5>1
        <5> QED
          BY <2>2, <5>1, <5>2
      <4> QED
        BY <4>1, <4>2
    <3> QED
      BY <3>2, <3>3
  <2>4. g = [i \in k .. n |-> g[i]]
    OBVIOUS
  <2> HIDE DEF g
  <2>5. g = [i \in k .. n |-> Step(g, i)]
    BY <2>3, <2>4
  <2> QED
    BY <2>5
<1> HIDE DEF Defined
<1>5. ASSUME NEW k \in 1 .. n, k \in P PROVE k - 1 \in P
  <2>1. k - 1 \in Nat /\ k - 1 < n /\ (k - 1) + 1 = k /\ k - 1 \in 0 .. n
    BY <1>1
  <2> QED
    BY <1>4, <1>5, <2>1
<1>a. n \in P
  BY <1>1, <1>3
<1>6. Defined(0)
  <2> HIDE DEF P
  <2>1. \A k \in 0 .. n : k \in P
    BY <1>1, <1>a, <1>5, Downward
  <2> QED
    BY <1>1, <2>1 DEF P
<1> QED
  BY <1>6 DEF Defined

\* What has been put together stays at the front of all that follows.
LEMMA PartsKept ==
  ASSUME NEW n \in Nat, NEW seqs \in [1 .. n -> Seq(Byte)], NEW u \in [0 .. n -> Seq(Byte)],
         \A k \in 1 .. n : u[k] = u[k - 1] \o seqs[k]
  PROVE  \A k \in 0 .. n :
           /\ Len(u[k]) <= Len(u[n])
           /\ \A j \in 1 .. Len(u[k]) : u[n][j] = u[k][j]
<1> DEFINE Begins(k) == /\ Len(u[k]) <= Len(u[n])
                        /\ \A j \in 1 .. Len(u[k]) : u[n][j] = u[k][j]
           P == {k \in 0 .. n : Begins(k)}
<1>1. n \in Nat
  OBVIOUS
<1>2. \A k \in 0 .. n : u[k] \in Seq(Byte) /\ Len(u[k]) \in Nat
  BY LenProperties
<1>3. \A k \in 1 .. n : seqs[k] \in Seq(Byte) /\ Len(seqs[k]) \in Nat
  BY LenProperties
<1>4. Begins(n)
  BY <1>1, <1>2
<1>5. ASSUME NEW k \in 0 .. n, k # n, Begins(k + 1) PROVE Begins(k)
  <2>1. k + 1 \in 1 .. n /\ (k + 1) - 1 = k
    BY <1>1, <1>5
  <2> DEFINE s == u[k]
             t == seqs[k + 1]
  <2>2. u[k + 1] = s \o t
    BY <2>1
  <2>3. s \in Seq(Byte) /\ Len(s) \in Nat /\ t \in Seq(Byte) /\ Len(t) \in Nat
    BY <1>2, <1>3, <2>1
  <2>4. u[n] \in Seq(Byte) /\ Len(u[n]) \in Nat
    BY <1>1, <1>2
  <2>a. k + 1 \in 0 .. n
    BY <1>1, <2>1
  <2> DEFINE w == s \o t
  <2>5. Len(w) <= Len(u[n]) /\ \A j \in 1 .. Len(w) : u[n][j] = w[j]
    BY <1>5, <2>2
  <2> HIDE DEF s, t
  <2>6. Len(w) = Len(s) + Len(t) /\ \A j \in 1 .. Len(s) : w[j] = s[j]
    BY <2>3, Joined
  <2> HIDE DEF w
  <2>7. Len(s) <= Len(u[n]) /\ \A j \in 1 .. Len(s) : u[n][j] = s[j]
    <3>1. \A j \in 1 .. Len(s) : j \in 1 .. Len(w)
      BY <2>3, <2>6
    <3> QED
      BY <2>3, <2>4, <2>5, <2>6, <3>1
  <2> QED
    BY <2>7 DEF s
<1> HIDE DEF Begins
<1>6. ASSUME NEW k \in 1 .. n, k \in P PROVE k - 1 \in P
  <2>1. k - 1 \in 0 .. n /\ k - 1 # n /\ (k - 1) + 1 = k
    BY <1>1
  <2> QED
    BY <1>5, <1>6, <2>1
<1>7. n \in P
  BY <1>1, <1>4
<1>8. \A k \in 0 .. n : Begins(k)
  <2> HIDE DEF P
  <2>1. \A k \in 0 .. n : k \in P
    BY <1>1, <1>6, <1>7, Downward
  <2> QED
    BY <2>1 DEF P
<1> QED
  BY <1>8 DEF Begins

\* EncodeFields writes the fields one after the other; end[k] is where the k-th
\* field ends.
LEMMA FieldsWritten ==
  ASSUME NEW fs \in Seq(TlvField)
  PROVE  \E end \in [0 .. Len(fs) -> Nat] :
           /\ EncodeFields(fs) \in Seq(Byte)
           /\ end[0] = 0
           /\ end[Len(fs)] = Len(EncodeFields(fs))
           /\ \A k \in 1 .. Len(fs) :
                /\ end[k] = end[k - 1] + Len(EncodeField(fs[k]))
                /\ end[k] <= Len(EncodeFields(fs))
                /\ \A j \in 1 .. Len(EncodeField(fs[k])) :
                     EncodeFields(fs)[end[k - 1] + j] = EncodeField(fs[k])[j]
<1> DEFINE seqs == [k \in DOMAIN fs |-> EncodeField(fs[k])]
           n == Len(fs)
<1>1. n \in Nat /\ DOMAIN fs = 1 .. n /\ \A k \in 1 .. n : fs[k] \in TlvField
  BY LenProperties, ElementOfSeq
<1>2. \A k \in 1 .. n : EncodeField(fs[k]) \in Seq(Byte)
  BY <1>1, EncodedField
<1>3. seqs \in Seq(Seq(Byte)) /\ Len(seqs) = n
  BY <1>1, <1>2
<1>4. EncodeFields(fs) = FlattenSeq(seqs)
  BY DEF EncodeFields
<1>5. \A k \in 1 .. n : seqs[k] = EncodeField(fs[k])
  BY <1>1
<1> HIDE DEF seqs
<1>6. PICK u \in [0 .. Len(seqs) -> Seq(Byte)] :
         /\ u[0] = <<>>
         /\ \A k \in 1 .. Len(seqs) : u[k] = u[k - 1] \o seqs[k]
         /\ FlattenSeq(seqs) = u[Len(seqs)]
  BY <1>3, Flattened
<1>7. \A k \in 0 .. n :
        /\ Len(u[k]) <= Len(u[n])
        /\ \A j \in 1 .. Len(u[k]) : u[n][j] = u[k][j]
  <2> HIDE DEF n
  <2>1. n \in Nat /\ u \in [0 .. n -> Seq(Byte)]
    BY <1>1, <1>3, <1>6
  <2>2. seqs \in [1 .. n -> Seq(Byte)]
    BY <1>3, LenProperties, ElementOfSeq
  <2>3. \A k \in 1 .. n : u[k] = u[k - 1] \o seqs[k]
    BY <1>3, <1>6
  <2> QED
    BY <2>1, <2>2, <2>3, PartsKept
<1> DEFINE bytes == EncodeFields(fs)
           end == [k \in 0 .. n |-> Len(u[k])]
<1>8. bytes = u[n] /\ bytes \in Seq(Byte)
  <2> HIDE DEF n
  <2>1. bytes = u[n]
    BY <1>3, <1>4, <1>6
  <2>2. n \in 0 .. Len(seqs)
    BY <1>1, <1>3
  <2>3. u[n] \in Seq(Byte)
    BY <1>6, <2>2
  <2> QED
    BY <2>1, <2>3
<1>9. \A k \in 0 .. n : u[k] \in Seq(Byte) /\ Len(u[k]) \in Nat
  BY <1>3, <1>6, LenProperties
<1>10. end \in [0 .. n -> Nat] /\ end[0] = 0 /\ end[n] = Len(bytes)
  BY <1>1, <1>6, <1>8, <1>9
<1> HIDE DEF bytes
<1>11. ASSUME NEW k \in 1 .. n
       PROVE  /\ end[k] = end[k - 1] + Len(EncodeField(fs[k]))
              /\ end[k] <= Len(bytes)
              /\ \A j \in 1 .. Len(EncodeField(fs[k])) : bytes[end[k - 1] + j] = EncodeField(fs[k])[j]
  <2> DEFINE s == u[k - 1]
             t == EncodeField(fs[k])
             w == s \o t
  <2>1. k - 1 \in 0 .. n /\ k \in 0 .. n
    BY <1>1
  <2>2. s \in Seq(Byte) /\ Len(s) \in Nat /\ t \in Seq(Byte) /\ Len(t) \in Nat
    BY <1>2, <1>9, <2>1, LenProperties
  <2>3. u[k] = w
    BY <1>3, <1>5, <1>6
  <2>4. end[k] = Len(w) /\ end[k - 1] = Len(s)
    BY <2>1, <2>3
  <2>5. Len(w) <= Len(bytes) /\ \A j \in 1 .. Len(w) : bytes[j] = w[j]
    BY <1>3, <1>7, <1>8, <2>1, <2>3
  <2> HIDE DEF s, t, end
  <2>6. Len(w) = Len(s) + Len(t) /\ \A j \in 1 .. Len(t) : w[Len(s) + j] = t[j]
    BY <2>2, Joined
  <2> HIDE DEF w
  <2>7. \A j \in 1 .. Len(t) : bytes[end[k - 1] + j] = t[j]
    <3> SUFFICES ASSUME NEW j \in 1 .. Len(t) PROVE bytes[end[k - 1] + j] = t[j]
      OBVIOUS
    <3>1. Len(s) + j \in 1 .. Len(w)
      BY <2>2, <2>6
    <3> QED
      BY <2>4, <2>5, <2>6, <3>1
  <2> QED
    BY <2>4, <2>5, <2>6, <2>7 DEF t
<1> HIDE DEF end
<1> QED
  BY <1>8, <1>10, <1>11 DEF bytes

\* DecodeFields gives back exactly the fields that EncodeFields was given, for
\* every list of fields whose encoding is shorter than 2^32 bytes: with values of
\* any bytes, also values that look like the header of a field (EncodeFields and DecodeFields, src/internal/protocol/tlv/tlv.go).
\* From the last field to the first, what is decoded from where the k-th field
\* ends are the fields behind it.
THEOREM FieldsRoundTrip ==
  ASSUME NEW fs \in Seq(TlvField), Len(EncodeFields(fs)) \in U32
  PROVE  DecodeFields(EncodeFields(fs)) = fs
<1> DEFINE bytes == EncodeFields(fs)
           n == Len(fs)
           from == CHOOSE f : f = [i \in 0 .. Len(bytes) |->
                     IF i = Len(bytes) THEN <<>>
                     ELSE IF ~ IsWholeField(bytes, i) THEN <<Malformed>>
                     ELSE <<FieldAt(bytes, i)>> \o f[FieldEnd(bytes, i)]]
<1>1. DecodeFields(bytes) = from[0]
  BY DEF DecodeFields
<1>2. n \in Nat /\ \A k \in 1 .. n : fs[k] \in TlvField
  BY LenProperties, ElementOfSeq
<1>3. PICK end \in [0 .. n -> Nat] :
        /\ bytes \in Seq(Byte)
        /\ end[0] = 0
        /\ end[n] = Len(bytes)
        /\ \A k \in 1 .. n :
             /\ end[k] = end[k - 1] + Len(EncodeField(fs[k]))
             /\ end[k] <= Len(bytes)
             /\ \A j \in 1 .. Len(EncodeField(fs[k])) :
                  bytes[end[k - 1] + j] = EncodeField(fs[k])[j]
  BY FieldsWritten
<1>0. Len(bytes) \in U32
  OBVIOUS
<1> HIDE DEF bytes
<1>4. Len(bytes) \in Nat
  BY <1>3, LenProperties
<1>5. from = [i \in 0 .. Len(bytes) |->
                IF i = Len(bytes) THEN <<>>
                ELSE IF ~ IsWholeField(bytes, i) THEN <<Malformed>>
                ELSE <<FieldAt(bytes, i)>> \o from[FieldEnd(bytes, i)]]
  BY <1>3, DecodeDefined
<1> HIDE DEF from, n
<1> DEFINE P == {k \in 0 .. n : from[end[k]] = SubSeq(fs, k + 1, n)}
<1>6. n \in P
  <2>1. from[Len(bytes)] = <<>>
    BY <1>4, <1>5
  <2>2. SubSeq(fs, n + 1, n) = <<>>
    BY <1>2, SubSeqEmpty
  <2>3. n \in 0 .. n
    BY <1>2
  <2> QED
    BY <1>3, <2>1, <2>2, <2>3
<1>7. ASSUME NEW k \in 1 .. n, k \in P PROVE k - 1 \in P
  <2> DEFINE i == end[k - 1]
             f == fs[k]
             e == EncodeField(f)
  <2>1. k - 1 \in 0 .. n /\ k \in 0 .. n /\ (k - 1) + 1 = k
    BY <1>2
  <2>2. i \in Nat /\ f \in TlvField
    BY <1>2, <1>3, <2>1
  <2>3. Len(e) \in Nat /\ Len(e) >= 7
    <3>1. Len(e) = 7 + Len(f.value) /\ e \in Seq(Byte)
      BY <2>2, EncodedField
    <3>2. Len(f.value) \in Nat
      BY <2>2, LenProperties DEF TlvField
    <3> QED
      BY <3>1, <3>2
  <2>4. end[k] = i + Len(e) /\ end[k] <= Len(bytes) /\ \A j \in 1 .. Len(e) : bytes[i + j] = e[j]
    BY <1>3
  <2>5. FieldEnd(bytes, i) = end[k] /\ FieldAt(bytes, i) = f /\ ValueLen(bytes, i) = Len(e) - 7
    <3> HIDE DEF f, i
    <3>1. /\ FieldEnd(bytes, i) = i + Len(e) /\ FieldAt(bytes, i) = f
          /\ ValueLen(bytes, i) = Len(f.value)
      BY <2>2, <2>4, DecodedField
    <3>2. Len(e) = 7 + Len(f.value) /\ Len(f.value) \in Nat
      BY <2>2, EncodedField, LenProperties DEF TlvField, e
    <3> QED
      BY <2>4, <3>1, <3>2
  <2> HIDE DEF i, f, e
  <2>6. i \in 0 .. Len(bytes) /\ i # Len(bytes) /\ IsWholeField(bytes, i)
    <3>1. i \in 0 .. Len(bytes) /\ i # Len(bytes) /\ Len(bytes) - i >= 7
      BY <1>4, <2>2, <2>3, <2>4
    <3>0. Len(bytes) - i - 7 \in Nat
      BY <1>4, <3>1, SMT
    <3>2. PICK left \in Nat : left = Len(bytes) - i - 7
      BY <3>0, Zenon
    <3>3. left \in U32
      BY <1>0, <1>4, <2>2, <3>1, <3>2, ShorterFits
    <3>4. Low32(left) = left
      BY <3>2, <3>3, Low32Fits
    <3>5. ValueLen(bytes, i) <= Low32(left)
      BY <1>4, <2>2, <2>3, <2>4, <2>5, <3>1, <3>2, <3>4
    <3>6. Len(bytes) - i >= TlvHeaderLen /\ Len(bytes) - i - TlvHeaderLen = left
      BY <3>1, <3>2, SMT DEF TlvHeaderLen
    <3>7. ValueLen(bytes, i) <= Low32(Len(bytes) - i - TlvHeaderLen)
      BY <3>5, <3>6, Zenon
    <3> QED
      BY <3>1, <3>6, <3>7 DEF IsWholeField
  <2>7. from[i] = <<f>> \o from[end[k]]
    BY <1>5, <2>5, <2>6
  <2>8. from[end[k]] = SubSeq(fs, k + 1, n)
    BY <1>7
  <2>9. SubSeq(fs, k, n) = <<f>> \o SubSeq(fs, k + 1, n)
    <3>1. k \in 1 .. Len(fs) /\ n \in k .. Len(fs)
      BY <1>2 DEF n
    <3> QED
      BY <3>1, SubSeqRecursiveFirst DEF f
  <2>10. from[end[k - 1]] = SubSeq(fs, (k - 1) + 1, n)
    BY <2>1, <2>7, <2>8, <2>9 DEF i
  <2> QED
    BY <2>1, <2>10
<1>8. 0 \in P
  <2> HIDE DEF P
  <2>1. \A k \in 0 .. n : k \in P
    BY <1>2, <1>6, <1>7, Downward
  <2> QED
    BY <1>2, <2>1
<1>9. from[0] = SubSeq(fs, 1, n)
  <2>1. from[end[0]] = SubSeq(fs, 0 + 1, n)
    BY <1>8
  <2> QED
    BY <1>3, <2>1
<1>10. SubSeq(fs, 1, n) = fs
  BY SubSeqFull DEF n
<1> QED
  BY <1>1, <1>9, <1>10 DEF bytes

-----------------------------------------------------------------------------
(***************************************************************************)
(* The forms and the schema.                                               *)
(***************************************************************************)

\* What is trimmed is no longer than before.
LEMMA Trimmed ==
  ASSUME NEW s \in Seq(Byte)
  PROVE  TrimSpace(s) \in Seq(Byte) /\ Len(TrimSpace(s)) <= Len(s)
<1> DEFINE inner == {i \in DOMAIN s : s[i] # Space}
<1>1. Len(s) \in Nat /\ DOMAIN s = 1 .. Len(s)
  BY LenProperties
<1>2. CASE inner = {}
  <2>1. TrimSpace(s) = <<>>
    BY <1>2 DEF TrimSpace
  <2> QED
    BY <1>1, <2>1, EmptySeq
<1>3. CASE inner # {}
  <2> DEFINE lo == CHOOSE i \in inner : \A j \in inner : i <= j
             hi == CHOOSE i \in inner : \A j \in inner : i >= j
  <2>1. TrimSpace(s) = SubSeq(s, lo, hi)
    BY <1>3 DEF TrimSpace
  <2>2. inner \in SUBSET Nat /\ inner \subseteq 1 .. Len(s)
    BY <1>1
  <2> HIDE DEF inner
  <2>3. lo \in inner
    BY <1>3, <2>2, LeastNat
  <2>4. hi \in inner /\ \A j \in inner : hi >= j
    <3> DEFINE T == {Len(s) - i : i \in inner}
    <3>0. \A i \in inner : Len(s) - i \in Nat
      BY <1>1, <2>2
    <3>1. T \in SUBSET Nat /\ T # {}
      BY <1>3, <3>0
    <3>2. PICK x \in T : \A y \in T : x <= y
      BY <3>1, LeastNat
    <3>3. PICK i \in inner : x = Len(s) - i
      BY <3>2
    <3>4. ASSUME NEW j \in inner PROVE i >= j
      <4>1. Len(s) - j \in T
        OBVIOUS
      <4>2. Len(s) - i <= Len(s) - j
        BY <3>2, <3>3, <4>1
      <4> QED
        BY <1>1, <2>2, <4>2
    <3> QED
      BY <3>4
  <2> HIDE DEF lo, hi
  <2>5. lo <= hi /\ lo \in 1 .. Len(s) /\ hi \in 1 .. Len(s)
    BY <2>2, <2>3, <2>4
  <2> DEFINE m == lo - 1
  <2>6. m \in Nat /\ hi \in Nat /\ m <= hi /\ hi <= Len(s) /\ m + 1 = lo /\ hi - m <= Len(s)
    BY <1>1, <2>5
  <2> HIDE DEF m
  <2>7. SubSeq(s, m + 1, hi) \in Seq(Byte) /\ Len(SubSeq(s, m + 1, hi)) = hi - m
    BY <2>6, Slice
  <2> QED
    BY <2>1, <2>6, <2>7
<1> QED
  BY <1>2, <1>3, Zenon

\* The entries of the four forms.
LEMMA EventEntries ==
  ToSet(EventForm) = {Required(4), Required(2), Required(1), Required(200), Required(300),
                      Required(500), Stamp}
  BY DEF ToSet, EventForm

LEMMA AckEntries ==
  ToSet(EventAckForm) = {Required(4), Required(2), Required(200), Required(700), AckCode,
                         RequiredStamp}
  BY DEF ToSet, EventAckForm

LEMMA CommandEntries ==
  ToSet(CommandForm) = {Required(2), Required(1), Required(200), Required(201), Required(202),
                        Args}
  BY DEF ToSet, CommandForm

LEMMA ReportEntries ==
  ToSet(ReportForm) = {Required(1), Required(5), Required(600), Required(601), Optional(2),
                       Optional(3), Optional(4), Optional(500), Stamp}
  BY DEF ToSet, ReportForm

LEMMA FormOfKind ==
  ASSUME NEW kind \in Kinds
  PROVE  \/ kind = "event" /\ Form[kind] = EventForm
         \/ kind = "ack" /\ Form[kind] = EventAckForm
         \/ kind = "command" /\ Form[kind] = CommandForm
         \/ kind = "report" /\ Form[kind] = ReportForm
  BY DEF Kinds, Requirements, Form

\* The type of a field goes with what encoder and decoder do with it.
LEMMA EntriesTyped ==
  ASSUME NEW kind \in Kinds, NEW f \in ToSet(Form[kind])
  PROVE  /\ f.id \in U16
         /\ f.type \in Byte
         /\ \/ f.mode \in {"required", "optional"} /\ f.type = TypeString
            \/ f.mode \in {"stamp", "required stamp"} /\ f.type = TypeU64
            \/ f.mode = "code" /\ f.type = TypeU32
            \/ f.mode = "args" /\ f.type = TypeBytes
<1> DEFINE Typed(g) ==
      /\ g.id \in U16
      /\ g.type \in Byte
      /\ \/ g.mode \in {"required", "optional"} /\ g.type = TypeString
         \/ g.mode \in {"stamp", "required stamp"} /\ g.type = TypeU64
         \/ g.mode = "code" /\ g.type = TypeU32
         \/ g.mode = "args" /\ g.type = TypeBytes
<1>1. TypeString \in Byte /\ TypeU64 \in Byte /\ TypeU32 \in Byte /\ TypeBytes \in Byte
  BY SMT DEF TypeString, TypeU64, TypeU32, TypeBytes, Byte
<1>2. \A id \in Nat : id < 702 => id \in U16
  BY SMT DEF U16, TwoBytes
<1>3. \A id \in Nat : id < 702 => Typed(Required(id)) /\ Typed(Optional(id))
  BY <1>1, <1>2, SMT DEF Required, Optional
<1>4. Typed(Stamp) /\ Typed(RequiredStamp) /\ Typed(AckCode) /\ Typed(Args)
  BY <1>1, <1>2, SMT DEF Stamp, RequiredStamp, AckCode, Args
<1> HIDE DEF Typed
<1>5. Typed(f)
  <2>1. CASE Form[kind] = EventForm
    BY <1>3, <1>4, <2>1, EventEntries, SMT
  <2>2. CASE Form[kind] = EventAckForm
    BY <1>3, <1>4, <2>2, AckEntries, SMT
  <2>3. CASE Form[kind] = CommandForm
    BY <1>3, <1>4, <2>3, CommandEntries, SMT
  <2>4. CASE Form[kind] = ReportForm
    BY <1>3, <1>4, <2>4, ReportEntries, SMT
  <2> QED
    BY <2>1, <2>2, <2>3, <2>4, FormOfKind
<1> QED
  BY <1>5 DEF Typed

\* No two fields of a form have the same id.
LEMMA EntriesDistinct ==
  ASSUME NEW kind \in Kinds, NEW f \in ToSet(Form[kind]), NEW g \in ToSet(Form[kind]),
         f.id = g.id
  PROVE  f = g
<1>1. \A id : Required(id).id = id /\ Optional(id).id = id
  BY DEF Required, Optional
<1>2. Stamp.id = 6 /\ RequiredStamp.id = 6 /\ AckCode.id = 701 /\ Args.id = 203
  BY DEF Stamp, RequiredStamp, AckCode, Args
<1>3. CASE Form[kind] = EventForm
  BY <1>1, <1>2, <1>3, EventEntries, SMT
<1>4. CASE Form[kind] = EventAckForm
  BY <1>1, <1>2, <1>4, AckEntries, SMT
<1>5. CASE Form[kind] = CommandForm
  BY <1>1, <1>2, <1>5, CommandEntries, SMT
<1>6. CASE Form[kind] = ReportForm
  BY <1>1, <1>2, <1>6, ReportEntries, SMT
<1> QED
  BY <1>3, <1>4, <1>5, <1>6, FormOfKind

\* Every field that the schema asks for is one that the form always sends, with
\* the type that is asked for (src/internal/protocol/schema/schema.go against
\* the encoders).
LEMMA RequirementsInForm ==
  ASSUME NEW kind \in Kinds, NEW req \in Requirements[kind]
  PROVE  \E f \in ToSet(Form[kind]) :
           f.id = req[1] /\ f.type = req[2] /\ f.mode \in {"required", "required stamp"}
<1> DEFINE Meets(f, r) ==
      f.id = r[1] /\ f.type = r[2] /\ f.mode \in {"required", "required stamp"}
<1>1. \A id : Meets(Required(id), <<id, TypeString>>)
  BY DEF Required
<1>2. Meets(RequiredStamp, <<6, TypeU64>>)
  BY DEF RequiredStamp
<1> HIDE DEF Meets
<1>3. \E f \in ToSet(Form[kind]) : Meets(f, req)
  <2>1. CASE kind = "event" /\ Form[kind] = EventForm
    BY <1>1, <2>1, EventEntries, SMT DEF Requirements
  <2>2. CASE kind = "ack" /\ Form[kind] = EventAckForm
    BY <1>1, <1>2, <2>2, AckEntries, SMT DEF Requirements
  <2>3. CASE kind = "command" /\ Form[kind] = CommandForm
    BY <1>1, <2>3, CommandEntries, SMT DEF Requirements
  <2>4. CASE kind = "report" /\ Form[kind] = ReportForm
    BY <1>1, <2>4, ReportEntries, SMT DEF Requirements
  <2> QED
    BY <2>1, <2>2, <2>3, <2>4, FormOfKind
<1> QED
  BY <1>3 DEF Meets

\* A field is found in its form by its id.
LEMMA EntryFound ==
  ASSUME NEW kind \in Kinds, NEW f \in ToSet(Form[kind])
  PROVE  Entry(kind, f.id) = f
<1> DEFINE e == CHOOSE g \in ToSet(Form[kind]) : g.id = f.id
<1>1. e \in ToSet(Form[kind]) /\ e.id = f.id
  OBVIOUS
<1>2. e = f
  BY <1>1, EntriesDistinct
<1> QED
  BY <1>2 DEF Entry

\* What WriteFrame takes fits into 32 bits.
LEMMA WithinLimit ==
  ASSUME NEW n \in Nat, n <= PayloadLimit
  PROVE  n \in U32
BY SMT DEF PayloadLimit, U32, U16, TwoBytes

\* Command arguments between their braces.
LEMMA BracedText ==
  ASSUME NEW v \in Seq(Byte)
  PROVE  /\ <<123>> \o v \o <<125>> \in Seq(Byte)
         /\ Len(<<123>> \o v \o <<125>>) = Len(v) + 2
         /\ (<<123>> \o v \o <<125>>)[1] = 123
         /\ (<<123>> \o v \o <<125>>)[Len(v) + 2] = 125
         /\ SubSeq(<<123>> \o v \o <<125>>, 2, Len(v) + 1) = v
<1> DEFINE o == <<123>>
           c == <<125>>
<1>1. o \in Seq(Byte) /\ Len(o) = 1 /\ o[1] = 123
  <2>1. 123 \in Byte
    BY SMT DEF Byte
  <2> QED
    BY <2>1
<1>2. c \in Seq(Byte) /\ Len(c) = 1 /\ c[1] = 125
  <2>1. 125 \in Byte
    BY SMT DEF Byte
  <2> QED
    BY <2>1
<1>3. Len(v) \in Nat
  BY LenProperties
<1> HIDE DEF o, c
<1> DEFINE h == o \o v
<1>4. /\ h \in Seq(Byte)
      /\ Len(h) = Len(o) + Len(v)
      /\ \A i \in 1 .. Len(o) : h[i] = o[i]
      /\ \A i \in 1 .. Len(v) : h[Len(o) + i] = v[i]
  <2>1. o \in Seq(Byte) /\ v \in Seq(Byte)
    BY <1>1
  <2>2. /\ o \o v \in Seq(Byte)
        /\ Len(o \o v) = Len(o) + Len(v)
        /\ \A i \in 1 .. Len(o) : (o \o v)[i] = o[i]
        /\ \A i \in 1 .. Len(v) : (o \o v)[Len(o) + i] = v[i]
    BY <2>1, Joined
  <2> QED
    BY <2>2
<1> HIDE DEF h
<1> DEFINE w == h \o c
<1>5. /\ w \in Seq(Byte)
      /\ Len(w) = Len(h) + Len(c)
      /\ \A i \in 1 .. Len(h) : w[i] = h[i]
      /\ \A i \in 1 .. Len(c) : w[Len(h) + i] = c[i]
  <2>1. h \in Seq(Byte) /\ c \in Seq(Byte)
    BY <1>2, <1>4
  <2>2. /\ h \o c \in Seq(Byte)
        /\ Len(h \o c) = Len(h) + Len(c)
        /\ \A i \in 1 .. Len(h) : (h \o c)[i] = h[i]
        /\ \A i \in 1 .. Len(c) : (h \o c)[Len(h) + i] = c[i]
    BY <2>1, Joined
  <2> QED
    BY <2>2
<1> HIDE DEF w
<1>6. Len(h) = Len(v) + 1 /\ Len(w) = Len(v) + 2
  BY <1>1, <1>2, <1>3, <1>4, <1>5
<1>7. w[1] = 123
  <2>1. 1 \in 1 .. Len(h) /\ 1 \in 1 .. Len(o)
    BY <1>1, <1>3, <1>6
  <2> QED
    BY <1>1, <1>4, <1>5, <2>1
<1>8. w[Len(v) + 2] = 125
  <2>1. Len(h) + 1 = Len(v) + 2 /\ 1 \in 1 .. Len(c)
    BY <1>2, <1>3, <1>6
  <2> QED
    BY <1>2, <1>5, <2>1
<1>9. SubSeq(w, 2, Len(v) + 1) = v
  <2> DEFINE m == 1
             n == Len(v) + 1
  <2>1. m \in Nat /\ n \in Nat /\ n = m + Len(v) /\ m + 1 = 2
    BY <1>3
  <2>2. \A i \in 1 .. Len(v) : w[m + i] = v[i]
    <3> SUFFICES ASSUME NEW i \in 1 .. Len(v) PROVE w[m + i] = v[i]
      OBVIOUS
    <3>1. m + i \in 1 .. Len(h) /\ Len(o) + i = m + i
      BY <1>1, <1>3, <1>6
    <3> QED
      BY <1>4, <1>5, <3>1
  <2> HIDE DEF m, n
  <2>3. SubSeq(w, m + 1, n) = v
    BY <2>1, <2>2, Part
  <2> QED
    BY <2>1, <2>3 DEF n
<1>10. w = <<123>> \o v \o <<125>>
  BY DEF w, h, o, c
<1> QED
  BY <1>5, <1>6, <1>7, <1>8, <1>9, <1>10

\* What a message holds for a field, by what is done with it.
LEMMA ValuesTyped ==
  ASSUME NEW kind \in Kinds, NEW m \in Messages[kind], NEW f \in ToSet(Form[kind])
  PROVE  /\ f.mode \in {"required", "optional", "args"} => m[f.id] \in Seq(Byte) /\ Len(m[f.id]) + 2 \in U32
         /\ f.mode \in {"stamp", "required stamp"} => m[f.id] \in U64
         /\ f.mode = "code" => m[f.id] \in U32
<1>1. m[f.id] \in ValuesOf(f)
  BY WireFormsAssumption DEF WireFormsAssumption
<1>2. \/ f.mode \in {"required", "optional"} /\ f.type = TypeString
      \/ f.mode \in {"stamp", "required stamp"} /\ f.type = TypeU64
      \/ f.mode = "code" /\ f.type = TypeU32
      \/ f.mode = "args" /\ f.type = TypeBytes
  BY EntriesTyped
<1>3. /\ f.type \in {TypeString, TypeBytes} => m[f.id] \in {s \in Seq(Byte) : Len(s) + 2 \in U32}
      /\ f.type = TypeU64 => m[f.id] \in U64
      /\ f.type = TypeU32 => m[f.id] \in U32
  BY <1>1 DEF ValuesOf, TypeString, TypeBytes, TypeU64, TypeU32
<1> QED
  BY <1>2, <1>3

\* The bytes of a value fit into a field.
LEMMA BytesTyped ==
  ASSUME NEW kind \in Kinds, NEW m \in Messages[kind], NEW f \in ToSet(Form[kind])
  PROVE  ValueBytes(f, m[f.id]) \in Seq(Byte) /\ Len(ValueBytes(f, m[f.id])) \in U32
<1> DEFINE v == m[f.id]
           b == ValueBytes(f, v)
           Fits == b \in Seq(Byte) /\ Len(b) \in U32
<1>1. /\ f.mode \in {"required", "optional", "args"} => v \in Seq(Byte) /\ Len(v) + 2 \in U32
      /\ f.mode \in {"stamp", "required stamp"} => v \in U64
      /\ f.mode = "code" => v \in U32
  BY ValuesTyped
<1>2. f.mode \in {"required", "optional", "args", "stamp", "required stamp", "code"}
  BY EntriesTyped
<1> HIDE DEF v
<1>3. 4 \in U32 /\ 8 \in U32
  BY SMT DEF U32, U16, TwoBytes
<1>4. Fits
  <2>1. CASE f.mode = "required"
    <3>1. b = v
      BY <2>1 DEF ValueBytes
    <3>2. Len(v) \in Nat
      BY <1>1, <2>1, LenProperties
    <3> QED
      BY <1>1, <2>1, <3>1, <3>2, LengthFits
  <2>2. CASE f.mode = "optional"
    <3>1. b = TrimSpace(v)
      BY <2>2 DEF ValueBytes
    <3>2. v \in Seq(Byte) /\ Len(v) + 2 \in U32 /\ Len(v) \in Nat
      BY <1>1, <2>2, LenProperties
    <3>3. TrimSpace(v) \in Seq(Byte) /\ Len(TrimSpace(v)) <= Len(v)
      BY <3>2, Trimmed
    <3>4. Len(TrimSpace(v)) \in Nat
      BY <3>3, LenProperties
    <3> QED
      BY <3>1, <3>2, <3>3, <3>4, LengthFits, ShorterFits
  <2>3. CASE f.mode = "args"
    <3>1. b = <<123>> \o v \o <<125>>
      BY <2>3 DEF ValueBytes
    <3> QED
      BY <1>1, <2>3, <3>1, BracedText
  <2>4. CASE f.mode = "code"
    <3>1. b = PutUint32(v)
      BY <2>4 DEF ValueBytes
    <3> QED
      BY <1>1, <1>3, <2>4, <3>1, Number32
  <2>5. CASE f.mode \in {"stamp", "required stamp"}
    <3>1. b = PutUint64(v)
      BY <2>5 DEF ValueBytes
    <3> QED
      BY <1>1, <1>3, <2>5, <3>1, Number64
  <2> QED
    BY <1>2, <2>1, <2>2, <2>3, <2>4, <2>5
<1> QED
  BY <1>4 DEF v

LEMMA FieldsTyped ==
  ASSUME NEW kind \in Kinds, NEW m \in Messages[kind], NEW f \in ToSet(Form[kind])
  PROVE  FieldOf(f, m) \in TlvField
  BY EntriesTyped, BytesTyped DEF FieldOf, TlvField

-----------------------------------------------------------------------------
(***************************************************************************)
(* From a message to its fields and back.                                  *)
(***************************************************************************)

\* Two sequences put together have the elements of both.
LEMMA ElementsJoined ==
  ASSUME NEW S, NEW s \in Seq(S), NEW t \in Seq(S)
  PROVE  ToSet(s \o t) = ToSet(s) \cup ToSet(t)
<1> DEFINE w == s \o t
<1>1. w \in Seq(S) /\ Len(w) = Len(s) + Len(t) /\ Len(s) \in Nat /\ Len(t) \in Nat
  BY Joined, LenProperties
<1>2. \A i \in 1 .. Len(s) : w[i] = s[i]
  BY Joined
<1>3. \A i \in 1 .. Len(t) : w[Len(s) + i] = t[i]
  BY Joined
<1>4. DOMAIN w = 1 .. Len(w) /\ DOMAIN s = 1 .. Len(s) /\ DOMAIN t = 1 .. Len(t)
  BY <1>1, LenProperties
<1> HIDE DEF w
<1>5. ASSUME NEW i \in 1 .. Len(w) PROVE w[i] \in ToSet(s) \cup ToSet(t)
  <2>1. CASE i <= Len(s)
    BY <1>1, <1>2, <1>4, <2>1 DEF ToSet
  <2>2. CASE ~ (i <= Len(s))
    <3>1. i - Len(s) \in 1 .. Len(t) /\ Len(s) + (i - Len(s)) = i
      BY <1>1, <2>2
    <3>2. w[i] = t[i - Len(s)]
      BY <1>3, <3>1
    <3> QED
      BY <1>4, <3>1, <3>2 DEF ToSet
  <2> QED
    BY <2>1, <2>2
<1>6. ASSUME NEW i \in 1 .. Len(s) PROVE s[i] \in ToSet(w)
  <2>1. i \in 1 .. Len(w)
    BY <1>1
  <2> QED
    BY <1>2, <1>4, <2>1 DEF ToSet
<1>7. ASSUME NEW i \in 1 .. Len(t) PROVE t[i] \in ToSet(w)
  <2>1. Len(s) + i \in 1 .. Len(w)
    BY <1>1
  <2> QED
    BY <1>3, <1>4, <2>1 DEF ToSet
<1>8. ToSet(w) \subseteq ToSet(s) \cup ToSet(t)
  BY <1>4, <1>5 DEF ToSet
<1>9. ToSet(s) \subseteq ToSet(w) /\ ToSet(t) \subseteq ToSet(w)
  BY <1>4, <1>6, <1>7 DEF ToSet
<1> QED
  BY <1>8, <1>9 DEF w

\* The encoder puts on the wire the fields that the message sends and no others.
LEMMA FieldsBuilt ==
  ASSUME NEW kind \in Kinds, NEW m \in Messages[kind]
  PROVE  Carries(kind, m, FieldsOf(kind, m))
<1> DEFINE form == Form[kind]
           n == Len(form)
           part(f) == IF IsSent(f, m[f.id]) THEN <<FieldOf(f, m)>> ELSE <<>>
           seqs == [i \in DOMAIN form |-> part(form[i])]
           Sent == {e \in ToSet(form) : IsSent(e, m[e.id])}
<1>1. n \in Nat /\ DOMAIN form = 1 .. n
  <2>1. CASE form = EventForm
    BY <2>1 DEF EventForm
  <2>2. CASE form = EventAckForm
    BY <2>2 DEF EventAckForm
  <2>3. CASE form = CommandForm
    BY <2>3 DEF CommandForm
  <2>4. CASE form = ReportForm
    BY <2>4 DEF ReportForm
  <2> QED
    BY <2>1, <2>2, <2>3, <2>4, FormOfKind
<1>2. FieldsOf(kind, m) = FlattenSeq(seqs)
  BY DEF FieldsOf
<1>3. \A i \in 1 .. n : form[i] \in ToSet(form)
  BY <1>1 DEF ToSet
<1>4. ASSUME NEW i \in 1 .. n
      PROVE  /\ part(form[i]) \in Seq(TlvField)
             /\ ToSet(part(form[i])) = {FieldOf(f, m) : f \in {e \in {form[i]} : IsSent(e, m[e.id])}}
  <2> DEFINE f == form[i]
  <2>1. FieldOf(f, m) \in TlvField
    BY <1>3, FieldsTyped
  <2> HIDE DEF f
  <2>2. CASE IsSent(f, m[f.id])
    <3>1. part(f) = <<FieldOf(f, m)>>
      BY <2>2
    <3>2. part(f) \in Seq(TlvField) /\ ToSet(part(f)) = {FieldOf(f, m)}
      BY <2>1, <3>1 DEF ToSet
    <3> QED
      BY <2>2, <3>2 DEF f
  <2>3. CASE ~ IsSent(f, m[f.id])
    <3>1. part(f) = <<>>
      BY <2>3
    <3>2. part(f) \in Seq(TlvField) /\ ToSet(part(f)) = {}
      BY <3>1 DEF ToSet
    <3> QED
      BY <2>3, <3>2 DEF f
  <2> QED
    BY <2>2, <2>3
<1>5. seqs \in Seq(Seq(TlvField)) /\ Len(seqs) = n /\ \A i \in 1 .. n : seqs[i] = part(form[i])
  <2>1. \A i \in 1 .. n : part(form[i]) \in Seq(TlvField)
    BY <1>4
  <2> HIDE DEF part, form, n
  <2>2. seqs = [i \in 1 .. n |-> part(form[i])]
    BY <1>1
  <2> HIDE DEF seqs
  <2>3. seqs \in [1 .. n -> Seq(TlvField)]
    BY <2>1, <2>2
  <2>4. seqs \in Seq(Seq(TlvField)) /\ Len(seqs) = n
    BY <1>1, <2>3
  <2> QED
    BY <2>2, <2>4
<1> HIDE DEF seqs, part, form, n
<1>6. PICK u \in [0 .. Len(seqs) -> Seq(TlvField)] :
        /\ u[0] = <<>>
        /\ \A k \in 1 .. Len(seqs) : u[k] = u[k - 1] \o seqs[k]
        /\ FlattenSeq(seqs) = u[Len(seqs)]
  BY <1>5, Flattened
<1> DEFINE Upto(k) == {form[i] : i \in 1 .. k}
           P == {k \in 0 .. n : ToSet(u[k]) = {FieldOf(f, m) : f \in {e \in Upto(k) : IsSent(e, m[e.id])}}}
<1>7. 0 \in P
  <2>1. ToSet(u[0]) = {}
    BY <1>6 DEF ToSet
  <2>2. Upto(0) = {}
    OBVIOUS
  <2> QED
    BY <1>1, <2>1, <2>2
<1>8. ASSUME NEW k \in 1 .. n, k - 1 \in P PROVE k \in P
  <2>1. ToSet(u[k - 1]) = {FieldOf(f, m) : f \in {e \in Upto(k - 1) : IsSent(e, m[e.id])}}
    BY <1>8
  <2>2. ToSet(seqs[k]) = {FieldOf(f, m) : f \in {e \in {form[k]} : IsSent(e, m[e.id])}}
    BY <1>4, <1>5
  <2>3. Upto(k) = Upto(k - 1) \cup {form[k]}
    <3>1. 1 .. k = (1 .. k - 1) \cup {k}
      BY <1>1
    <3> QED
      BY <3>1
  <2>4. u[k - 1] \in Seq(TlvField) /\ seqs[k] \in Seq(TlvField)
    <3>1. k - 1 \in 0 .. Len(seqs)
      BY <1>1, <1>5
    <3>2. u[k - 1] \in Seq(TlvField)
      BY <1>6, <3>1
    <3>3. seqs[k] \in Seq(TlvField)
      BY <1>4, <1>5
    <3> QED
      BY <3>2, <3>3
  <2>5. ToSet(u[k - 1] \o seqs[k]) = ToSet(u[k - 1]) \cup ToSet(seqs[k])
    BY <2>4, ElementsJoined
  <2>6. u[k] = u[k - 1] \o seqs[k]
    BY <1>5, <1>6
  <2> HIDE DEF Upto
  <2>7. ToSet(u[k]) = {FieldOf(f, m) : f \in {e \in Upto(k) : IsSent(e, m[e.id])}}
    BY <2>1, <2>2, <2>3, <2>5, <2>6
  <2>8. k \in 0 .. n
    BY <1>1
  <2> QED
    BY <2>7, <2>8
<1>9. ToSet(u[n]) = {FieldOf(f, m) : f \in {e \in Upto(n) : IsSent(e, m[e.id])}}
  <2> HIDE DEF P
  <2>1. \A k \in 0 .. n : k \in P
    BY <1>1, <1>7, <1>8, Upward
  <2>2. n \in P
    BY <1>1, <2>1
  <2> QED
    BY <2>2 DEF P
<1>10. Upto(n) = ToSet(form)
  BY <1>1 DEF ToSet
<1>11. FieldsOf(kind, m) \in Seq(TlvField) /\ ToSet(FieldsOf(kind, m)) = {FieldOf(f, m) : f \in Sent}
  <2>1. u[n] \in Seq(TlvField) /\ FieldsOf(kind, m) = u[n]
    BY <1>1, <1>2, <1>5, <1>6
  <2> QED
    BY <1>9, <1>10, <2>1
<1>12. \A g \in ToSet(FieldsOf(kind, m)) : g.id \in IdsOf(kind)
  BY <1>11 DEF FieldOf, IdsOf, form
<1> QED
  BY <1>11, <1>12 DEF Carries, form

\* A field that is inserted joins those that are there.
LEMMA FieldInserted ==
  ASSUME NEW fs \in Seq(TlvField), NEW x \in TlvField, NEW i \in 1 .. Len(fs) + 1
  PROVE  InsertAt(fs, i, x) \in Seq(TlvField) /\ ToSet(InsertAt(fs, i, x)) = ToSet(fs) \cup {x}
<1> DEFINE m == i - 1
           n == Len(fs)
           a == SubSeq(fs, 1, m)
           b == SubSeq(fs, m + 1, n)
           e == <<x>>
<1>1. n \in Nat /\ m \in 0 .. n /\ m + 1 = i /\ m + 1 \in 1 .. n + 1 /\ m \in Nat
  BY LenProperties
<1>2. a \in Seq(TlvField) /\ b \in Seq(TlvField)
  <2> DEFINE z == 0
  <2>1. z \in Nat /\ z + 1 = 1 /\ z <= m /\ m <= n
    BY <1>1
  <2> HIDE DEF z, m
  <2>2. SubSeq(fs, z + 1, m) \in Seq(TlvField)
    BY <1>1, <2>1, Slice
  <2>3. SubSeq(fs, m + 1, n) \in Seq(TlvField)
    <3>1. n <= Len(fs)
      BY <1>1
    <3> QED
      BY <1>1, <2>1, <3>1, Slice
  <2> QED
    BY <2>1, <2>2, <2>3
<1>3. a \o b = fs
  <2>1. SubSeq(fs, 1, m) \o SubSeq(fs, m + 1, n) = SubSeq(fs, 1, n)
    <3>1. 1 \in 1 .. n + 1 /\ m \in 1 - 1 .. n /\ n \in m .. n
      BY <1>1
    <3> HIDE DEF m
    <3> QED
      BY <3>1, ConcatAdjacentSubSeq
  <2>2. SubSeq(fs, 1, n) = fs
    BY SubSeqFull
  <2> QED
    BY <2>1, <2>2
<1>4. e \in Seq(TlvField) /\ ToSet(e) = {x}
  BY DEF ToSet
<1>5. InsertAt(fs, i, x) = (a \o e) \o b
  BY <1>1 DEF InsertAt
<1> HIDE DEF a, b, e
<1>6. a \o e \in Seq(TlvField) /\ ToSet(a \o e) = ToSet(a) \cup ToSet(e)
  <2>1. a \in Seq(TlvField) /\ e \in Seq(TlvField)
    BY <1>2, <1>4
  <2> QED
    BY <2>1, Joined, ElementsJoined
<1> DEFINE h == a \o e
<1> HIDE DEF h
<1>7. h \o b \in Seq(TlvField) /\ ToSet(h \o b) = ToSet(h) \cup ToSet(b)
  <2>1. h \in Seq(TlvField) /\ b \in Seq(TlvField)
    BY <1>2, <1>6 DEF h
  <2> QED
    BY <2>1, Joined, ElementsJoined
<1>8. ToSet(fs) = ToSet(a) \cup ToSet(b)
  <2>1. a \in Seq(TlvField) /\ b \in Seq(TlvField)
    BY <1>2
  <2>2. ToSet(a \o b) = ToSet(a) \cup ToSet(b)
    BY <2>1, ElementsJoined
  <2> QED
    BY <1>3, <2>2
<1> QED
  BY <1>4, <1>5, <1>6, <1>7, <1>8 DEF h

\* A field of another version leaves the others as they were.
LEMMA FieldAdded ==
  ASSUME NEW kind \in Kinds, NEW m, NEW fs, Carries(kind, m, fs),
         NEW x \in ExtraFields, NEW i \in 1 .. Len(fs) + 1
  PROVE  Carries(kind, m, InsertAt(fs, i, x))
<1>1. x \in TlvField /\ x.id \notin IdsOf(kind)
  BY WireFormsAssumption DEF WireFormsAssumption
<1>2. fs \in Seq(TlvField)
  BY DEF Carries
<1>3. InsertAt(fs, i, x) \in Seq(TlvField) /\ ToSet(InsertAt(fs, i, x)) = ToSet(fs) \cup {x}
  BY <1>1, <1>2, FieldInserted
<1>4. {g \in ToSet(InsertAt(fs, i, x)) : g.id \in IdsOf(kind)} = {g \in ToSet(fs) : g.id \in IdsOf(kind)}
  BY <1>1, <1>3
<1> QED
  BY <1>3, <1>4 DEF Carries

\* GetField finds a field with the id it was asked for.
LEMMA FirstFound ==
  ASSUME NEW fs \in Seq(TlvField), NEW id, HasField(fs, id)
  PROVE  GetField(fs, id) \in ToSet(fs) /\ GetField(fs, id).id = id
<1> DEFINE I == {i \in 1 .. Len(fs) : fs[i].id = id}
<1>1. Len(fs) \in Nat /\ DOMAIN fs = 1 .. Len(fs)
  BY LenProperties
<1>2. I # {} /\ I \in SUBSET Nat
  BY <1>1 DEF HasField
<1>3. GetField(fs, id) = fs[Min(I)]
  BY <1>2 DEF GetField, SelectInSeq
<1>4. Min(I) \in I
  <2> HIDE DEF I
  <2> QED
    BY <1>2, LeastNat DEF Min
<1> QED
  BY <1>1, <1>3, <1>4 DEF ToSet

\* A field of the form is found if and only if it was sent, and as it was sent,
\* whatever else is on the wire and in whatever order.
LEMMA FieldRead ==
  ASSUME NEW kind \in Kinds, NEW m \in Messages[kind], NEW fs, Carries(kind, m, fs),
         NEW f \in ToSet(Form[kind])
  PROVE  /\ HasField(fs, f.id) <=> IsSent(f, m[f.id])
         /\ HasField(fs, f.id) => GetField(fs, f.id) = FieldOf(f, m)
<1>1. fs \in Seq(TlvField)
  BY DEF Carries
<1>2. {g \in ToSet(fs) : g.id \in IdsOf(kind)} =
        {FieldOf(e, m) : e \in {e \in ToSet(Form[kind]) : IsSent(e, m[e.id])}}
  BY DEF Carries
<1>3. f.id \in IdsOf(kind)
  BY DEF IdsOf
<1>4. ASSUME NEW g \in ToSet(fs), g.id = f.id
      PROVE  g = FieldOf(f, m) /\ IsSent(f, m[f.id])
  <2>1. PICK e \in ToSet(Form[kind]) : IsSent(e, m[e.id]) /\ g = FieldOf(e, m)
    BY <1>2, <1>3, <1>4
  <2>2. e.id = f.id
    BY <1>4, <2>1 DEF FieldOf
  <2>3. e = f
    BY <2>2, EntriesDistinct
  <2> QED
    BY <2>1, <2>3
<1>5. ASSUME IsSent(f, m[f.id]) PROVE HasField(fs, f.id)
  <2>1. FieldOf(f, m) \in ToSet(fs)
    BY <1>2, <1>5
  <2>2. FieldOf(f, m).id = f.id
    BY DEF FieldOf
  <2> QED
    BY <2>1, <2>2 DEF ToSet, HasField
<1>6. ASSUME HasField(fs, f.id) PROVE IsSent(f, m[f.id]) /\ GetField(fs, f.id) = FieldOf(f, m)
  <2>1. GetField(fs, f.id) \in ToSet(fs) /\ GetField(fs, f.id).id = f.id
    BY <1>1, <1>6, FirstFound
  <2> QED
    BY <1>4, <2>1
<1> QED
  BY <1>5, <1>6

\* What was sent can be read and reads as it was, optional strings trimmed.
LEMMA ValueRead ==
  ASSUME NEW kind \in Kinds, NEW m \in Messages[kind], NEW fs, Carries(kind, m, fs),
         NEW f \in ToSet(Form[kind])
  PROVE  /\ HasField(fs, f.id) => ReadableField(f, fs)
         /\ ReadValue(f, fs) = IF f.mode = "optional" THEN TrimSpace(m[f.id]) ELSE m[f.id]
<1> DEFINE v == m[f.id]
           b == ValueBytes(f, v)
           Right == /\ HasField(fs, f.id) => ReadableField(f, fs)
                    /\ ReadValue(f, fs) = IF f.mode = "optional" THEN TrimSpace(v) ELSE v
<1>1. HasField(fs, f.id) <=> IsSent(f, v)
  BY FieldRead
<1>2. HasField(fs, f.id) => GetField(fs, f.id).value = b
  <2>1. HasField(fs, f.id) => GetField(fs, f.id) = FieldOf(f, m)
    BY FieldRead
  <2>2. FieldOf(f, m).value = b
    BY DEF FieldOf
  <2> QED
    BY <2>1, <2>2
<1>3. /\ f.mode \in {"required", "optional", "args"} => v \in Seq(Byte) /\ Len(v) + 2 \in U32
      /\ f.mode \in {"stamp", "required stamp"} => v \in U64
      /\ f.mode = "code" => v \in U32
  BY ValuesTyped
<1>4. f.mode \in {"required", "optional", "args", "stamp", "required stamp", "code"}
  BY EntriesTyped
<1> HIDE DEF v, b
<1>5. Right
  <2>1. CASE f.mode = "required"
    <3>1. IsSent(f, v) /\ b = v
      BY <2>1 DEF IsSent, ValueBytes, b
    <3> QED
      BY <1>1, <1>2, <2>1, <3>1 DEF ReadableField, ReadValue
  <2>2. CASE f.mode = "optional"
    <3>1. b = TrimSpace(v) /\ (IsSent(f, v) <=> TrimSpace(v) # <<>>)
      BY <2>2 DEF IsSent, ValueBytes, b
    <3> QED
      BY <1>1, <1>2, <2>2, <3>1 DEF ReadableField, ReadValue
  <2>3. CASE f.mode = "args"
    <3>1. b = <<123>> \o v \o <<125>> /\ (IsSent(f, v) <=> v # <<>>)
      BY <2>3 DEF IsSent, ValueBytes, b
    <3>2. Len(v) \in Nat
      BY <1>3, <2>3, LenProperties
    <3>3. Len(b) = Len(v) + 2 /\ b[1] = 123 /\ b[Len(v) + 2] = 125 /\ SubSeq(b, 2, Len(v) + 1) = v
      BY <1>3, <2>3, <3>1, BracedText
    <3>4. Len(b) >= 2 /\ b[Len(b)] = 125 /\ SubSeq(b, 2, Len(b) - 1) = v
      BY <3>2, <3>3
    <3> QED
      BY <1>1, <1>2, <2>3, <3>1, <3>3, <3>4 DEF ReadableField, ReadValue
  <2>4. CASE f.mode = "stamp"
    <3>1. b = PutUint64(v) /\ (IsSent(f, v) <=> v # 0)
      BY <2>4 DEF IsSent, ValueBytes, b
    <3>2. Len(b) = 8 /\ Uint64(b) = v
      BY <1>3, <2>4, <3>1, Number64
    <3> QED
      BY <1>1, <1>2, <2>4, <3>1, <3>2 DEF ReadableField, ReadValue
  <2>5. CASE f.mode = "required stamp"
    <3>1. b = PutUint64(v) /\ IsSent(f, v)
      BY <2>5 DEF IsSent, ValueBytes, b
    <3>2. Len(b) = 8 /\ Uint64(b) = v
      BY <1>3, <2>5, <3>1, Number64
    <3> QED
      BY <1>1, <1>2, <2>5, <3>1, <3>2 DEF ReadableField, ReadValue
  <2>6. CASE f.mode = "code"
    <3>1. b = PutUint32(v) /\ IsSent(f, v)
      BY <2>6 DEF IsSent, ValueBytes, b
    <3>2. Len(b) = 4 /\ Uint32(b) = v
      BY <1>3, <2>6, <3>1, Number32
    <3> QED
      BY <1>1, <1>2, <2>6, <3>1, <3>2 DEF ReadableField, ReadValue
  <2> QED
    BY <1>4, <2>1, <2>2, <2>3, <2>4, <2>5, <2>6
<1> QED
  BY <1>5 DEF v

\* The decoder accepts the fields of a valid message and returns the message.
LEMMA MessageDecoded ==
  ASSUME NEW kind \in Kinds, NEW m \in Messages[kind], NEW fs, Carries(kind, m, fs),
         Len(EncodeFields(fs)) <= PayloadLimit
  PROVE  Decode(kind, EncodeFields(fs)) = {Canonical(kind, m)}
<1>1. fs \in Seq(TlvField)
  BY DEF Carries
<1>2. DecodeFields(EncodeFields(fs)) = fs
  <2>1. Len(EncodeFields(fs)) \in Nat
    <3>1. EncodeFields(fs) \in Seq(Byte)
      BY <1>1, FieldsWritten
    <3> QED
      BY <3>1, LenProperties
  <2>2. Len(EncodeFields(fs)) \in U32
    BY <2>1, WithinLimit
  <2> QED
    BY <1>1, <2>2, FieldsRoundTrip
<1>3. Malformed \notin ToSet(fs)
  <2>1. ToSet(fs) \subseteq TlvField
    BY <1>1, LenProperties, ElementOfSeq DEF ToSet
  <2>2. Malformed \notin TlvField
    <3>1. Malformed.type = -1
      BY DEF Malformed
    <3>2. \A g \in TlvField : g.type \in Nat
      BY DEF TlvField, Byte
    <3> QED
      BY <3>1, <3>2
  <2> QED
    BY <2>1, <2>2
<1>4. Validate(kind, fs)
  <2> SUFFICES ASSUME NEW req \in Requirements[kind]
               PROVE  HasField(fs, req[1]) /\ GetField(fs, req[1]).type = req[2]
    BY DEF Validate
  <2>1. PICK f \in ToSet(Form[kind]) :
          f.id = req[1] /\ f.type = req[2] /\ f.mode \in {"required", "required stamp"}
    BY RequirementsInForm
  <2>2. IsSent(f, m[f.id])
    BY <2>1 DEF IsSent
  <2>3. HasField(fs, f.id) /\ GetField(fs, f.id) = FieldOf(f, m)
    BY <2>2, FieldRead
  <2>4. FieldOf(f, m).type = f.type
    BY DEF FieldOf
  <2> QED
    BY <2>1, <2>3, <2>4
<1>5. Accepts(kind, fs)
  BY <1>3, <1>4, ValueRead DEF Accepts
<1>6. ASSUME NEW id \in IdsOf(kind)
      PROVE  ReadValue(Entry(kind, id), fs) =
               IF Entry(kind, id).mode = "optional" THEN TrimSpace(m[id]) ELSE m[id]
  <2>1. PICK f \in ToSet(Form[kind]) : f.id = id
    BY DEF IdsOf
  <2>2. Entry(kind, id) = f
    BY <2>1, EntryFound
  <2> QED
    BY <2>1, <2>2, ValueRead
<1>7. [id \in IdsOf(kind) |-> ReadValue(Entry(kind, id), fs)] = Canonical(kind, m)
  BY <1>6 DEF Canonical
<1> QED
  BY <1>2, <1>5, <1>7 DEF Decode

-----------------------------------------------------------------------------
(***************************************************************************)
(* The specification.                                                      *)
(***************************************************************************)

LEMMA WireStarts == WireFormInit => WireInv
  BY DEF WireFormInit, WireInv, Nothing

LEMMA SendingKnown ==
  ASSUME NEW kind \in Kinds, NEW m
  PROVE  [kind |-> kind, message |-> m] # Nothing
<1>1. kind # "none"
  BY FormOfKind
<1>2. [kind |-> kind, message |-> m].kind = kind /\ Nothing.kind = "none"
  BY DEF Nothing
<1> QED
  BY <1>1, <1>2

LEMMA WireStep == WireInv /\ [WireFormNext]_wireFormVars => WireInv'
<1> SUFFICES ASSUME WireInv, [WireFormNext]_wireFormVars PROVE WireInv'
  OBVIOUS
<1>1. ASSUME outgoing = Nothing, NEW kind \in Kinds, NEW m \in Messages[kind], BuildFields(kind, m)
      PROVE  WireInv'
  <2>1. payload' = {}
    BY <1>1 DEF BuildFields, WireInv
  <2>2. outgoing' = [kind |-> kind, message |-> m] /\ ValidMessage(kind, m)
    BY <1>1 DEF BuildFields
  <2>3. Carries(kind, m, fields')
    BY <1>1, FieldsBuilt DEF BuildFields
  <2> QED
    BY <2>1, <2>2, <2>3, SendingKnown DEF WireInv
<1>2. ASSUME NEW x \in ExtraFields, NEW i \in 1 .. MaxFields + 1, AddField(i, x)
      PROVE  WireInv'
  <2>1. payload' = {} /\ outgoing' = outgoing /\ outgoing # Nothing
    BY <1>2 DEF AddField
  <2>2. PICK kind \in Kinds : \E m \in Messages[kind] :
          /\ outgoing = [kind |-> kind, message |-> m]
          /\ ValidMessage(kind, m)
          /\ Carries(kind, m, fields)
    BY <2>1 DEF WireInv
  <2>3. PICK m \in Messages[kind] :
          /\ outgoing = [kind |-> kind, message |-> m]
          /\ ValidMessage(kind, m)
          /\ Carries(kind, m, fields)
    BY <2>2
  <2>4. Carries(kind, m, fields')
    <3>1. i \in 1 .. Len(fields) + 1 /\ fields' = InsertAt(fields, i, x)
      BY <1>2 DEF AddField
    <3>2. Carries(kind, m, InsertAt(fields, i, x))
      BY <2>3, <3>1, FieldAdded
    <3> QED
      BY <3>1, <3>2
  <2> QED
    BY <2>1, <2>3, <2>4 DEF WireInv
<1>3. ASSUME EncodeMessage PROVE WireInv'
  BY <1>3 DEF EncodeMessage, WireInv
<1>4. ASSUME DecodeMessage PROVE WireInv'
  BY <1>4 DEF DecodeMessage, WireInv
<1>5. ASSUME UNCHANGED wireFormVars PROVE WireInv'
  BY <1>5 DEF wireFormVars, WireInv
<1> QED
  BY <1>1, <1>2, <1>3, <1>4, <1>5 DEF WireFormNext

LEMMA WireInvGivesRoundTrip == WireInv => RoundTrip
<1> SUFFICES ASSUME WireInv, NEW bytes \in payload
             PROVE  Decode(outgoing.kind, bytes) = {Canonical(outgoing.kind, outgoing.message)}
  BY DEF RoundTrip
<1>1. /\ bytes = EncodeFields(fields) /\ outgoing # Nothing
      /\ Len(EncodeFields(fields)) <= PayloadLimit
  BY DEF WireInv
<1>2. PICK kind \in Kinds : \E m \in Messages[kind] :
        outgoing = [kind |-> kind, message |-> m] /\ Carries(kind, m, fields)
  BY <1>1 DEF WireInv
<1>3. PICK m \in Messages[kind] :
        outgoing = [kind |-> kind, message |-> m] /\ Carries(kind, m, fields)
  BY <1>2
<1>4. outgoing.kind = kind /\ outgoing.message = m
  BY <1>3
<1> QED
  BY <1>1, <1>3, <1>4, MessageDecoded

\* Every message that an encoder accepts is the same message after the decoder,
\* but for the blanks around optional strings, for all messages whose strings
\* fit into a field and all fields that other versions may add (the Encode and
\* Decode functions of eventwire.go and command_report_wire.go).
THEOREM PayloadsRoundTrip == WireFormSpec => []RoundTrip
<1>1. WireFormSpec => []WireInv
  BY WireStarts, WireStep, PTL DEF WireFormSpec
<1> QED
  BY <1>1, WireInvGivesRoundTrip, PTL
===============================================================================
