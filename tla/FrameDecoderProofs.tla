------------------------- MODULE FrameDecoderProofs -------------------------
(***************************************************************************)
(* The decoder is correct for every capacity, every byte radix, every      *)
(* usize and every stream, however the stream is cut; and it reads what    *)
(* the encoders write.                                                     *)
(***************************************************************************)
EXTENDS FrameDecoder, FrameChannel, SequenceTheorems, TLAPS

-----------------------------------------------------------------------------
(* Sequences *)

\* A byte sequence is a function on 1..Len, and has a first byte if not empty.
LEMMA SeqFacts ==
    ASSUME NEW s \in Seq(Bytes)
    PROVE  /\ Len(s) \in Nat
           /\ \A i \in 1 .. Len(s) : s[i] \in Bytes
           /\ s # <<>> <=> Len(s) > 0
  BY EmptySeq, ElementOfSeq, LenProperties

\* A slice of a byte sequence is a byte sequence of the expected length.
LEMMA SliceFacts ==
    ASSUME NEW s \in Seq(Bytes), NEW a \in Nat, NEW b \in Nat,
           a >= 1, b <= Len(s), a <= b + 1
    PROVE  /\ SubSeq(s, a, b) \in Seq(Bytes)
           /\ Len(SubSeq(s, a, b)) = b + 1 - a
           /\ \A i \in 1 .. b + 1 - a : SubSeq(s, a, b)[i] = s[a + i - 1]
  <1>1. Len(s) \in Nat
    BY SeqFacts
  <1>2. \A i \in a .. b : s[i] \in Bytes
    BY <1>1, SeqFacts
  <1> QED
    BY <1>1, <1>2, SubSeqProperties

\* The tail of a concatenation from a position within its first part.
LEMMA TailOfConcat ==
    ASSUME NEW q \in Seq(Bytes), NEW y \in Seq(Bytes),
           NEW m \in Nat, m >= 1, m <= Len(q) + 1
    PROVE  SubSeq(q \o y, m, Len(q \o y)) = SubSeq(q, m, Len(q)) \o y
  <1> DEFINE l == SubSeq(q \o y, m, Len(q \o y))
             z == SubSeq(q, m, Len(q))
             r == z \o y
  <1>1. /\ Len(q) \in Nat /\ Len(y) \in Nat
        /\ q \o y \in Seq(Bytes)
        /\ Len(q \o y) = Len(q) + Len(y)
        /\ \A i \in 1 .. Len(q) + Len(y) :
              (q \o y)[i] = IF i <= Len(q) THEN q[i] ELSE y[i - Len(q)]
    BY ConcatProperties, SeqFacts
  <1>2. /\ l \in Seq(Bytes)
        /\ Len(l) = Len(q) + Len(y) + 1 - m
        /\ \A i \in 1 .. Len(q) + Len(y) + 1 - m : l[i] = (q \o y)[m + i - 1]
    BY <1>1, SliceFacts
  <1>3. /\ z \in Seq(Bytes)
        /\ Len(z) = Len(q) + 1 - m
        /\ \A i \in 1 .. Len(q) + 1 - m : z[i] = q[m + i - 1]
    BY <1>1, SliceFacts
  <1> HIDE DEF z
  <1>4. /\ r \in Seq(Bytes)
        /\ Len(r) = Len(z) + Len(y)
        /\ \A i \in 1 .. Len(z) + Len(y) :
              r[i] = IF i <= Len(z) THEN z[i] ELSE y[i - Len(z)]
    BY <1>3, ConcatProperties
  <1> HIDE DEF l, r
  <1>5. \A i \in 1 .. Len(l) : l[i] = r[i]
    <2> SUFFICES ASSUME NEW i \in 1 .. Len(l) PROVE l[i] = r[i]
      OBVIOUS
    <2>1. i \in Nat /\ i >= 1 /\ i <= Len(q) + Len(y) + 1 - m
      BY <1>1, <1>2
    <2>2. CASE i <= Len(q) + 1 - m
      BY <2>1, <2>2, <1>1, <1>2, <1>3, <1>4
    <2>3. CASE i > Len(q) + 1 - m
      <3>1. l[i] = y[m + i - 1 - Len(q)]
        <4>1. l[i] = (q \o y)[m + i - 1]
          BY <2>1, <1>1, <1>2
        <4>2. m + i - 1 \in 1 .. Len(q) + Len(y) /\ ~(m + i - 1 <= Len(q))
          BY <2>1, <2>3, <1>1
        <4> QED
          BY <4>1, <4>2, <1>1
      <3>2. r[i] = y[i - (Len(q) + 1 - m)]
        <4>1. i \in 1 .. Len(z) + Len(y) /\ ~(i <= Len(z))
          BY <2>1, <2>3, <1>1, <1>3
        <4>2. r[i] = y[i - Len(z)]
          BY <1>4, <4>1
        <4> QED
          BY <1>3, <4>2
      <3>3. m + i - 1 - Len(q) = i - (Len(q) + 1 - m)
        BY <2>1, <1>1
      <3> QED
        BY <3>1, <3>2, <3>3
    <2> QED
      BY <2>1, <2>2, <2>3, <1>1
  <1>6. Len(l) = Len(r)
    BY <1>1, <1>2, <1>3, <1>4
  <1>7. l = r
    BY <1>2, <1>4, <1>5, <1>6, SeqEqual
  <1> QED
    BY <1>7 DEF l, r, z

\* A slice that lies within the first part of a concatenation.
LEMMA HeadOfConcat ==
    ASSUME NEW q \in Seq(Bytes), NEW y \in Seq(Bytes),
           NEW m \in Nat, NEW n \in Nat, m >= 1, m <= n, n <= Len(q)
    PROVE  SubSeq(q \o y, m, n) = SubSeq(q, m, n)
  BY SeqFacts, SubSeqOfConcat1

\* Concatenation of byte sequences is associative.
LEMMA BytesAssociative ==
    ASSUME NEW q \in Seq(Bytes), NEW a \in Seq(Bytes), NEW b \in Seq(Bytes)
    PROVE  (q \o a) \o b = q \o (a \o b)
  BY ConcatAssociative

-----------------------------------------------------------------------------
(* Numbers *)

\* The length the decoder computes is a natural number.
LEMMA BodyLenNat ==
    ASSUME NEW long \in BOOLEAN, NEW s \in Seq(Bytes), Len(s) = SizeNeeded(long)
    PROVE  BodyLen(long, s) \in Nat
  <1>1. \A a, b \in Nat : a * RADIX + b \in Nat
    BY FrameAssumption
  <1>2. \A i \in 1 .. Len(s) : s[i] \in Nat
    BY SeqFacts, FrameAssumption DEF Bytes
  <1>3. CASE long
    <2>1. Len(s) = 8
      BY <1>3 DEF SizeNeeded
    <2>2. /\ s[1] \in Nat /\ s[2] \in Nat /\ s[3] \in Nat /\ s[4] \in Nat
          /\ s[5] \in Nat /\ s[6] \in Nat /\ s[7] \in Nat /\ s[8] \in Nat
      BY <2>1, <1>2
    <2> DEFINE a2 == s[1] * RADIX + s[2]
               a3 == a2 * RADIX + s[3]
               a4 == a3 * RADIX + s[4]
               a5 == a4 * RADIX + s[5]
               a6 == a5 * RADIX + s[6]
               a7 == a6 * RADIX + s[7]
               a8 == a7 * RADIX + s[8]
    <2>3. FromBE(s) = a8
      BY DEF FromBE
    <2> HIDE DEF a8
    <2>4. a8 \in Nat
      <3> HIDE DEF a2, a3, a4, a5, a6, a7
      <3>2. a2 \in Nat
        BY <1>1, <2>2 DEF a2
      <3>3. a3 \in Nat
        BY <1>1, <2>2, <3>2 DEF a3
      <3>4. a4 \in Nat
        BY <1>1, <2>2, <3>3 DEF a4
      <3>5. a5 \in Nat
        BY <1>1, <2>2, <3>4 DEF a5
      <3>6. a6 \in Nat
        BY <1>1, <2>2, <3>5 DEF a6
      <3>7. a7 \in Nat
        BY <1>1, <2>2, <3>6 DEF a7
      <3> QED
        BY <1>1, <2>2, <3>7 DEF a8
    <2>5. FromBE(s) \in Nat /\ USIZE \in Nat /\ USIZE > 0
      BY <2>3, <2>4, FrameAssumption
    <2>6. FromBE(s) % USIZE \in Nat
      BY <2>5
    <2> QED
      BY <2>6, <1>3 DEF BodyLen
  <1>4. CASE ~long
    BY <1>2, <1>4 DEF SizeNeeded, BodyLen
  <1> QED
    BY <1>3, <1>4

-----------------------------------------------------------------------------
(* Headers *)

\* What the first byte of a frame determines does not depend on what follows.
LEMMA HeaderFacts ==
    ASSUME NEW p \in Seq(Bytes), p # <<>>
    PROVE  /\ LongBit(p[1]) \in BOOLEAN /\ MoreBit(p[1]) \in BOOLEAN
           /\ CommandBit(p[1]) \in BOOLEAN
           /\ SizeNeeded(LongBit(p[1])) \in {1, 8}
           /\ HeaderLen(p) \in {2, 9}
           /\ HeaderLen(p) = 1 + SizeNeeded(LongBit(p[1]))
  BY DEF LongBit, MoreBit, CommandBit, SizeNeeded, HeaderLen

\* The size field, once complete, gives a natural number.
LEMMA FrameLenNat ==
    ASSUME NEW p \in Seq(Bytes), p # <<>>, SizeKnown(p)
    PROVE  FrameLen(p) \in Nat
  <1>1. HeaderLen(p) \in {2, 9} /\ HeaderLen(p) <= Len(p) /\ Len(p) \in Nat
    BY HeaderFacts, SeqFacts DEF SizeKnown
  <1>2. /\ SizeField(p) \in Seq(Bytes)
        /\ Len(SizeField(p)) = HeaderLen(p) + 1 - 2
    BY <1>1, SliceFacts DEF SizeField
  <1>3. Len(SizeField(p)) = SizeNeeded(LongBit(p[1])) /\ LongBit(p[1]) \in BOOLEAN
    BY <1>1, <1>2, HeaderFacts
  <1> QED
    BY <1>2, <1>3, BodyLenNat DEF FrameLen

\* Bytes appended to a frame change neither its first byte nor, once that is
\* complete, its header.
LEMMA Extend ==
    ASSUME NEW q \in Seq(Bytes), NEW y \in Seq(Bytes), q # <<>>
    PROVE  /\ q \o y \in Seq(Bytes) /\ q \o y # <<>>
           /\ Len(q \o y) = Len(q) + Len(y)
           /\ (q \o y)[1] = q[1]
           /\ HeaderLen(q \o y) = HeaderLen(q)
           /\ SizeKnown(q) =>
                /\ SizeKnown(q \o y)
                /\ FrameLen(q \o y) = FrameLen(q)
                /\ SubSeq(q \o y, HeaderLen(q) + 1, Len(q \o y))
                     = SubSeq(q, HeaderLen(q) + 1, Len(q)) \o y
  <1>1. Len(q) \in Nat /\ Len(q) > 0 /\ Len(y) \in Nat
    BY SeqFacts
  <1>2. /\ q \o y \in Seq(Bytes) /\ Len(q \o y) = Len(q) + Len(y)
        /\ (q \o y)[1] = q[1]
    BY <1>1, ConcatProperties
  <1>3. q \o y # <<>>
    BY <1>1, <1>2, SeqFacts
  <1>4. HeaderLen(q \o y) = HeaderLen(q)
    BY <1>2 DEF HeaderLen
  <1>5. HeaderLen(q) \in {2, 9}
    BY HeaderFacts
  <1>6. ASSUME SizeKnown(q)
        PROVE  /\ SizeKnown(q \o y)
               /\ FrameLen(q \o y) = FrameLen(q)
               /\ SubSeq(q \o y, HeaderLen(q) + 1, Len(q \o y))
                    = SubSeq(q, HeaderLen(q) + 1, Len(q)) \o y
    <2>1. HeaderLen(q) <= Len(q)
      BY <1>6 DEF SizeKnown
    <2>2. SizeKnown(q \o y)
      BY <1>1, <1>2, <1>4, <1>5, <2>1 DEF SizeKnown
    <2>3. SubSeq(q \o y, 2, HeaderLen(q)) = SubSeq(q, 2, HeaderLen(q))
      BY <1>5, <2>1, HeadOfConcat
    <2>4. FrameLen(q \o y) = FrameLen(q)
      BY <2>3, <1>2, <1>4 DEF FrameLen, SizeField
    <2>5. HeaderLen(q) + 1 \in Nat /\ HeaderLen(q) + 1 >= 1
          /\ HeaderLen(q) + 1 <= Len(q) + 1
      BY <1>1, <1>5, <2>1
    <2> QED
      BY <2>2, <2>4, <2>5, TailOfConcat
  <1> QED
    BY <1>2, <1>3, <1>4, <1>6

-----------------------------------------------------------------------------
(* One call of feed *)

\* What a call must have done that was given x from position k on, in the
\* state of a decoder that has seen the bytes q of a frame.
Outcome(q, x, k, r) ==
    \/ /\ r.res = "None"
       /\ r.consumed = Len(x)
       /\ Partial(q \o SubSeq(x, k + 1, Len(x)))
       /\ r.dec = StateAfter(q \o SubSeq(x, k + 1, Len(x)))
       /\ r.frame = NoFrame
    \/ /\ r.res = "Some"
       /\ r.consumed \in k + 1 .. Len(x)
       /\ IsFrame(q \o SubSeq(x, k + 1, r.consumed))
       /\ r.dec = NewDecoder
       /\ r.frame = FrameOf(q \o SubSeq(x, k + 1, r.consumed))
    \/ /\ r.res \in {"ReservedFlagBits", "BodyTooLarge"}
       /\ r.consumed = 0
       /\ Invalid(q \o SubSeq(x, k + 1, Len(x)))
       /\ r.dec = Poisoned
       /\ r.frame = NoFrame

\* The NeedBody arm.
LEMMA FeedBodyOutcome ==
    ASSUME NEW q \in Seq(Bytes), q # <<>>, SizeKnown(q), Partial(q),
           NEW x \in Seq(Bytes), NEW k \in Nat, k < Len(x)
    PROVE  Outcome(q, x, k, FeedBody(StateAfter(q), x, k))
  <1> DEFINE d    == StateAfter(q)
             more == MoreBit(q[1])
             cmd  == CommandBit(q[1])
             rest == FrameLen(q) - (Len(q) - HeaderLen(q))
             got  == SubSeq(q, HeaderLen(q) + 1, Len(q))
             n    == AtMost(Len(x) - k, rest)
             y    == SubSeq(x, k + 1, k + n)
  <1>1. /\ Len(q) \in Nat /\ Len(q) > 0 /\ Len(x) \in Nat /\ FrameLen(q) \in Nat
        /\ HeaderLen(q) \in {2, 9} /\ HeaderLen(q) <= Len(q)
    BY SeqFacts, HeaderFacts, FrameLenNat DEF SizeKnown
  <1>2. d = NeedBody(more, cmd, rest, got)
    BY DEF StateAfter
  <1> HIDE DEF d, more, cmd, rest, got, n, y
  <1>3. d.remaining = rest /\ d.buf = got /\ d.more = more /\ d.is_command = cmd
    BY <1>2 DEF NeedBody
  <1>4. FrameLen(q) <= CAP /\ rest \in Nat /\ rest > 0 /\ ~BadFlags(q[1])
    BY <1>1, FrameAssumption DEF Partial, Invalid, rest
  <1>5. n \in Nat /\ n > 0 /\ n <= rest /\ k + n <= Len(x)
        /\ (n < rest => k + n = Len(x))
    BY <1>1, <1>4 DEF AtMost, n
  <1>6. y \in Seq(Bytes) /\ Len(y) = n
    BY <1>1, <1>5, SliceFacts DEF y
  <1>7. FeedBody(d, x, k) =
           IF n = rest THEN Complete(k + n, more, cmd, got \o y)
           ELSE Pending(NeedBody(more, cmd, rest - n, got \o y), k + n)
    BY <1>3 DEF FeedBody, n, y
  <1>8. /\ q \o y \in Seq(Bytes) /\ q \o y # <<>>
        /\ Len(q \o y) = Len(q) + n
        /\ (q \o y)[1] = q[1]
        /\ HeaderLen(q \o y) = HeaderLen(q)
        /\ SizeKnown(q \o y)
        /\ FrameLen(q \o y) = FrameLen(q)
        /\ SubSeq(q \o y, HeaderLen(q) + 1, Len(q \o y)) = got \o y
    BY <1>6, Extend DEF got
  <1>9. ~Invalid(q \o y)
    BY <1>1, <1>4, <1>8, FrameAssumption DEF Invalid
  <1>10. CASE n = rest
    <2>1. FeedBody(d, x, k) = Complete(k + n, more, cmd, got \o y)
      BY <1>7, <1>10
    <2>2. IsFrame(q \o y)
      <3>1. Len(q \o y) = HeaderLen(q \o y) + FrameLen(q \o y)
        BY <1>1, <1>8, <1>10 DEF rest
      <3> QED
        BY <1>8, <1>9, <3>1 DEF IsFrame
    <2>3. FrameOf(q \o y) = [more |-> more, is_command |-> cmd, body |-> got \o y]
      BY <1>8 DEF FrameOf, more, cmd
    <2>4. k + n \in k + 1 .. Len(x)
      BY <1>1, <1>5
    <2> QED
      BY <2>1, <2>2, <2>3, <2>4 DEF Outcome, Complete, d, y
  <1>11. CASE n # rest
    <2>1. k + n = Len(x)
      BY <1>1, <1>4, <1>5, <1>11
    <2>2. FeedBody(d, x, k) = Pending(NeedBody(more, cmd, rest - n, got \o y), k + n)
      BY <1>7, <1>11
    <2>3. Partial(q \o y)
      <3>1. n < rest
        BY <1>4, <1>5, <1>11
      <3>2. Len(q \o y) < HeaderLen(q \o y) + FrameLen(q \o y)
        BY <1>1, <1>5, <1>8, <3>1 DEF rest
      <3> QED
        BY <1>8, <1>9, <3>2 DEF Partial
    <2>4. FrameLen(q \o y) - (Len(q \o y) - HeaderLen(q \o y)) = rest - n
      <3>1. \A a, b, c, e \in Nat : a - ((b + e) - c) = (a - (b - c)) - e
        OBVIOUS
      <3>2. FrameLen(q) \in Nat /\ Len(q) \in Nat /\ HeaderLen(q) \in Nat
        BY <1>1
      <3> QED
        BY <1>5, <1>8, <3>1, <3>2 DEF rest
    <2>5. StateAfter(q \o y) = NeedBody(more, cmd, rest - n, got \o y)
      BY <1>8, <2>4 DEF StateAfter, more, cmd
    <2> QED
      BY <2>1, <2>2, <2>3, <2>5 DEF Outcome, Pending, d, y
  <1> QED
    BY <1>10, <1>11

\* The outcome of the rest of a call is the outcome of the call.
LEMMA OutcomeShift ==
    ASSUME NEW q \in Seq(Bytes), NEW x \in Seq(Bytes), NEW k \in Nat, NEW n \in Nat,
           k + n <= Len(x), NEW r,
           Outcome(q \o SubSeq(x, k + 1, k + n), x, k + n, r)
    PROVE  Outcome(q, x, k, r)
  <1>1. Len(x) \in Nat
    BY SeqFacts
  <1>2. ASSUME NEW j \in k + n .. Len(x)
        PROVE  (q \o SubSeq(x, k + 1, k + n)) \o SubSeq(x, k + n + 1, j)
                 = q \o SubSeq(x, k + 1, j)
    <2>1. /\ SubSeq(x, k + 1, k + n) \in Seq(Bytes)
          /\ SubSeq(x, k + n + 1, j) \in Seq(Bytes)
      BY <1>1, SliceFacts
    <2>2. SubSeq(x, k + 1, k + n) \o SubSeq(x, k + n + 1, j) = SubSeq(x, k + 1, j)
      <3>1. k + 1 \in 1 .. Len(x) + 1 /\ k + n \in (k + 1) - 1 .. Len(x)
        BY <1>1
      <3> QED
        BY <1>2, <3>1, ConcatAdjacentSubSeq
    <2> DEFINE a == SubSeq(x, k + 1, k + n)
               b == SubSeq(x, k + n + 1, j)
    <2> HIDE DEF a, b
    <2>3. a \in Seq(Bytes) /\ b \in Seq(Bytes)
      BY <2>1 DEF a, b
    <2>4. (q \o a) \o b = q \o (a \o b)
      BY <2>3, BytesAssociative
    <2> QED
      BY <2>2, <2>4 DEF a, b
  <1>3. Len(x) \in k + n .. Len(x)
    BY <1>1
  <1>4. ASSUME r.consumed \in k + n + 1 .. Len(x)
        PROVE  r.consumed \in k + n .. Len(x) /\ r.consumed \in k + 1 .. Len(x)
    BY <1>1, <1>4
  <1> QED
    BY <1>2, <1>3, <1>4 DEF Outcome

\* The NeedSize arm.
LEMMA FeedSizeOutcome ==
    ASSUME NEW q \in Seq(Bytes), q # <<>>, ~SizeKnown(q), Partial(q),
           NEW x \in Seq(Bytes), NEW k \in Nat, k < Len(x)
    PROVE  Outcome(q, x, k, FeedSize(StateAfter(q), x, k))
  <1> DEFINE d    == StateAfter(q)
             more == MoreBit(q[1])
             cmd  == CommandBit(q[1])
             long == LongBit(q[1])
             got  == SubSeq(q, 2, Len(q))
             need == SizeNeeded(long)
             n    == AtMost(Len(x) - k, need - Len(got))
             y    == SubSeq(x, k + 1, k + n)
             size == got \o y
             len  == BodyLen(long, size)
             q2   == q \o y
             r    == FeedSize(d, x, k)
  <1>1. /\ Len(q) \in Nat /\ Len(q) > 0 /\ Len(x) \in Nat
        /\ HeaderLen(q) \in {2, 9} /\ Len(q) < HeaderLen(q)
        /\ HeaderLen(q) = 1 + need /\ need \in {1, 8}
    BY SeqFacts, HeaderFacts DEF SizeKnown
  <1>2. d = NeedSize(more, cmd, long, got)
    BY DEF StateAfter
  <1>3. long \in BOOLEAN
    BY HeaderFacts
  <1> HIDE DEF d, more, cmd, long, got, need, n, y, size, len, q2, r
  <1>4. got \in Seq(Bytes) /\ Len(got) = Len(q) - 1
    <2>1. /\ 2 \in Nat /\ 2 >= 1 /\ 2 <= Len(q) + 1
          /\ Len(q) \in Nat /\ Len(q) <= Len(q)
      BY <1>1
    <2>2. SubSeq(q, 2, Len(q)) \in Seq(Bytes) /\ Len(SubSeq(q, 2, Len(q))) = Len(q) + 1 - 2
      BY <2>1, SliceFacts
    <2> QED
      BY <1>1, <2>2 DEF got
  <1>5. d.size = got /\ d.long = long /\ d.more = more /\ d.is_command = cmd
    BY <1>2 DEF NeedSize
  <1>7. /\ n \in Nat /\ n > 0 /\ k + n <= Len(x) /\ Len(q) + n <= HeaderLen(q)
        /\ Len(q) + n < HeaderLen(q) => k + n = Len(x)
    BY <1>1, <1>4 DEF AtMost, n
  <1>8. y \in Seq(Bytes) /\ Len(y) = n
    BY <1>1, <1>7, SliceFacts DEF y
  <1>9. size \in Seq(Bytes) /\ Len(size) = Len(q) - 1 + n
    BY <1>4, <1>8, ConcatProperties DEF size
  <1>10. r = IF Len(size) < need
             THEN Pending(NeedSize(more, cmd, long, size), k + n)
             ELSE IF len > CAP THEN DecodeError("BodyTooLarge")
             ELSE IF len = 0 THEN Complete(k + n, more, cmd, <<>>)
             ELSE IF k + n = Len(x) THEN Pending(NeedBody(more, cmd, len, <<>>), k + n)
             ELSE FeedBody(NeedBody(more, cmd, len, <<>>), x, k + n)
    BY <1>5 DEF FeedSize, TooLarge, r, n, y, size, len, need
  <1>11. /\ q2 \in Seq(Bytes) /\ q2 # <<>>
         /\ Len(q2) = Len(q) + n
         /\ q2[1] = q[1]
         /\ HeaderLen(q2) = HeaderLen(q)
    BY <1>8, Extend DEF q2
  <1>12. SubSeq(q2, 2, Len(q2)) = size
    <2>1. 2 \in Nat /\ 2 >= 1 /\ 2 <= Len(q) + 1
      BY <1>1
    <2> QED
      BY <2>1, <1>8, TailOfConcat DEF q2, size, got
  <1>13. ~BadFlags(q[1])
    BY DEF Partial, Invalid
  <1>14. CASE Len(size) < need
    <2>1. r = Pending(NeedSize(more, cmd, long, size), k + n)
      BY <1>10, <1>14
    <2>2. ~SizeKnown(q2) /\ k + n = Len(x)
      BY <1>1, <1>7, <1>9, <1>11, <1>14 DEF SizeKnown
    <2>3. Partial(q2)
      BY <1>11, <1>13, <2>2 DEF Partial, Invalid
    <2>4. StateAfter(q2) = NeedSize(more, cmd, long, size)
      BY <1>11, <1>12, <2>2 DEF StateAfter, more, cmd, long
    <2>5. Outcome(q, x, k, r)
      BY <2>1, <2>2, <2>3, <2>4 DEF Outcome, Pending, q2, y
    <2> QED
      BY <2>5 DEF r, d
  <1>15. CASE ~(Len(size) < need)
    <2>1. Len(q2) = HeaderLen(q2) /\ Len(size) = need
      BY <1>1, <1>7, <1>9, <1>11, <1>15
    <2>2. SizeKnown(q2)
      BY <1>1, <1>11, <2>1 DEF SizeKnown
    <2>3. FrameLen(q2) = len
      BY <1>11, <1>12, <2>1 DEF FrameLen, SizeField, len, long
    <2>4. len \in Nat
      BY <1>3, <1>9, <2>1, BodyLenNat DEF len, need
    <2>5. SubSeq(q2, HeaderLen(q2) + 1, Len(q2)) = <<>>
      BY <1>1, <1>11, <2>1, SubSeqEmpty
    <2>6. Invalid(q2) <=> len > CAP
      BY <1>11, <1>13, <2>2, <2>3 DEF Invalid
    <2>7. CASE len > CAP
      <3> DEFINE z == SubSeq(x, k + n + 1, Len(x))
      <3>1. z \in Seq(Bytes)
        BY <1>1, <1>7, SliceFacts
      <3>2. Invalid(q2 \o z)
        BY <1>11, <2>2, <2>3, <2>7, <3>1, Extend DEF Invalid
      <3>3. r = DecodeError("BodyTooLarge")
        BY <1>10, <1>15, <2>7
      <3>4. Outcome(q2, x, k + n, r)
        BY <3>2, <3>3 DEF Outcome, DecodeError
      <3> QED
        BY <1>7, <3>4, OutcomeShift DEF q2, y, r, d
    <2>8. CASE len = 0
      <3>1. r = Complete(k + n, more, cmd, <<>>)
        BY <1>10, <1>15, <2>8, FrameAssumption
      <3>2. ~Invalid(q2)
        BY <2>6, <2>8, FrameAssumption
      <3>3. IsFrame(q2)
        BY <1>1, <1>11, <2>1, <2>2, <2>3, <2>8, <3>2 DEF IsFrame
      <3>4. FrameOf(q2) = [more |-> more, is_command |-> cmd, body |-> <<>>]
        BY <1>11, <2>5 DEF FrameOf, more, cmd
      <3>5. k + n \in k + 1 .. Len(x)
        BY <1>1, <1>7
      <3>6. Outcome(q, x, k, r)
        BY <3>1, <3>3, <3>4, <3>5 DEF Outcome, Complete, q2, y
      <3> QED
        BY <3>6 DEF r, d
    <2>9. CASE len # 0 /\ ~(len > CAP)
      <3>1. Partial(q2)
        BY <1>1, <1>11, <2>1, <2>3, <2>4, <2>6, <2>9 DEF Partial
      <3>2. FrameLen(q2) - (Len(q2) - HeaderLen(q2)) = len
        BY <1>1, <1>11, <2>1, <2>3, <2>4
      <3>3. StateAfter(q2) = NeedBody(more, cmd, len, <<>>)
        BY <1>11, <2>2, <2>5, <3>2 DEF StateAfter, more, cmd
      <3>4. CASE k + n = Len(x)
        <4>1. r = Pending(NeedBody(more, cmd, len, <<>>), k + n)
          BY <1>10, <1>15, <2>9, <3>4
        <4>2. Outcome(q, x, k, r)
          BY <3>1, <3>3, <3>4, <4>1 DEF Outcome, Pending, q2, y
        <4> QED
          BY <4>2 DEF r, d
      <3>5. CASE k + n # Len(x)
        <4>1. r = FeedBody(StateAfter(q2), x, k + n)
          BY <1>10, <1>15, <2>9, <3>3, <3>5
        <4>2. k + n \in Nat /\ k + n < Len(x)
          BY <1>1, <1>7, <3>5
        <4>3. Outcome(q2, x, k + n, r)
          BY <1>11, <2>2, <3>1, <4>1, <4>2, FeedBodyOutcome
        <4> QED
          BY <1>7, <4>3, OutcomeShift DEF q2, y, r, d
      <3> QED
        BY <3>4, <3>5
    <2> QED
      BY <2>7, <2>8, <2>9
  <1> QED
    BY <1>14, <1>15

\* A decoder that has seen the bytes p of a frame and is given x has, after
\* feed, seen those of x that feed consumed: this is the whole of frame.rs'
\* contract, and no trace of where p ends and x begins is left in it.
LEMMA FeedOutcome ==
    ASSUME NEW p \in Seq(Bytes), NEW x \in Seq(Bytes), Partial(p)
    PROVE  Outcome(p, x, 0, Feed(StateAfter(p), x))
  <1> DEFINE r == Feed(StateAfter(p), x)
  <1>1. Len(x) \in Nat /\ Len(p) \in Nat
    BY SeqFacts
  <1>2. CASE x = <<>>
    <2>1. r = Pending(StateAfter(p), 0)
      BY <1>2 DEF Feed
    <2>2. Len(x) = 0
      BY <1>2
    <2>3. SubSeq(x, 0 + 1, Len(x)) = <<>>
      BY <2>2, SubSeqEmpty
    <2>4. p \o SubSeq(x, 0 + 1, Len(x)) = p
      BY <2>3, ConcatEmptySeq
    <2> HIDE DEF r
    <2>5. Outcome(p, x, 0, r)
      BY <2>1, <2>2, <2>4 DEF Outcome, Pending
    <2> QED
      BY <2>5 DEF r
  <1>3. CASE x # <<>> /\ p = <<>>
    <2>1. Len(x) > 0
      BY <1>3, SeqFacts
    <2>2. StateAfter(p) = NewDecoder /\ NewDecoder.st = "NeedFlags"
      BY <1>3 DEF StateAfter, NewDecoder
    <2>3. r = FeedFlags(x)
      BY <1>3, <2>2 DEF Feed
    <2>4. SubSeq(x, 0 + 1, Len(x)) = x /\ p \o x = x
      BY <1>3, SubSeqFull, ConcatEmptySeq
    <2> DEFINE b    == x[1]
               more == MoreBit(b)
               cmd  == CommandBit(b)
               long == LongBit(b)
    <2> HIDE DEF r
    <2>5. CASE BadFlags(b)
      <3>1. r = DecodeError("ReservedFlagBits")
        BY <2>3, <2>5 DEF FeedFlags
      <3>2. Invalid(x)
        BY <1>3, <2>5 DEF Invalid
      <3>3. Outcome(p, x, 0, r)
        BY <2>4, <3>1, <3>2 DEF Outcome, DecodeError
      <3> QED
        BY <3>3 DEF r
    <2>6. CASE ~BadFlags(b) /\ Len(x) = 1
      <3>1. r = Pending(NeedSize(more, cmd, long, <<>>), 1)
        BY <2>3, <2>6 DEF FeedFlags
      <3>2. ~SizeKnown(x)
        BY <1>3, <2>6, HeaderFacts DEF SizeKnown
      <3>3. Partial(x)
        BY <2>6, <3>2 DEF Partial, Invalid
      <3>4. SubSeq(x, 2, Len(x)) = <<>>
        BY <2>6, SubSeqEmpty
      <3>5. StateAfter(x) = NeedSize(more, cmd, long, <<>>)
        BY <1>3, <3>2, <3>4 DEF StateAfter
      <3> HIDE DEF more, cmd, long
      <3>6. Outcome(p, x, 0, r)
        BY <2>4, <2>6, <3>1, <3>3, <3>5 DEF Outcome, Pending
      <3> QED
        BY <3>6 DEF r
    <2>7. CASE ~BadFlags(b) /\ Len(x) # 1
      <3> DEFINE q == SubSeq(x, 1, 1)
      <3>1. q \in Seq(Bytes) /\ Len(q) = 1 /\ q[1] = b
        BY <1>1, <2>1, SliceFacts
      <3> HIDE DEF q
      <3>2. q # <<>>
        BY <3>1
      <3>3. ~SizeKnown(q)
        BY <3>1, <3>2, HeaderFacts DEF SizeKnown
      <3>4. Partial(q)
        BY <2>7, <3>1, <3>3 DEF Partial, Invalid
      <3>5. SubSeq(q, 2, Len(q)) = <<>>
        BY <3>1, SubSeqEmpty
      <3>6. StateAfter(q) = NeedSize(more, cmd, long, <<>>)
        BY <3>1, <3>2, <3>3, <3>5 DEF StateAfter
      <3>7. r = FeedSize(StateAfter(q), x, 1)
        BY <2>3, <2>7, <3>6 DEF FeedFlags
      <3>8. 1 < Len(x)
        <4>1. Len(x) # 1
          BY <2>7, Zenon
        <4>2. \A j \in Nat : j > 0 /\ j # 1 => 1 < j
          OBVIOUS
        <4>3. Len(x) \in Nat
          BY SeqFacts
        <4> QED
          BY <2>1, <4>1, <4>2, <4>3, Zenon
      <3>9. Outcome(q, x, 1, r)
        BY <3>1, <3>2, <3>3, <3>4, <3>7, <3>8, FeedSizeOutcome
      <3>10. p \o SubSeq(x, 0 + 1, 0 + 1) = q
        BY <1>3, <3>1, ConcatEmptySeq DEF q
      <3>11. Outcome(p \o SubSeq(x, 0 + 1, 0 + 1), x, 0 + 1, r)
        <4>1. 0 + 1 = 1
          OBVIOUS
        <4> QED
          BY <3>9, <3>10, <4>1, Zenon
      <3>12. 0 + 1 <= Len(x)
        BY <1>1, <3>8
      <3>13. Outcome(p, x, 0, r)
        BY <3>11, <3>12, OutcomeShift
      <3> QED
        BY <3>13 DEF r
    <2> QED
      BY <2>5, <2>6, <2>7
  <1>4. CASE x # <<>> /\ p # <<>> /\ ~SizeKnown(p)
    <2>1. StateAfter(p).st = "NeedSize"
      BY <1>4 DEF StateAfter, NeedSize
    <2>2. r = FeedSize(StateAfter(p), x, 0)
      BY <1>4, <2>1 DEF Feed
    <2>3. 0 < Len(x)
      BY <1>4, SeqFacts
    <2> QED
      BY <1>4, <2>2, <2>3, FeedSizeOutcome
  <1>5. CASE x # <<>> /\ p # <<>> /\ SizeKnown(p)
    <2>1. StateAfter(p).st = "NeedBody"
      BY <1>5 DEF StateAfter, NeedBody
    <2>2. r = FeedBody(StateAfter(p), x, 0)
      BY <1>5, <2>1 DEF Feed
    <2>3. 0 < Len(x)
      BY <1>5, SeqFacts
    <2> QED
      BY <1>5, <2>2, <2>3, FeedBodyOutcome
  <1> QED
    BY <1>2, <1>3, <1>4, <1>5

\* The state that stands for the beginning of a frame has its type, and what
\* it still expects fits what is left of the buffer.
LEMMA StateAfterType ==
    ASSUME NEW p \in Seq(Bytes), Partial(p)
    PROVE  /\ StateAfter(p) \in Decoders
           /\ StateAfter(p).st # "Poisoned"
           /\ Len(StateAfter(p).buf) + StateAfter(p).remaining <= CAP
           /\ Len(StateAfter(p).size) < 8
  <1>1. Len(p) \in Nat
    BY SeqFacts
  <1>2. CASE p = <<>>
    BY <1>2, FrameAssumption DEF StateAfter, NewDecoder, Decoders
  <1>3. CASE p # <<>> /\ ~SizeKnown(p)
    <2> DEFINE more == MoreBit(p[1])
               cmd  == CommandBit(p[1])
               long == LongBit(p[1])
               size == SubSeq(p, 2, Len(p))
    <2>1. StateAfter(p) = NeedSize(more, cmd, long, size)
      BY <1>3 DEF StateAfter
    <2>2. more \in BOOLEAN /\ cmd \in BOOLEAN /\ long \in BOOLEAN
      BY <1>3, HeaderFacts
    <2>3. Len(p) > 0 /\ HeaderLen(p) \in {2, 9} /\ Len(p) < HeaderLen(p)
      BY <1>1, <1>3, SeqFacts, HeaderFacts DEF SizeKnown
    <2>4. size \in Seq(Bytes) /\ Len(size) = Len(p) + 1 - 2
      <3>1. 2 \in Nat /\ 2 >= 1 /\ 2 <= Len(p) + 1 /\ Len(p) <= Len(p)
        BY <1>1, <2>3
      <3> QED
        BY <1>1, <3>1, SliceFacts
    <2> HIDE DEF more, cmd, long, size
    <2>5. Len(size) < 8
      BY <1>1, <2>3, <2>4
    <2> QED
      BY <2>1, <2>2, <2>4, <2>5, FrameAssumption DEF NeedSize, Decoders
  <1>4. CASE p # <<>> /\ SizeKnown(p)
    <2> DEFINE more == MoreBit(p[1])
               cmd  == CommandBit(p[1])
               rest == FrameLen(p) - (Len(p) - HeaderLen(p))
               buf  == SubSeq(p, HeaderLen(p) + 1, Len(p))
    <2>1. StateAfter(p) = NeedBody(more, cmd, rest, buf)
      BY <1>4 DEF StateAfter
    <2>2. more \in BOOLEAN /\ cmd \in BOOLEAN
      BY <1>4, HeaderFacts
    <2>3. /\ FrameLen(p) \in Nat /\ HeaderLen(p) \in {2, 9} /\ HeaderLen(p) <= Len(p)
      BY <1>4, HeaderFacts, FrameLenNat DEF SizeKnown
    <2>4. /\ HeaderLen(p) + 1 \in Nat /\ HeaderLen(p) + 1 >= 1
          /\ HeaderLen(p) + 1 <= Len(p) + 1 /\ Len(p) <= Len(p)
      BY <1>1, <2>3
    <2>5. buf \in Seq(Bytes) /\ Len(buf) = Len(p) + 1 - (HeaderLen(p) + 1)
      BY <1>1, <2>4, SliceFacts
    <2>6. FrameLen(p) <= CAP /\ Len(p) < HeaderLen(p) + FrameLen(p)
      BY <1>4, <2>3, FrameAssumption DEF Partial, Invalid
    <2>7. rest \in Nat /\ Len(buf) + rest <= CAP
      BY <1>1, <2>3, <2>5, <2>6, FrameAssumption
    <2> HIDE DEF more, cmd, rest, buf
    <2> QED
      BY <2>1, <2>2, <2>5, <2>7 DEF NeedBody, Decoders
  <1> QED
    BY <1>2, <1>3, <1>4

\* What was seen of a stream, and j more bytes out of the chunk that follows.
LEMMA GrowSlice ==
    ASSUME NEW w \in Seq(Bytes), NEW s \in Nat, NEW p \in Nat, NEW n \in Nat,
           s <= p, p + n <= Len(w), NEW j \in 0 .. n
    PROVE  SubSeq(w, s + 1, p) \o SubSeq(SubSeq(w, p + 1, p + n), 0 + 1, j)
             = SubSeq(w, s + 1, p + j)
  <1> DEFINE x == SubSeq(w, p + 1, p + n)
             l == SubSeq(x, 1, j)
             r == SubSeq(w, p + 1, p + j)
  <1>1. Len(w) \in Nat /\ j \in Nat /\ j <= n
    BY SeqFacts
  <1>2. /\ x \in Seq(Bytes) /\ Len(x) = n
        /\ \A i \in 1 .. n : x[i] = w[p + i]
    BY <1>1, SliceFacts
  <1>3. /\ r \in Seq(Bytes) /\ Len(r) = j
        /\ \A i \in 1 .. j : r[i] = w[p + i]
    BY <1>1, SliceFacts
  <1> HIDE DEF x, r
  <1>4. /\ l \in Seq(Bytes) /\ Len(l) = j
        /\ \A i \in 1 .. j : l[i] = x[i]
    BY <1>1, <1>2, SliceFacts
  <1> HIDE DEF l
  <1>5. l = r
    <2>1. ASSUME NEW i \in 1 .. Len(l) PROVE l[i] = r[i]
      <3>1. i \in 1 .. j /\ i \in 1 .. n
        BY <1>1, <1>4
      <3> QED
        BY <1>2, <1>3, <1>4, <3>1, Zenon
    <2> QED
      BY <1>3, <1>4, <2>1, SeqEqual
  <1>6. SubSeq(w, s + 1, p) \o SubSeq(w, p + 1, p + j) = SubSeq(w, s + 1, p + j)
    <2>1. /\ s + 1 \in 1 .. Len(w) + 1 /\ p \in (s + 1) - 1 .. Len(w)
          /\ p + j \in p .. Len(w)
      BY <1>1
    <2> QED
      BY <2>1, ConcatAdjacentSubSeq
  <1> QED
    BY <1>5, <1>6 DEF l, r, x

-----------------------------------------------------------------------------
(* The specification *)

\* The conjunction is inductive: its parts need one another, as what feed
\* does is known only in the states that ChunkingInvisible describes.
IInv ==
    /\ TypeOK
    /\ ChunkingInvisible
    /\ PoisonedByInvalid
    /\ FrameFaithful
    /\ NoneConsumesAll

\* A new decoder has seen nothing.
LEMMA InitIInv == Init => IInv
  <1> SUFFICES ASSUME Init PROVE IInv
    OBVIOUS
  <1>1. wire \in Seq(Bytes) /\ Len(wire) \in Nat
    BY WiresAssumption, SeqFacts DEF Init
  <1>2. Seen = <<>>
    BY SubSeqEmpty DEF Init, Seen
  <1>3. Partial(<<>>) /\ StateAfter(<<>>) = NewDecoder
    BY DEF Partial, Invalid, StateAfter
  <1>4. NewDecoder.st = "NeedFlags"
    BY DEF NewDecoder
  <1>5. <<>> \in Seq(Bytes)
    OBVIOUS
  <1>6. /\ NewDecoder \in Decoders
        /\ Len(NewDecoder.buf) + NewDecoder.remaining <= CAP
        /\ Len(NewDecoder.size) < 8
    BY <1>3, <1>5, StateAfterType
  <1>7. NoFrame \in Frames
    BY <1>5 DEF NoFrame, Frames
  <1>8. TypeOK
    BY <1>1, <1>6, <1>7 DEF TypeOK, Init, Results
  <1>9. ChunkingInvisible
    BY <1>2, <1>3 DEF ChunkingInvisible, Init
  <1>10. PoisonedByInvalid /\ FrameFaithful /\ NoneConsumesAll
    BY <1>4 DEF PoisonedByInvalid, FrameFaithful, NoneConsumesAll, Init
  <1> QED
    BY <1>8, <1>9, <1>10 DEF IInv

\* FrameDecoder::reset starts a new frame where the stream stands.
LEMMA ResetIInv ==
    ASSUME IInv, Reset
    PROVE  IInv'
  <1>1. /\ wire \in Seq(Bytes) /\ Len(wire) \in Nat
        /\ pos \in Nat /\ pos <= Len(wire)
    BY SeqFacts DEF IInv, TypeOK
  <1>2. /\ wire' = wire /\ pos' = pos /\ start' = pos /\ offered' = pos
        /\ dec' = NewDecoder
        /\ out' = [res |-> "None", frame |-> NoFrame, start |-> pos]
    BY DEF Reset
  <1>3. Seen' = <<>>
    BY <1>1, <1>2, SubSeqEmpty DEF Seen
  <1>4. Partial(<<>>) /\ StateAfter(<<>>) = NewDecoder /\ <<>> \in Seq(Bytes)
    BY DEF Partial, Invalid, StateAfter
  <1>5. /\ NewDecoder \in Decoders
        /\ NewDecoder.st # "Poisoned"
        /\ Len(NewDecoder.buf) + NewDecoder.remaining <= CAP
        /\ Len(NewDecoder.size) < 8
    BY <1>4, StateAfterType
  <1>6. NoFrame \in Frames
    BY <1>4 DEF NoFrame, Frames
  <1>7. out'.res = "None" /\ out'.frame = NoFrame /\ out'.start = pos
    BY <1>2
  <1>8. TypeOK'
    BY <1>1, <1>2, <1>5, <1>6, <1>7 DEF TypeOK, Results
  <1>9. ChunkingInvisible'
    BY <1>2, <1>3, <1>4 DEF ChunkingInvisible
  <1>10. PoisonedByInvalid' /\ FrameFaithful' /\ NoneConsumesAll'
    BY <1>2, <1>5, <1>7 DEF PoisonedByInvalid, FrameFaithful, NoneConsumesAll
  <1> QED
    BY <1>8, <1>9, <1>10 DEF IInv

\* A call of feed, by the contract of FeedOutcome with what was seen so far.
LEMMA FeedChunkIInv ==
    ASSUME IInv, NEW n, FeedChunk(n)
    PROVE  IInv'
  <1> DEFINE x == SubSeq(wire, pos + 1, pos + n)
             r == Feed(dec, x)
             p == Seen
  <1>1. /\ wire \in Seq(Bytes) /\ Len(wire) \in Nat
        /\ pos \in Nat /\ pos <= Len(wire)
        /\ start \in Nat /\ start <= pos
    BY SeqFacts DEF IInv, TypeOK
  <1>2. n \in Nat /\ pos + n <= Len(wire)
    BY <1>1 DEF FeedChunk
  <1>3. /\ dec' = r.dec /\ pos' = pos + r.consumed
        /\ start' = (IF r.res = "Some" THEN pos + r.consumed ELSE start)
        /\ offered' = pos + n /\ wire' = wire
        /\ out' = [res |-> r.res, frame |-> r.frame, start |-> start]
    BY DEF FeedChunk
  <1>4. /\ out'.res = r.res /\ out'.frame = r.frame /\ out'.start = start
    BY <1>3
  <1>5. x \in Seq(Bytes) /\ Len(x) = n
    <2>1. /\ pos + 1 \in Nat /\ pos + 1 >= 1 /\ pos + n \in Nat
          /\ pos + 1 <= (pos + n) + 1 /\ (pos + n) + 1 - (pos + 1) = n
      BY <1>1, <1>2
    <2>2. /\ SubSeq(wire, pos + 1, pos + n) \in Seq(Bytes)
          /\ Len(SubSeq(wire, pos + 1, pos + n)) = (pos + n) + 1 - (pos + 1)
      BY <1>1, <1>2, <2>1, SliceFacts
    <2> QED
      BY <2>1, <2>2
  <1>6. p \in Seq(Bytes)
    BY <1>1, SliceFacts DEF Seen
  <1>7. NoFrame \in Frames
    BY DEF NoFrame, Frames
  <1>8. ASSUME NEW j \in 0 .. n
        PROVE  p \o SubSeq(x, 0 + 1, j) = SubSeq(wire, start + 1, pos + j)
    BY <1>1, <1>2, GrowSlice DEF Seen
  <1> HIDE DEF x, r, p
  <1>8a. p \o SubSeq(x, 0 + 1, n) = SubSeq(wire, start + 1, pos + n)
    <2>1. n \in 0 .. n
      BY <1>2
    <2> QED
      BY <1>8, <2>1
  <1>9. CASE dec.st = "Poisoned"
    <2>1. \/ r = Pending(dec, 0) /\ n = 0
          \/ r = DecodeError("ReservedFlagBits")
      BY <1>2, <1>5, <1>9, SeqFacts DEF Feed, r
    <2>2. /\ r.consumed = 0 /\ r.frame = NoFrame /\ r.dec.st = "Poisoned"
          /\ r.dec \in {dec, Poisoned}
          /\ r.res \in {"None", "ReservedFlagBits"}
          /\ r.res = "None" => n = 0
      BY <1>9, <2>1 DEF Pending, DecodeError, Poisoned
    <2>3. Poisoned \in Decoders /\ Len(Poisoned.buf) + Poisoned.remaining <= CAP
          /\ Len(Poisoned.size) < 8
      BY FrameAssumption DEF Poisoned, Decoders
    <2>4. /\ dec \in Decoders /\ Len(dec.buf) + dec.remaining <= CAP
          /\ Len(dec.size) < 8
      BY DEF IInv, TypeOK
    <2>5. pos' = pos /\ start' = start /\ dec'.st = "Poisoned"
      BY <1>1, <1>3, <2>2
    <2>6. TypeOK'
      <3>1. /\ dec' \in Decoders /\ Len(dec'.buf) + dec'.remaining <= CAP
            /\ Len(dec'.size) < 8
        BY <1>3, <2>2, <2>3, <2>4, Zenon
      <3>2. pos' \in 0 .. Len(wire') /\ start' \in 0 .. pos' /\ offered' \in pos' .. Len(wire')
        BY <1>1, <1>2, <1>3, <2>5
      <3>3. out'.res \in Results /\ out'.frame \in Frames
        BY <1>4, <1>7, <2>2 DEF Results
      <3>4. out'.start \in 0 .. pos'
        BY <1>1, <1>4, <2>5
      <3>5. wire' \in Seq(Bytes)
        BY <1>1, <1>3
      <3> QED
        BY <3>1, <3>2, <3>3, <3>4, <3>5 DEF TypeOK
    <2>7. ChunkingInvisible' /\ FrameFaithful'
      BY <1>4, <2>2, <2>5 DEF ChunkingInvisible, FrameFaithful
    <2>8. PoisonedByInvalid'
      BY <1>3, <1>9, <2>5 DEF PoisonedByInvalid, IInv
    <2>9. NoneConsumesAll'
      BY <1>1, <1>2, <1>3, <1>4, <2>2, <2>5 DEF NoneConsumesAll
    <2> QED
      BY <2>6, <2>7, <2>8, <2>9 DEF IInv
  <1>10. CASE dec.st # "Poisoned"
    <2>1. Partial(p) /\ dec = StateAfter(p)
      BY <1>10 DEF IInv, ChunkingInvisible, p
    <2>2. Outcome(p, x, 0, r)
      BY <1>5, <1>6, <2>1, FeedOutcome DEF r
    <2>3. CASE r.res = "None"
      <3>1. /\ r.consumed = n /\ r.frame = NoFrame
            /\ Partial(p \o SubSeq(x, 0 + 1, n))
            /\ r.dec = StateAfter(p \o SubSeq(x, 0 + 1, n))
        BY <1>5, <2>2, <2>3 DEF Outcome
      <3> DEFINE q == SubSeq(wire, start + 1, pos + n)
      <3>2. Partial(q) /\ r.dec = StateAfter(q)
        BY <1>8a, <3>1, Zenon
      <3>3. q \in Seq(Bytes)
        BY <1>1, <1>2, SliceFacts
      <3>4. Seen' = q
        BY <1>1, <1>3, <2>3, <3>1 DEF Seen
      <3> HIDE DEF q
      <3>5. /\ r.dec \in Decoders /\ r.dec.st # "Poisoned"
            /\ Len(r.dec.buf) + r.dec.remaining <= CAP /\ Len(r.dec.size) < 8
        BY <3>2, <3>3, StateAfterType
      <3>6. TypeOK'
        BY <1>1, <1>2, <1>3, <1>4, <1>7, <2>3, <3>1, <3>5 DEF TypeOK, Results
      <3>7. ChunkingInvisible'
        BY <1>3, <3>2, <3>4 DEF ChunkingInvisible
      <3>8. PoisonedByInvalid' /\ FrameFaithful' /\ NoneConsumesAll'
        BY <1>3, <1>4, <2>3, <3>1, <3>5
           DEF PoisonedByInvalid, FrameFaithful, NoneConsumesAll
      <3> QED
        BY <3>6, <3>7, <3>8 DEF IInv
    <2>4. CASE r.res = "Some"
      <3> DEFINE c == r.consumed
                 q == SubSeq(wire, start + 1, pos + c)
      <3>1. /\ c \in 0 + 1 .. n /\ r.dec = NewDecoder
            /\ IsFrame(p \o SubSeq(x, 0 + 1, c))
            /\ r.frame = FrameOf(p \o SubSeq(x, 0 + 1, c))
        BY <1>5, <2>2, <2>4 DEF Outcome
      <3>2. c \in Nat /\ c \in 0 .. n
        BY <1>2, <3>1
      <3>3. IsFrame(q) /\ r.frame = FrameOf(q)
        BY <1>8, <3>1, <3>2
      <3>4. q \in Seq(Bytes)
        BY <1>1, <1>2, <3>2, SliceFacts
      <3>5. pos' = pos + c /\ start' = pos + c
        BY <1>3, <2>4
      <3>6. LastFrame' = q
        BY <1>3, <1>4, <3>5 DEF LastFrame
      <3>7. Seen' = <<>>
        BY <1>1, <3>2, <3>5, SubSeqEmpty DEF Seen
      <3> HIDE DEF c, q
      <3>8. FrameOf(q) \in Frames
        <4>1. q # <<>> /\ SizeKnown(q)
          BY <3>3 DEF IsFrame
        <4>2. Len(q) \in Nat /\ HeaderLen(q) \in {2, 9} /\ HeaderLen(q) <= Len(q)
          BY <3>4, <4>1, SeqFacts, HeaderFacts DEF SizeKnown
        <4>3. /\ HeaderLen(q) + 1 \in Nat /\ HeaderLen(q) + 1 >= 1
              /\ HeaderLen(q) + 1 <= Len(q) + 1 /\ Len(q) <= Len(q)
          BY <4>2
        <4>4. SubSeq(q, HeaderLen(q) + 1, Len(q)) \in Seq(Bytes)
          BY <3>4, <4>2, <4>3, SliceFacts
        <4>5. MoreBit(q[1]) \in BOOLEAN /\ CommandBit(q[1]) \in BOOLEAN
          BY <3>4, <4>1, HeaderFacts
        <4> QED
          BY <4>4, <4>5 DEF FrameOf, Frames
      <3>9. Partial(<<>>) /\ StateAfter(<<>>) = NewDecoder /\ <<>> \in Seq(Bytes)
        BY DEF Partial, Invalid, StateAfter
      <3>10. /\ NewDecoder \in Decoders /\ NewDecoder.st # "Poisoned"
             /\ Len(NewDecoder.buf) + NewDecoder.remaining <= CAP
             /\ Len(NewDecoder.size) < 8
        BY <3>9, StateAfterType
      <3>11. TypeOK'
        BY <1>1, <1>2, <1>3, <1>4, <2>4, <3>1, <3>2, <3>3, <3>5, <3>8, <3>10
           DEF TypeOK, Results
      <3>12. ChunkingInvisible'
        BY <1>3, <3>1, <3>7, <3>9 DEF ChunkingInvisible
      <3>13. PoisonedByInvalid'
        BY <1>3, <3>1, <3>10 DEF PoisonedByInvalid
      <3>14. FrameFaithful' /\ NoneConsumesAll'
        BY <1>4, <2>4, <3>3, <3>5, <3>6 DEF FrameFaithful, NoneConsumesAll
      <3> QED
        BY <3>11, <3>12, <3>13, <3>14 DEF IInv
    <2>5. CASE r.res \in {"ReservedFlagBits", "BodyTooLarge"}
      <3>1. /\ r.consumed = 0 /\ r.frame = NoFrame /\ r.dec = Poisoned
            /\ Invalid(p \o SubSeq(x, 0 + 1, n))
        BY <1>5, <2>2, <2>5 DEF Outcome
      <3>2. Invalid(SubSeq(wire, start + 1, pos + n))
        BY <1>8a, <3>1, Zenon
      <3>3. pos + n \in pos .. Len(wire)
        BY <1>1, <1>2
      <3>4. pos' = pos /\ start' = start /\ r.res # "None" /\ r.res # "Some"
        BY <1>1, <1>3, <2>5, <3>1
      <3>5. /\ Poisoned \in Decoders /\ Len(Poisoned.buf) + Poisoned.remaining <= CAP
            /\ Len(Poisoned.size) < 8 /\ Poisoned.st = "Poisoned"
        BY FrameAssumption DEF Poisoned, Decoders
      <3>6. TypeOK'
        BY <1>1, <1>2, <1>3, <1>4, <1>7, <2>5, <3>1, <3>4, <3>5 DEF TypeOK, Results
      <3>7. ChunkingInvisible' /\ FrameFaithful' /\ NoneConsumesAll'
        BY <1>3, <1>4, <3>1, <3>4, <3>5
           DEF ChunkingInvisible, FrameFaithful, NoneConsumesAll
      <3>8. PoisonedByInvalid'
        BY <1>3, <3>2, <3>3, <3>4 DEF PoisonedByInvalid
      <3> QED
        BY <3>6, <3>7, <3>8 DEF IInv
    <2> QED
      BY <2>2, <2>3, <2>4, <2>5 DEF Outcome
  <1> QED
    BY <1>9, <1>10

\* The invariant of the decoder, for every stream and every way to cut it.
THEOREM Invariance == Spec => []IInv
  <1>1. IInv /\ [Next]_vars => IInv'
    <2> SUFFICES ASSUME IInv, [Next]_vars PROVE IInv'
      OBVIOUS
    <2>1. CASE Reset
      BY <2>1, ResetIInv
    <2>2. ASSUME NEW n \in 0 .. Len(wire) - pos, FeedChunk(n) PROVE IInv'
      BY <2>2, FeedChunkIInv
    <2>3. CASE UNCHANGED vars
      BY <2>3 DEF IInv, TypeOK, ChunkingInvisible, PoisonedByInvalid, FrameFaithful,
                  NoneConsumesAll, Seen, LastFrame, vars
    <2> QED
      BY <2>1, <2>2, <2>3 DEF Next
  <1> QED
    BY InitIInv, <1>1, PTL DEF Spec

\* Every variable keeps its type, and no write to the body buffer is ever out
\* of its bounds (frame.rs, NeedBody: copy_from_slice into buf).
THEOREM TypeCorrect == Spec => []TypeOK
  BY Invariance, PTL DEF IInv

\* The decoder's state is a function of the bytes of the current frame: the
\* calls that brought them leave no trace.
THEOREM ChunkingCorrect == Spec => []ChunkingInvisible
  BY Invariance, PTL DEF IInv

\* The decoder reports an error only when the stream holds an invalid frame.
THEOREM PoisonCorrect == Spec => []PoisonedByInvalid
  BY Invariance, PTL DEF IInv

\* Every frame delivered is the frame on the wire.
THEOREM FrameCorrect == Spec => []FrameFaithful
  BY Invariance, PTL DEF IInv

\* When feed asks for more, it has consumed all that it was given.
THEOREM NoneCorrect == Spec => []NoneConsumesAll
  BY Invariance, PTL DEF IInv

-----------------------------------------------------------------------------
(* usize as wide as the size field *)

\* The number of values of the eight size bytes: 2^64 in the code.
U64 == RADIX * RADIX * RADIX * RADIX * RADIX * RADIX * RADIX * RADIX

\* Appending a byte to a number of a digits leaves a number of a + 1 digits.
LEMMA DigitBound ==
    ASSUME NEW a \in Nat, NEW m \in Nat, a < m, NEW b \in Bytes
    PROVE  a * RADIX + b \in Nat /\ a * RADIX + b < m * RADIX
  <1>1. RADIX \in Nat /\ b \in Nat /\ b < RADIX
    BY FrameAssumption DEF Bytes
  <1>2. (a + 1) * RADIX <= m * RADIX
    BY <1>1
  <1>3. (a + 1) * RADIX = a * RADIX + RADIX
    BY <1>1
  <1>4. a * RADIX \in Nat /\ m * RADIX \in Nat
    BY <1>1
  <1> QED
    BY <1>1, <1>2, <1>3, <1>4

\* from_be_bytes stays below 2^64, so that a 64-bit usize holds it.
LEMMA FromBEBound ==
    ASSUME NEW s \in Seq(Bytes), Len(s) = 8
    PROVE  FromBE(s) \in Nat /\ FromBE(s) < U64
  <1>1. /\ s[1] \in Bytes /\ s[2] \in Bytes /\ s[3] \in Bytes /\ s[4] \in Bytes
        /\ s[5] \in Bytes /\ s[6] \in Bytes /\ s[7] \in Bytes /\ s[8] \in Bytes
    <2>1. \A i \in 1 .. 8 : s[i] \in Bytes
      BY SeqFacts
    <2> QED
      BY <2>1
  <1> DEFINE m1 == RADIX     m2 == m1 * RADIX  m3 == m2 * RADIX  m4 == m3 * RADIX
             m5 == m4 * RADIX  m6 == m5 * RADIX  m7 == m6 * RADIX  m8 == m7 * RADIX
             a1 == s[1]
             a2 == a1 * RADIX + s[2]
             a3 == a2 * RADIX + s[3]
             a4 == a3 * RADIX + s[4]
             a5 == a4 * RADIX + s[5]
             a6 == a5 * RADIX + s[6]
             a7 == a6 * RADIX + s[7]
             a8 == a7 * RADIX + s[8]
  <1>2. FromBE(s) = a8 /\ U64 = m8
    BY DEF FromBE, U64
  <1> HIDE DEF a8, m8
  <1>3. \A m \in Nat : m * RADIX \in Nat
    BY FrameAssumption
  <1> HIDE DEF a1, a2, a3, a4, a5, a6, a7, m1, m2, m3, m4, m5, m6, m7
  <1>4. a1 \in Nat /\ m1 \in Nat /\ a1 < m1
    <2>1. \A b \in Bytes : b \in Nat /\ b < RADIX
      BY FrameAssumption DEF Bytes
    <2>2. s[1] \in Nat /\ s[1] < RADIX
      BY <1>1, <2>1
    <2>3. RADIX \in Nat
      BY FrameAssumption
    <2> QED
      BY <2>2, <2>3, Zenon DEF a1, m1
  <1>5. a2 \in Nat /\ m2 \in Nat /\ a2 < m2
    BY <1>1, <1>3, <1>4, DigitBound DEF a2, m2
  <1>6. a3 \in Nat /\ m3 \in Nat /\ a3 < m3
    BY <1>1, <1>3, <1>5, DigitBound DEF a3, m3
  <1>7. a4 \in Nat /\ m4 \in Nat /\ a4 < m4
    BY <1>1, <1>3, <1>6, DigitBound DEF a4, m4
  <1>8. a5 \in Nat /\ m5 \in Nat /\ a5 < m5
    BY <1>1, <1>3, <1>7, DigitBound DEF a5, m5
  <1>9. a6 \in Nat /\ m6 \in Nat /\ a6 < m6
    BY <1>1, <1>3, <1>8, DigitBound DEF a6, m6
  <1>10. a7 \in Nat /\ m7 \in Nat /\ a7 < m7
    BY <1>1, <1>3, <1>9, DigitBound DEF a7, m7
  <1>11. a8 \in Nat /\ m8 \in Nat /\ a8 < m8
    BY <1>1, <1>3, <1>10, DigitBound DEF a8, m8
  <1> QED
    BY <1>2, <1>11

\* On a 64-bit target no frame is delivered that announced more than CAP
\* bytes.  With a narrower usize this is false: see the README.
THEOREM OversizeCorrect ==
    ASSUME USIZE >= U64
    PROVE  Spec => []OversizeRejected
  <1>1. IInv => OversizeRejected
    <2> SUFFICES ASSUME IInv, out.res = "Some"
                 PROVE  Announced(LongBit(LastFrame[1]), SizeField(LastFrame)) <= CAP
      BY DEF OversizeRejected
    <2> DEFINE p == LastFrame
               s == SizeField(p)
               long == LongBit(p[1])
    <2>1. p \in Seq(Bytes)
      <3>1. /\ wire \in Seq(Bytes) /\ Len(wire) \in Nat /\ pos \in Nat
            /\ pos <= Len(wire) /\ out.start \in Nat /\ out.start <= pos
        BY SeqFacts DEF IInv, TypeOK
      <3> QED
        BY <3>1, SliceFacts DEF LastFrame
    <2>2. IsFrame(p)
      BY DEF IInv, FrameFaithful
    <2> HIDE DEF p
    <2>3. p # <<>> /\ SizeKnown(p) /\ ~Invalid(p)
      BY <2>2 DEF IsFrame
    <2>4. FrameLen(p) \in Nat /\ FrameLen(p) <= CAP
      BY <2>1, <2>3, FrameLenNat, FrameAssumption DEF Invalid
    <2>5. /\ Len(p) \in Nat /\ HeaderLen(p) \in {2, 9} /\ HeaderLen(p) <= Len(p)
          /\ HeaderLen(p) = 1 + SizeNeeded(LongBit(p[1]))
      BY <2>1, <2>3, SeqFacts, HeaderFacts DEF SizeKnown
    <2>6. s \in Seq(Bytes) /\ Len(s) = HeaderLen(p) + 1 - 2
      BY <2>1, <2>5, SliceFacts DEF SizeField
    <2>7. FrameLen(p) = BodyLen(long, s)
      BY DEF FrameLen
    <2> HIDE DEF s, long
    <2>8. CASE long
      <3>1. Len(s) = 8
        BY <2>5, <2>6, <2>8 DEF SizeNeeded, long
      <3>2. FromBE(s) \in Nat /\ FromBE(s) < U64
        BY <2>6, <3>1, FromBEBound
      <3>3. U64 \in Nat
        BY FrameAssumption DEF U64
      <3>4. FromBE(s) % USIZE = FromBE(s)
        BY <3>2, <3>3, FrameAssumption
      <3>5. Announced(long, s) = FrameLen(p)
        BY <2>7, <2>8, <3>4 DEF Announced, BodyLen
      <3> QED
        BY <2>4, <3>5 DEF s, long, p
    <2>9. CASE ~long
      BY <2>4, <2>7, <2>9 DEF Announced, BodyLen, s, long, p
    <2> QED
      BY <2>8, <2>9
  <1> QED
    BY <1>1, Invariance, PTL

-----------------------------------------------------------------------------
(* What the encoders write *)

\* One byte of a number.
LEMMA DigitFacts ==
    ASSUME NEW a \in Nat
    PROVE  /\ a \div RADIX \in Nat /\ a % RADIX \in Bytes
           /\ (a \div RADIX) * RADIX + (a % RADIX) = a
  <1>1. RADIX \in Nat /\ RADIX > 0
    BY FrameAssumption
  <1>2. a \div RADIX \in Nat
    BY <1>1
  <1>3. a % RADIX \in 0 .. RADIX - 1
    BY <1>1
  <1>4. a = RADIX * (a \div RADIX) + (a % RADIX)
    BY <1>1
  <1>5. RADIX * (a \div RADIX) = (a \div RADIX) * RADIX
    BY <1>1, <1>2
  <1> QED
    BY <1>2, <1>3, <1>4, <1>5 DEF Bytes

\* A number of one byte more.
LEMMA DigitLess ==
    ASSUME NEW a \in Nat, NEW m \in Nat, a < m * RADIX
    PROVE  a \div RADIX < m
  <1>1. PICK q \in Nat, b \in Bytes : q = a \div RADIX /\ q * RADIX + b = a
    BY DigitFacts
  <1>2. RADIX \in Nat /\ RADIX > 0 /\ b \in Nat
    BY <1>1, FrameAssumption DEF Bytes
  <1>3. SUFFICES ASSUME q >= m PROVE FALSE
    BY <1>1
  <1>4. q * RADIX >= m * RADIX
    <2>1. \A x, y, z \in Nat : x >= y => x * z >= y * z
      OBVIOUS
    <2> QED
      BY <1>1, <1>2, <1>3, <2>1
  <1>5. q * RADIX \in Nat /\ m * RADIX \in Nat
    BY <1>1, <1>2
  <1> QED
    BY <1>1, <1>2, <1>4, <1>5

\* u64::from_be_bytes undoes to_be_bytes.
LEMMA SizeRoundTrip ==
    ASSUME NEW len \in Nat, len < U64
    PROVE  ToBE(len) \in Seq(Bytes) /\ Len(ToBE(len)) = 8 /\ FromBE(ToBE(len)) = len
  <1>1. RADIX \in Nat
    BY FrameAssumption
  <1>2. PICK q1, q2, q3, q4, q5, q6, q7 :
          /\ q1 = len \div RADIX /\ q2 = q1 \div RADIX /\ q3 = q2 \div RADIX /\ q4 = q3 \div RADIX
          /\ q5 = q4 \div RADIX /\ q6 = q5 \div RADIX /\ q7 = q6 \div RADIX
    OBVIOUS
  <1>3. q1 \in Nat /\ q2 \in Nat /\ q3 \in Nat /\ q4 \in Nat /\ q5 \in Nat /\ q6 \in Nat /\ q7 \in Nat
    <2>1. q1 \in Nat
      BY <1>2, DigitFacts
    <2>2. q2 \in Nat
      BY <1>2, <2>1, DigitFacts
    <2>3. q3 \in Nat
      BY <1>2, <2>2, DigitFacts
    <2>4. q4 \in Nat
      BY <1>2, <2>3, DigitFacts
    <2>5. q5 \in Nat
      BY <1>2, <2>4, DigitFacts
    <2>6. q6 \in Nat
      BY <1>2, <2>5, DigitFacts
    <2>7. q7 \in Nat
      BY <1>2, <2>6, DigitFacts
    <2> QED
      BY <2>1, <2>2, <2>3, <2>4, <2>5, <2>6, <2>7
  <1>4. q7 < RADIX
    <2>1. PICK m2, m3, m4, m5, m6, m7 \in Nat :
            /\ m2 = RADIX * RADIX /\ m3 = m2 * RADIX /\ m4 = m3 * RADIX /\ m5 = m4 * RADIX
            /\ m6 = m5 * RADIX /\ m7 = m6 * RADIX /\ U64 = m7 * RADIX
      <3>1. \A x \in Nat : x * RADIX \in Nat
        BY <1>1
      <3> QED
        BY <1>1, <3>1, Zenon DEF U64
    <2>2. q1 < m7
      BY <1>2, <2>1, DigitLess
    <2>3. q2 < m6
      BY <1>2, <1>3, <2>1, <2>2, DigitLess
    <2>4. q3 < m5
      BY <1>2, <1>3, <2>1, <2>3, DigitLess
    <2>5. q4 < m4
      BY <1>2, <1>3, <2>1, <2>4, DigitLess
    <2>6. q5 < m3
      BY <1>2, <1>3, <2>1, <2>5, DigitLess
    <2>7. q6 < m2
      BY <1>2, <1>3, <2>1, <2>6, DigitLess
    <2> QED
      BY <1>1, <1>2, <1>3, <2>1, <2>7, DigitLess
  <1>5. q7 % RADIX = q7 /\ q7 \in Bytes
    BY <1>1, <1>3, <1>4 DEF Bytes
  <1>6. PICK b1, b2, b3, b4, b5, b6, b7, b8 :
          /\ b1 = q7 % RADIX /\ b2 = q6 % RADIX /\ b3 = q5 % RADIX /\ b4 = q4 % RADIX
          /\ b5 = q3 % RADIX /\ b6 = q2 % RADIX /\ b7 = q1 % RADIX /\ b8 = len % RADIX
    OBVIOUS
  <1>7. /\ q6 = q7 * RADIX + b2 /\ q5 = q6 * RADIX + b3 /\ q4 = q5 * RADIX + b4
        /\ q3 = q4 * RADIX + b5 /\ q2 = q3 * RADIX + b6 /\ q1 = q2 * RADIX + b7
        /\ len = q1 * RADIX + b8
    BY <1>2, <1>3, <1>6, DigitFacts, Zenon
  <1>8. /\ b1 \in Bytes /\ b2 \in Bytes /\ b3 \in Bytes /\ b4 \in Bytes
        /\ b5 \in Bytes /\ b6 \in Bytes /\ b7 \in Bytes /\ b8 \in Bytes
    BY <1>3, <1>6, DigitFacts, Zenon
  <1>9. ToBE(len) = <<b1, b2, b3, b4, b5, b6, b7, b8>>
    BY <1>2, <1>6, Zenon DEF ToBE
  <1>10. PICK s : s = <<b1, b2, b3, b4, b5, b6, b7, b8>>
    OBVIOUS
  <1>11. /\ s \in Seq(Bytes) /\ Len(s) = 8
         /\ s[1] = b1 /\ s[2] = b2 /\ s[3] = b3 /\ s[4] = b4
         /\ s[5] = b5 /\ s[6] = b6 /\ s[7] = b7 /\ s[8] = b8
    BY <1>8, <1>10
  <1>12. FromBE(s) = ((((((b1 * RADIX + b2) * RADIX + b3) * RADIX + b4) * RADIX + b5)
                         * RADIX + b6) * RADIX + b7) * RADIX + b8
    BY <1>11, Zenon DEF FromBE
  <1>13. FromBE(s) = len
    BY <1>5, <1>6, <1>7, <1>12, Zenon
  <1> QED
    BY <1>9, <1>10, <1>11, <1>13, Zenon

\* The flags that the encoders write are those that the decoder reads.
LEMMA FlagsRead ==
    /\ \A b \in {0, 1, 2, 3, 4, 6} : b \in Bytes /\ ~BadFlags(b)
    /\ \A b \in {0, 1, 4} : LongBit(b) = FALSE
    /\ \A b \in {2, 3, 6} : LongBit(b) = TRUE
    /\ \A b \in {1, 3} : MoreBit(b) = TRUE
    /\ \A b \in {0, 2, 4, 6} : MoreBit(b) = FALSE
    /\ \A b \in {4, 6} : CommandBit(b) = TRUE
    /\ \A b \in {0, 1, 2, 3} : CommandBit(b) = FALSE
  BY FrameAssumption DEF Bytes, BadFlags, ReservedBits, LongBit, MoreBit, CommandBit

\* A header that announces len bytes after the flags b.
Announces(h, b, len) ==
    /\ h \in Seq(Bytes) /\ h # <<>> /\ h[1] = b
    /\ Len(h) = HeaderLen(h) /\ FrameLen(h) = len

\* A header with one byte of size.
LEMMA ShortHeader ==
    ASSUME NEW b \in {0, 1, 4}, NEW len \in Nat, FitsShort(len)
    PROVE  Announces(<<b, len % RADIX>>, b, len)
  <1>1. len % RADIX = len /\ len \in Bytes
    BY FrameAssumption DEF FitsShort, Bytes
  <1>2. PICK h : h = <<b, len>>
    OBVIOUS
  <1>3. h \in Seq(Bytes) /\ h # <<>> /\ h[1] = b /\ h[2] = len /\ Len(h) = 2
    <2>1. b \in Bytes
      BY FlagsRead
    <2> QED
      BY <1>1, <1>2, <2>1
  <1>4. LongBit(h[1]) = FALSE
    BY <1>3, FlagsRead
  <1>5. HeaderLen(h) = 2
    BY <1>4 DEF HeaderLen, SizeNeeded
  <1>6. SizeField(h)[1] = len
    BY <1>3, <1>5, SliceFacts DEF SizeField
  <1>7. FrameLen(h) = len
    BY <1>4, <1>6 DEF FrameLen, BodyLen
  <1> QED
    BY <1>1, <1>2, <1>3, <1>5, <1>7 DEF Announces

\* A header with eight bytes of size.
LEMMA LongHeader ==
    ASSUME NEW b \in {2, 3, 6}, NEW len \in Nat, len < U64, len < USIZE
    PROVE  Announces(<<b>> \o ToBE(len), b, len)
  <1>1. PICK t \in Seq(Bytes) : t = ToBE(len) /\ Len(t) = 8 /\ FromBE(t) = len
    BY SizeRoundTrip
  <1>2. b \in Bytes
    BY FlagsRead
  <1>3. PICK h : h = <<b>> \o t
    OBVIOUS
  <1>4. /\ h \in Seq(Bytes) /\ h # <<>> /\ h[1] = b /\ Len(h) = 9
        /\ \A i \in 1 .. 8 : h[i + 1] = t[i]
    <2>1. PICK a : a = <<b>>
      OBVIOUS
    <2>2. a \in Seq(Bytes) /\ Len(a) = 1 /\ a[1] = b
      BY <1>2, <2>1
    <2>3. /\ h \in Seq(Bytes) /\ Len(h) = Len(a) + Len(t) /\ h # <<>> /\ h[1] = b
          /\ \A i \in 1 .. Len(a) + Len(t) : h[i] = IF i <= Len(a) THEN a[i] ELSE t[i - Len(a)]
      <3>1. h = a \o t
        BY <1>3, <2>1
      <3>2. /\ a \o t \in Seq(Bytes) /\ Len(a \o t) = Len(a) + Len(t)
            /\ \A i \in 1 .. Len(a) + Len(t) :
                  (a \o t)[i] = IF i <= Len(a) THEN a[i] ELSE t[i - Len(a)]
        BY <1>1, <2>2, ConcatProperties
      <3>3. (a \o t)[1] = b /\ a \o t # <<>>
        BY <1>1, <2>2, <3>2
      <3> QED
        BY <3>1, <3>2, <3>3
    <2>4. ASSUME NEW i \in 1 .. 8 PROVE h[i + 1] = t[i]
      <3>1. i + 1 \in 1 .. Len(a) + Len(t) /\ ~(i + 1 <= Len(a)) /\ (i + 1) - Len(a) = i
        BY <1>1, <2>2
      <3> QED
        BY <2>3, <3>1
    <2> QED
      BY <1>1, <2>2, <2>3, <2>4
  <1>5. LongBit(h[1]) = TRUE
    BY <1>4, FlagsRead
  <1>6. HeaderLen(h) = 9
    BY <1>5 DEF HeaderLen, SizeNeeded
  <1>7. SizeField(h) = t
    <2>1. PICK z : z = SubSeq(h, 2, 9)
      OBVIOUS
    <2>2. z \in Seq(Bytes) /\ Len(z) = 8 /\ \A i \in 1 .. 8 : z[i] = h[2 + i - 1]
      <3>1. 2 \in Nat /\ 9 \in Nat /\ 2 >= 1 /\ 9 <= Len(h) /\ 2 <= 9 + 1
        BY <1>4
      <3>2. /\ SubSeq(h, 2, 9) \in Seq(Bytes) /\ Len(SubSeq(h, 2, 9)) = 9 + 1 - 2
            /\ \A i \in 1 .. 9 + 1 - 2 : SubSeq(h, 2, 9)[i] = h[2 + i - 1]
        BY <1>4, <3>1, SliceFacts, Zenon
      <3>3. 9 + 1 - 2 = 8
        OBVIOUS
      <3> QED
        BY <2>1, <3>2, <3>3, Zenon
    <2>3. \A i \in 1 .. 8 : z[i] = t[i]
      <3>1. \A i \in 1 .. 8 : 2 + i - 1 = i + 1
        OBVIOUS
      <3> QED
        BY <1>4, <2>2, <3>1
    <2>4. z = t
      BY <1>1, <2>2, <2>3, SeqEqual
    <2> QED
      BY <1>6, <2>1, <2>4 DEF SizeField
  <1>8. FrameLen(h) = len
    <2>1. len % USIZE = len
      BY FrameAssumption
    <2> QED
      BY <1>1, <1>5, <1>7, <2>1 DEF FrameLen, BodyLen
  <1> QED
    BY <1>1, <1>3, <1>4, <1>6, <1>8 DEF Announces

\* A frame as the sender writes it.
Encoded(f) == Header(f) \o f.body

\* The header of a frame announces its body, and has its flags.
LEMMA HeaderWritten ==
    ASSUME NEW f \in Outgoing, USIZE <= U64
    PROVE  \E b \in {0, 1, 2, 3, 4, 6} :
              /\ Announces(Header(f), b, Len(f.body))
              /\ MoreBit(b) = f.more /\ CommandBit(b) = f.is_command
  <1>1. f.more \in BOOLEAN /\ f.is_command \in BOOLEAN /\ ~(f.more /\ f.is_command)
    BY OutgoingAssumption DEF Frames
  <1>2. PICK len \in Nat : len = Len(f.body)
    BY OutgoingAssumption, SeqFacts DEF Frames
  <1>3. len < USIZE /\ len < U64
    <2>1. RADIX \in Nat /\ \A x, y \in Nat : x * y \in Nat
      BY FrameAssumption
    <2>2. U64 \in Nat
      BY <2>1 DEF U64
    <2>3. len < USIZE /\ USIZE \in Nat
      BY <1>2, OutgoingAssumption, FrameAssumption
    <2> QED
      BY <2>2, <2>3
  <1>4. CASE FitsShort(len)
    <2>1. CASE f.is_command
      <3>1. Header(f) = <<4, len % RADIX>>
        BY <1>2, <1>4, <2>1 DEF Header, EncodeCommandFrame
      <3>2. Announces(Header(f), 4, Len(f.body))
        BY <1>2, <1>4, <3>1, ShortHeader
      <3> QED
        BY <1>1, <2>1, <3>2, FlagsRead
    <2>2. CASE ~f.is_command /\ f.more
      <3>1. Header(f) = <<1, len % RADIX>>
        BY <1>2, <1>4, <2>2 DEF Header, EncodeMessageFrame
      <3>2. Announces(Header(f), 1, Len(f.body))
        BY <1>2, <1>4, <3>1, ShortHeader
      <3> QED
        BY <1>1, <2>2, <3>2, FlagsRead
    <2>3. CASE ~f.is_command /\ ~f.more
      <3>1. Header(f) = <<0, len % RADIX>>
        BY <1>2, <1>4, <2>3 DEF Header, EncodeMessageFrame
      <3>2. Announces(Header(f), 0, Len(f.body))
        BY <1>2, <1>4, <3>1, ShortHeader
      <3> QED
        BY <1>1, <2>3, <3>2, FlagsRead
    <2> QED
      BY <1>1, <2>1, <2>2, <2>3
  <1>5. CASE ~FitsShort(len)
    <2>1. CASE f.is_command
      <3>1. Header(f) = <<6>> \o ToBE(len)
        BY <1>2, <1>5, <2>1 DEF Header, EncodeCommandFrame
      <3>2. Announces(Header(f), 6, Len(f.body))
        BY <1>2, <1>3, <3>1, LongHeader
      <3> QED
        BY <1>1, <2>1, <3>2, FlagsRead
    <2>2. CASE ~f.is_command /\ f.more
      <3>1. Header(f) = <<3>> \o ToBE(len)
        BY <1>2, <1>5, <2>2 DEF Header, EncodeMessageFrame
      <3>2. Announces(Header(f), 3, Len(f.body))
        BY <1>2, <1>3, <3>1, LongHeader
      <3> QED
        BY <1>1, <2>2, <3>2, FlagsRead
    <2>3. CASE ~f.is_command /\ ~f.more
      <3>1. Header(f) = <<2>> \o ToBE(len)
        BY <1>2, <1>5, <2>3 DEF Header, EncodeMessageFrame
      <3>2. Announces(Header(f), 2, Len(f.body))
        BY <1>2, <1>3, <3>1, LongHeader
      <3> QED
        BY <1>1, <2>3, <3>2, FlagsRead
    <2> QED
      BY <1>1, <2>1, <2>2, <2>3
  <1> QED
    BY <1>4, <1>5

\* What the sender writes is a frame for the decoder, and that frame.
LEMMA EncodedIsFrame ==
    ASSUME NEW f \in Outgoing, USIZE <= U64
    PROVE  Encoded(f) \in Seq(Bytes) /\ IsFrame(Encoded(f)) /\ FrameOf(Encoded(f)) = f
  <1>1. PICK b \in {0, 1, 2, 3, 4, 6} :
            /\ Announces(Header(f), b, Len(f.body))
            /\ MoreBit(b) = f.more /\ CommandBit(b) = f.is_command
    BY HeaderWritten
  <1>2. PICK h : h = Header(f)
    OBVIOUS
  <1>3. /\ h \in Seq(Bytes) /\ h # <<>> /\ h[1] = b /\ Len(h) = HeaderLen(h)
        /\ FrameLen(h) = Len(f.body)
    BY <1>1, <1>2 DEF Announces
  <1>4. PICK y \in Seq(Bytes) : y = f.body /\ Len(y) <= CAP /\ Len(y) \in Nat
    BY OutgoingAssumption, SeqFacts DEF Frames
  <1>5. PICK e : e = h \o y
    OBVIOUS
  <1>6. SizeKnown(h) /\ Len(h) \in Nat
    BY <1>3, SeqFacts DEF SizeKnown
  <1>7. /\ e \in Seq(Bytes) /\ e # <<>> /\ Len(e) = Len(h) + Len(y) /\ e[1] = b
        /\ HeaderLen(e) = HeaderLen(h) /\ SizeKnown(e) /\ FrameLen(e) = FrameLen(h)
        /\ SubSeq(e, HeaderLen(h) + 1, Len(e)) = SubSeq(h, HeaderLen(h) + 1, Len(h)) \o y
    BY <1>3, <1>5, <1>6, Extend
  <1>8. SubSeq(e, HeaderLen(e) + 1, Len(e)) = y
    <2>1. SubSeq(h, HeaderLen(h) + 1, Len(h)) = <<>>
      BY <1>3, <1>6
    <2>2. <<>> \o y = y
      OBVIOUS
    <2> QED
      BY <1>7, <2>1, <2>2
  <1>9. ~BadFlags(b)
    BY FlagsRead
  <1>10. IsFrame(e)
    BY <1>3, <1>4, <1>7, <1>9, FrameAssumption DEF IsFrame, Invalid
  <1>11. FrameOf(e) = f
    <2>1. f = [more |-> f.more, is_command |-> f.is_command, body |-> f.body]
      BY OutgoingAssumption DEF Frames
    <2> QED
      BY <1>1, <1>4, <1>7, <1>8, <2>1 DEF FrameOf
  <1>12. Encoded(f) = e
    BY <1>2, <1>4, <1>5 DEF Encoded
  <1> QED
    BY <1>7, <1>10, <1>11, <1>12

-----------------------------------------------------------------------------
(* The beginnings of a frame *)

\* What is not all of a frame is part of one.
LEMMA BeforeTheEnd ==
    ASSUME NEW q \in Seq(Bytes), NEW y \in Seq(Bytes), y # <<>>, IsFrame(q \o y)
    PROVE  Partial(q) /\ ~Invalid(q) /\ ~IsFrame(q)
  <1>1. CASE q = <<>>
    BY <1>1 DEF Partial, Invalid, IsFrame
  <1>2. CASE q # <<>>
    <2>1. PICK e : e = q \o y
      OBVIOUS
    <2>2. /\ e[1] = q[1] /\ HeaderLen(e) = HeaderLen(q) /\ Len(e) = Len(q) + Len(y)
          /\ SizeKnown(q) => SizeKnown(e) /\ FrameLen(e) = FrameLen(q)
      BY <1>2, <2>1, Extend
    <2>3. Len(q) \in Nat /\ Len(y) \in Nat /\ Len(y) > 0
      BY SeqFacts
    <2>4. ~BadFlags(e[1]) /\ (SizeKnown(e) => ~(FrameLen(e) > CAP)) /\ Len(e) = HeaderLen(e) + FrameLen(e)
      BY <2>1 DEF IsFrame, Invalid
    <2>5. ~Invalid(q)
      BY <2>2, <2>4 DEF Invalid
    <2>6. SizeKnown(q) => Len(q) < HeaderLen(q) + FrameLen(q)
      BY <2>2, <2>3, <2>4
    <2>7. SizeKnown(q) => HeaderLen(q) + FrameLen(q) \in Nat
      BY <2>2, <2>3, <2>4
    <2> QED
      BY <2>3, <2>5, <2>6, <2>7 DEF Partial, IsFrame
  <1> QED
    BY <1>1, <1>2

\* What begins with a frame is neither part of one nor invalid, and no other
\* frame.
LEMMA FromTheEnd ==
    ASSUME NEW q \in Seq(Bytes), NEW y \in Seq(Bytes), IsFrame(q)
    PROVE  ~Partial(q \o y) /\ ~Invalid(q \o y) /\ (y # <<>> => ~IsFrame(q \o y))
  <1>1. PICK e : e = q \o y
    OBVIOUS
  <1>2. q # <<>> /\ SizeKnown(q) /\ ~Invalid(q) /\ Len(q) = HeaderLen(q) + FrameLen(q)
    BY DEF IsFrame
  <1>3. /\ e # <<>> /\ e[1] = q[1] /\ HeaderLen(e) = HeaderLen(q) /\ Len(e) = Len(q) + Len(y)
        /\ SizeKnown(e) /\ FrameLen(e) = FrameLen(q)
    BY <1>1, <1>2, Extend
  <1>4. Len(q) \in Nat /\ Len(y) \in Nat /\ (y # <<>> => Len(y) > 0)
    BY SeqFacts
  <1>5. ~Invalid(e)
    BY <1>2, <1>3 DEF Invalid
  <1>6. ~(Len(e) < HeaderLen(e) + FrameLen(e)) /\ (y # <<>> => Len(e) # HeaderLen(e) + FrameLen(e))
    BY <1>2, <1>3, <1>4
  <1> QED
    BY <1>1, <1>3, <1>5, <1>6 DEF Partial, IsFrame

\* A stretch of bytes in two parts.
LEMMA SplitSlice ==
    ASSUME NEW u \in Seq(Bytes), NEW k \in Nat, NEW n \in Nat, k <= n, n <= Len(u)
    PROVE  SubSeq(u, 1, k) \o SubSeq(u, k + 1, n) = SubSeq(u, 1, n)
  <1>1. Len(u) \in Nat
    BY SeqFacts
  <1>2. 1 \in 1 .. Len(u) + 1 /\ k \in 1 - 1 .. Len(u) /\ n \in k .. Len(u)
    BY <1>1
  <1> QED
    BY <1>2, ConcatAdjacentSubSeq

\* The beginnings of a stream that begins with a frame of n bytes.
LEMMA BeginningsOf ==
    ASSUME NEW u \in Seq(Bytes), NEW n \in 0 .. Len(u), IsFrame(SubSeq(u, 1, n)),
           NEW k \in 0 .. Len(u)
    PROVE  /\ k < n => Partial(SubSeq(u, 1, k))
           /\ Invalid(SubSeq(u, 1, k)) => FALSE
           /\ Partial(SubSeq(u, 1, k)) => k < n
           /\ IsFrame(SubSeq(u, 1, k)) => k = n
  <1>1. Len(u) \in Nat /\ n \in Nat /\ k \in Nat /\ n <= Len(u) /\ k <= Len(u)
    BY SeqFacts
  <1>2. CASE k < n
    <2>1. /\ SubSeq(u, 1, k) \in Seq(Bytes)
          /\ SubSeq(u, k + 1, n) \in Seq(Bytes) /\ Len(SubSeq(u, k + 1, n)) = n + 1 - (k + 1)
      BY <1>1, <1>2, SliceFacts
    <2>2. SubSeq(u, 1, k) \o SubSeq(u, k + 1, n) = SubSeq(u, 1, n)
      BY <1>1, <1>2, SplitSlice
    <2>3. SubSeq(u, k + 1, n) # <<>>
      BY <1>1, <1>2, <2>1, SeqFacts
    <2>4. PICK q \in Seq(Bytes), y \in Seq(Bytes) :
              q = SubSeq(u, 1, k) /\ y = SubSeq(u, k + 1, n) /\ y # <<>> /\ IsFrame(q \o y)
      BY <2>1, <2>2, <2>3, Zenon
    <2>5. Partial(q) /\ ~Invalid(q) /\ ~IsFrame(q)
      BY <2>4, BeforeTheEnd, Zenon
    <2> QED
      BY <1>2, <2>4, <2>5, Zenon
  <1>3. CASE k >= n
    <2>1. /\ SubSeq(u, 1, n) \in Seq(Bytes)
          /\ SubSeq(u, n + 1, k) \in Seq(Bytes) /\ Len(SubSeq(u, n + 1, k)) = k + 1 - (n + 1)
      BY <1>1, <1>3, SliceFacts
    <2>2. SubSeq(u, 1, n) \o SubSeq(u, n + 1, k) = SubSeq(u, 1, k)
      BY <1>1, <1>3, SplitSlice
    <2>3. k # n => SubSeq(u, n + 1, k) # <<>>
      BY <1>1, <1>3, <2>1, SeqFacts
    <2>4. PICK q \in Seq(Bytes), y \in Seq(Bytes) :
              q = SubSeq(u, 1, n) /\ y = SubSeq(u, n + 1, k) /\ q \o y = SubSeq(u, 1, k)
      BY <2>1, <2>2, Zenon
    <2>5. ~Partial(q \o y) /\ ~Invalid(q \o y) /\ (y # <<>> => ~IsFrame(q \o y))
      BY <2>4, FromTheEnd, Zenon
    <2>6. ~(k < n)
      BY <1>1, <1>3
    <2> QED
      BY <2>3, <2>4, <2>5, <2>6, Zenon
  <1> QED
    BY <1>1, <1>2, <1>3

-----------------------------------------------------------------------------
(* The channel *)

\* The bytes u are the frames fs, one after the other: rest[i] is what follows
\* the first i of them.
Spells(u, fs) ==
    \E rest \in [0 .. Len(fs) -> Seq(Bytes)] :
        /\ rest[0] = u /\ rest[Len(fs)] = <<>>
        /\ \A i \in 1 .. Len(fs) : rest[i - 1] = Encoded(fs[i]) \o rest[i]

\* No frame, no byte.
LEMMA SpellsNone ==
    /\ Spells(<<>>, <<>>)
    /\ \A u : Spells(u, <<>>) => u = <<>>
  <1>1. Len(<<>>) = 0 /\ <<>> \in Seq(Bytes)
    OBVIOUS
  <1>2. Spells(<<>>, <<>>)
    <2> DEFINE rest == [i \in 0 .. 0 |-> <<>>]
    <2>1. /\ rest \in [0 .. Len(<<>>) -> Seq(Bytes)] /\ rest[0] = <<>> /\ rest[Len(<<>>)] = <<>>
          /\ \A i \in 1 .. Len(<<>>) : rest[i - 1] = Encoded(<<>>[i]) \o rest[i]
      BY <1>1
    <2> HIDE DEF rest
    <2> QED
      BY <2>1 DEF Spells
  <1>3. ASSUME NEW u, Spells(u, <<>>) PROVE u = <<>>
    BY <1>1, <1>3 DEF Spells
  <1> QED
    BY <1>2, <1>3

\* The first frame and the others.
LEMMA SpellsFirst ==
    ASSUME NEW u, NEW fs \in Seq(Outgoing), fs # <<>>, Spells(u, fs)
    PROVE  \E v \in Seq(Bytes) : u = Encoded(Head(fs)) \o v /\ Spells(v, Tail(fs))
  <1>1. PICK rest \in [0 .. Len(fs) -> Seq(Bytes)] :
            /\ rest[0] = u /\ rest[Len(fs)] = <<>>
            /\ \A i \in 1 .. Len(fs) : rest[i - 1] = Encoded(fs[i]) \o rest[i]
    BY DEF Spells
  <1>2. PICK gs : gs = Tail(fs)
    OBVIOUS
  <1>3. PICK n \in Nat : n = Len(gs) /\ Len(fs) = n + 1 /\ \A i \in 1 .. n : gs[i] = fs[i + 1]
    BY <1>2
  <1>4. Head(fs) = fs[1]
    OBVIOUS
  <1> DEFINE more == [i \in 0 .. n |-> rest[i + 1]]
  <1>5. /\ more \in [0 .. n -> Seq(Bytes)]
        /\ \A i \in 0 .. n : more[i] = rest[i + 1]
    <2>1. \A i \in 0 .. n : i + 1 \in 0 .. Len(fs)
      BY <1>3
    <2>2. \A i \in 0 .. n : rest[i + 1] \in Seq(Bytes)
      BY <2>1
    <2> QED
      BY <2>2
  <1> HIDE DEF more
  <1>6. more[0] = rest[1] /\ more[n] = <<>> /\ more[0] \in Seq(Bytes)
    <2>1. 0 \in 0 .. n /\ n \in 0 .. n /\ 0 + 1 = 1
      OBVIOUS
    <2>2. more[0] = rest[0 + 1] /\ more[n] = rest[n + 1] /\ more[0] \in Seq(Bytes)
      BY <1>5, <2>1
    <2> QED
      BY <1>1, <1>3, <2>1, <2>2, Zenon
  <1>7. ASSUME NEW i \in 1 .. n PROVE more[i - 1] = Encoded(gs[i]) \o more[i]
    <2>1. i + 1 \in 1 .. Len(fs) /\ (i + 1) - 1 = (i - 1) + 1 /\ i - 1 \in 0 .. n /\ i \in 0 .. n
      BY <1>3
    <2>2. rest[(i + 1) - 1] = Encoded(fs[i + 1]) \o rest[i + 1]
      BY <1>1, <2>1
    <2>3. more[i - 1] = rest[(i - 1) + 1] /\ more[i] = rest[i + 1] /\ gs[i] = fs[i + 1]
      BY <1>3, <1>5, <2>1
    <2> QED
      BY <2>1, <2>2, <2>3, Zenon
  <1>8. Spells(more[0], gs)
    BY <1>3, <1>5, <1>6, <1>7 DEF Spells
  <1>9. u = Encoded(fs[1]) \o more[0]
    <2>1. 1 \in 1 .. Len(fs) /\ 1 - 1 = 0
      BY <1>3
    <2>2. rest[1 - 1] = Encoded(fs[1]) \o rest[1]
      BY <1>1, <2>1
    <2> QED
      BY <1>1, <1>6, <2>1, <2>2, Zenon
  <1> QED
    BY <1>2, <1>4, <1>6, <1>8, <1>9

\* One more frame.
LEMMA SpellsMore ==
    ASSUME NEW u, NEW fs \in Seq(Outgoing), Spells(u, fs), NEW f \in Outgoing,
           \A g \in Outgoing : Encoded(g) \in Seq(Bytes)
    PROVE  Spells(u \o Encoded(f), Append(fs, f))
  <1>1. PICK rest \in [0 .. Len(fs) -> Seq(Bytes)] :
            /\ rest[0] = u /\ rest[Len(fs)] = <<>>
            /\ \A i \in 1 .. Len(fs) : rest[i - 1] = Encoded(fs[i]) \o rest[i]
    BY DEF Spells
  <1>2. PICK e \in Seq(Bytes) : e = Encoded(f)
    OBVIOUS
  <1>3. PICK n \in Nat : n = Len(fs)
    OBVIOUS
  <1>4. PICK gs : gs = Append(fs, f)
    OBVIOUS
  <1>5. Len(gs) = n + 1 /\ gs[n + 1] = f /\ \A i \in 1 .. n : gs[i] = fs[i] /\ fs[i] \in Outgoing
    BY <1>3, <1>4
  <1> DEFINE more == [i \in 0 .. n + 1 |-> IF i <= n THEN rest[i] \o e ELSE <<>>]
  <1>6. /\ more \in [0 .. n + 1 -> Seq(Bytes)]
        /\ \A i \in 0 .. n : more[i] = rest[i] \o e /\ rest[i] \in Seq(Bytes)
        /\ more[n + 1] = <<>>
    <2>1. \A i \in 0 .. n : rest[i] \in Seq(Bytes)
      BY <1>1, <1>3
    <2>2. \A s \in Seq(Bytes) : s \o e \in Seq(Bytes)
      OBVIOUS
    <2>3. <<>> \in Seq(Bytes)
      OBVIOUS
    <2>4. \A i \in 0 .. n + 1 : (IF i <= n THEN rest[i] \o e ELSE <<>>) \in Seq(Bytes)
      BY <2>1, <2>2, <2>3
    <2>5. more \in [0 .. n + 1 -> Seq(Bytes)]
      BY <2>4
    <2>6. \A i \in 0 .. n : i \in 0 .. n + 1 /\ i <= n
      OBVIOUS
    <2>7. n + 1 \in 0 .. n + 1 /\ ~(n + 1 <= n)
      OBVIOUS
    <2> QED
      BY <2>1, <2>5, <2>6, <2>7
  <1> HIDE DEF more
  <1>7. ASSUME NEW i \in 1 .. n + 1 PROVE more[i - 1] = Encoded(gs[i]) \o more[i]
    <2>1. CASE i = n + 1
      <3>1. more[i - 1] = rest[n] \o e
        <4>1. i - 1 = n /\ n \in 0 .. n
          BY <2>1
        <4> QED
          BY <1>6, <4>1, Zenon
      <3>2. rest[n] \o e = e
        <4>1. <<>> \o e = e
          OBVIOUS
        <4> QED
          BY <1>1, <1>3, <4>1
      <3>3. e \o <<>> = e
        OBVIOUS
      <3>4. more[i] = <<>> /\ Encoded(gs[i]) = e
        BY <1>2, <1>5, <1>6, <2>1
      <3> QED
        BY <3>1, <3>2, <3>3, <3>4, Zenon
    <2>2. CASE i # n + 1
      <3>1. i \in 1 .. n /\ i - 1 \in 0 .. n /\ i \in 0 .. n
        BY <2>2
      <3>2. rest[i - 1] = Encoded(fs[i]) \o rest[i] /\ fs[i] = gs[i] /\ fs[i] \in Outgoing
        BY <1>1, <1>3, <1>5, <3>1
      <3>3. PICK a \in Seq(Bytes) : a = Encoded(fs[i])
        BY <3>2
      <3>4. PICK b \in Seq(Bytes) : b = rest[i]
        BY <1>6, <3>1
      <3>5. (a \o b) \o e = a \o (b \o e)
        <4>1. \A q, c, d \in Seq(Bytes) : (q \o c) \o d = q \o (c \o d)
          BY BytesAssociative
        <4> QED
          BY <4>1, Zenon
      <3>6. more[i - 1] = rest[i - 1] \o e /\ more[i] = rest[i] \o e
        BY <1>6, <3>1
      <3> QED
        BY <3>2, <3>3, <3>4, <3>5, <3>6, Zenon
    <2> QED
      BY <2>1, <2>2
  <1>8. more[0] = u \o e
    <2>1. 0 \in 0 .. n
      OBVIOUS
    <2> QED
      BY <1>1, <1>6, <2>1, Zenon
  <1>9. Spells(u \o e, gs)
    BY <1>5, <1>6, <1>7, <1>8 DEF Spells
  <1> QED
    BY <1>2, <1>4, <1>9, Zenon

\* Bytes that spell frames begin with the first frame, and the rest spells the
\* others.
LEMMA FirstFrame ==
    ASSUME NEW u \in Seq(Bytes), NEW fs \in Seq(Outgoing), fs # <<>>, Spells(u, fs),
           USIZE <= U64
    PROVE  \E len \in 1 .. Len(u) :
              /\ IsFrame(SubSeq(u, 1, len)) /\ FrameOf(SubSeq(u, 1, len)) = Head(fs)
              /\ Spells(SubSeq(u, len + 1, Len(u)), Tail(fs))
  <1>1. PICK v \in Seq(Bytes) : u = Encoded(Head(fs)) \o v /\ Spells(v, Tail(fs))
    BY SpellsFirst
  <1>2. Head(fs) \in Outgoing
    OBVIOUS
  <1>3. Encoded(Head(fs)) \in Seq(Bytes) /\ IsFrame(Encoded(Head(fs)))
        /\ FrameOf(Encoded(Head(fs))) = Head(fs)
    BY <1>2, EncodedIsFrame
  <1>4. PICK e \in Seq(Bytes) : e = Encoded(Head(fs))
    BY <1>3
  <1>5. IsFrame(e) /\ FrameOf(e) = Head(fs) /\ u = e \o v
    BY <1>1, <1>3, <1>4, Zenon
  <1>6. PICK len \in Nat : len = Len(e)
    BY SeqFacts
  <1>7. len >= 1
    <2>1. e # <<>>
      BY <1>5 DEF IsFrame
    <2> QED
      BY <1>6, <2>1, SeqFacts
  <1>8. Len(u) = len + Len(v) /\ Len(v) \in Nat
    BY <1>5, <1>6
  <1>9. SubSeq(u, 1, len) = e
    <2>1. 1 \in Nat /\ 1 >= 1 /\ 1 <= len /\ len <= Len(e)
      BY <1>6, <1>7
    <2>2. SubSeq(e \o v, 1, len) = SubSeq(e, 1, len)
      BY <2>1, HeadOfConcat
    <2>3. SubSeq(e, 1, Len(e)) = e
      OBVIOUS
    <2> QED
      BY <1>5, <1>6, <2>2, <2>3, Zenon
  <1>10. SubSeq(u, len + 1, Len(u)) = v
    <2>1. len + 1 \in Nat /\ len + 1 >= 1 /\ len + 1 <= Len(e) + 1
      BY <1>6
    <2>2. SubSeq(e \o v, len + 1, Len(e \o v)) = SubSeq(e, len + 1, Len(e)) \o v
      BY <2>1, TailOfConcat
    <2>3. SubSeq(e, Len(e) + 1, Len(e)) = <<>> /\ <<>> \o v = v
      BY <1>6, SubSeqEmpty
    <2> QED
      BY <1>5, <1>6, <2>2, <2>3, Zenon
  <1>11. len \in 1 .. Len(u)
    BY <1>7, <1>8
  <1>12. /\ IsFrame(SubSeq(u, 1, len)) /\ FrameOf(SubSeq(u, 1, len)) = Head(fs)
         /\ Spells(SubSeq(u, len + 1, Len(u)), Tail(fs))
    BY <1>1, <1>5, <1>9, <1>10, Zenon
  <1> QED
    BY <1>11, <1>12

\* A stretch of what is left after m bytes.
LEMMA SliceOfRest ==
    ASSUME NEW u \in Seq(Bytes), NEW m \in Nat, m <= Len(u),
           NEW a \in Nat, NEW b \in Nat, a <= b, m + b <= Len(u)
    PROVE  SubSeq(SubSeq(u, m + 1, Len(u)), a + 1, b) = SubSeq(u, (m + a) + 1, m + b)
  <1>1. Len(u) \in Nat
    BY SeqFacts
  <1>2. PICK s : s = SubSeq(u, m + 1, Len(u))
    OBVIOUS
  <1>3. /\ s \in Seq(Bytes) /\ Len(s) = Len(u) - m
        /\ \A i \in 1 .. Len(u) - m : s[i] = u[m + i]
    <2>1. m + 1 \in Nat /\ m + 1 >= 1 /\ Len(u) <= Len(u) /\ m + 1 <= Len(u) + 1
      BY <1>1
    <2>2. /\ s \in Seq(Bytes) /\ Len(s) = Len(u) + 1 - (m + 1)
          /\ \A i \in 1 .. Len(u) + 1 - (m + 1) : s[i] = u[(m + 1) + i - 1]
      BY <1>1, <1>2, <2>1, SliceFacts
    <2>3. Len(u) + 1 - (m + 1) = Len(u) - m /\ \A i \in Nat : (m + 1) + i - 1 = m + i
      BY <1>1
    <2>4. \A i \in 1 .. Len(u) - m : i \in Nat
      BY <1>1
    <2> QED
      BY <2>2, <2>3, <2>4, Zenon
  <1>4. PICK l : l = SubSeq(s, a + 1, b)
    OBVIOUS
  <1>5. l \in Seq(Bytes) /\ Len(l) = b - a /\ \A i \in 1 .. b - a : l[i] = s[a + i]
    <2>1. a + 1 \in Nat /\ a + 1 >= 1 /\ b <= Len(s) /\ a + 1 <= b + 1
      BY <1>1, <1>3
    <2>2. /\ l \in Seq(Bytes) /\ Len(l) = b + 1 - (a + 1)
          /\ \A i \in 1 .. b + 1 - (a + 1) : l[i] = s[(a + 1) + i - 1]
      <3>1. PICK c \in Nat : c = a + 1
        OBVIOUS
      <3>2. c >= 1 /\ b <= Len(s) /\ c <= b + 1
        BY <2>1, <3>1
      <3>3. /\ SubSeq(s, c, b) \in Seq(Bytes) /\ Len(SubSeq(s, c, b)) = b + 1 - c
            /\ \A i \in 1 .. b + 1 - c : SubSeq(s, c, b)[i] = s[c + i - 1]
        BY <1>3, <3>2, SliceFacts
      <3> QED
        BY <1>4, <3>1, <3>3, Zenon
    <2>3. b + 1 - (a + 1) = b - a /\ \A i \in Nat : (a + 1) + i - 1 = a + i
      OBVIOUS
    <2>4. \A i \in 1 .. b - a : i \in Nat
      OBVIOUS
    <2> QED
      BY <2>2, <2>3, <2>4, Zenon
  <1>6. PICK r : r = SubSeq(u, (m + a) + 1, m + b)
    OBVIOUS
  <1>7. r \in Seq(Bytes) /\ Len(r) = b - a /\ \A i \in 1 .. b - a : r[i] = u[m + a + i]
    BY <1>1, <1>6, SliceFacts
  <1>8. \A i \in 1 .. Len(l) : l[i] = r[i]
    <2> SUFFICES ASSUME NEW i \in 1 .. b - a PROVE l[i] = r[i]
      BY <1>5
    <2>1. a + i \in 1 .. Len(u) - m /\ m + (a + i) = m + a + i
      BY <1>1
    <2>2. s[a + i] = u[m + (a + i)]
      BY <1>3, <2>1
    <2> QED
      BY <1>5, <1>7, <2>1, <2>2
  <1>9. l = r
    BY <1>5, <1>7, <1>8, SeqEqual
  <1> QED
    BY <1>2, <1>4, <1>6, <1>9

\* One more frame waits.
LEMMA WaitsMore ==
    ASSUME NEW d \in Seq(Outgoing), NEW fs \in Seq(Outgoing), NEW f \in Outgoing
    PROVE  Append(d \o fs, f) = d \o Append(fs, f)
  <1>1. <<f>> \in Seq(Outgoing) /\ d \o fs \in Seq(Outgoing)
    OBVIOUS
  <1>2. Append(fs, f) = fs \o <<f>> /\ Append(d \o fs, f) = (d \o fs) \o <<f>>
    BY <1>1, AppendIsConcat
  <1>3. (d \o fs) \o <<f>> = d \o (fs \o <<f>>)
    BY <1>1, ConcatAssociative
  <1> QED
    BY <1>2, <1>3, Zenon

\* The first frame that waits is delivered.
LEMMA WaitsLess ==
    ASSUME NEW d \in Seq(Outgoing), NEW fs \in Seq(Outgoing), fs # <<>>
    PROVE  d \o fs = Append(d, Head(fs)) \o Tail(fs)
  <1>1. PICK g \in Outgoing, gs \in Seq(Outgoing) : g = Head(fs) /\ gs = Tail(fs)
    BY HeadTailProperties
  <1>2. <<g>> \in Seq(Outgoing)
    OBVIOUS
  <1>3. fs = <<g>> \o gs
    BY <1>1
  <1>4. Append(d, g) = d \o <<g>>
    BY AppendIsConcat
  <1>5. (d \o <<g>>) \o gs = d \o (<<g>> \o gs)
    BY <1>2, ConcatAssociative
  <1> QED
    BY <1>1, <1>3, <1>4, <1>5, Zenon

\* The receiver is m bytes into u, which is the frames fs, all that was sent and
\* not delivered.
Reads(u, m, fs) ==
    /\ m <= Len(u)
    /\ Partial(SubSeq(u, 1, m))
    /\ receiver = StateAfter(SubSeq(u, 1, m))
    /\ stream = SubSeq(u, m + 1, Len(u))
    /\ Spells(u, fs)
    /\ sent = delivered \o fs

\* The inductive invariant of the channel.
CInv ==
    /\ delivered \in Seq(Outgoing)
    /\ \E u \in Seq(Bytes), m \in Nat, fs \in Seq(Outgoing) : Reads(u, m, fs)

\* Nothing is sent, nothing is read.
LEMMA ChannelInitCInv == ChannelInit => CInv
  <1> SUFFICES ASSUME ChannelInit PROVE CInv
    OBVIOUS
  <1>1. <<>> \in Seq(Bytes) /\ <<>> \in Seq(Outgoing) /\ Len(<<>>) = 0 /\ 0 \in Nat /\ 0 <= 0
    OBVIOUS
  <1>2. SubSeq(<<>>, 1, 0) = <<>> /\ SubSeq(<<>>, 0 + 1, Len(<<>>)) = <<>> /\ <<>> \o <<>> = <<>>
    BY <1>1, SubSeqEmpty
  <1>3. Partial(<<>>) /\ StateAfter(<<>>) = NewDecoder
    BY DEF Partial, Invalid, StateAfter
  <1>4. Reads(<<>>, 0, <<>>)
    BY <1>1, <1>2, <1>3, SpellsNone DEF Reads, ChannelInit
  <1>5. delivered \in Seq(Outgoing)
    BY <1>1 DEF ChannelInit
  <1> QED
    BY <1>1, <1>4, <1>5 DEF CInv

\* A frame is added to what is to be read.
LEMMA SendCInv ==
    ASSUME CInv, NEW f \in Outgoing, Send(f), USIZE <= U64
    PROVE  CInv'
  <1>1. PICK u \in Seq(Bytes), m \in Nat, fs \in Seq(Outgoing) : Reads(u, m, fs)
    BY DEF CInv
  <1>2. Len(u) \in Nat /\ m \in Nat /\ m <= Len(u)
    BY <1>1, SeqFacts DEF Reads
  <1>3. \A g \in Outgoing : Encoded(g) \in Seq(Bytes)
    BY EncodedIsFrame
  <1>4. PICK e \in Seq(Bytes) : e = Encoded(f)
    BY <1>3
  <1>5. PICK v : v = u \o e
    OBVIOUS
  <1>6. v \in Seq(Bytes) /\ Len(v) = Len(u) + Len(e) /\ Len(e) \in Nat
    BY <1>5
  <1>7. m <= Len(v)
    BY <1>2, <1>6
  <1>8. SubSeq(v, 1, m) = SubSeq(u, 1, m)
    <2>1. CASE m = 0
      BY <1>2, <1>6, <2>1, SubSeqEmpty
    <2>2. CASE m # 0
      <3>1. 1 \in Nat /\ 1 >= 1 /\ 1 <= m
        BY <1>2, <2>2
      <3>2. SubSeq(u \o e, 1, m) = SubSeq(u, 1, m)
        BY <1>2, <3>1, HeadOfConcat
      <3> QED
        BY <1>5, <3>2, Zenon
    <2> QED
      BY <2>1, <2>2
  <1>9. SubSeq(v, m + 1, Len(v)) = stream \o e
    <2>1. m + 1 \in Nat /\ m + 1 >= 1 /\ m + 1 <= Len(u) + 1
      BY <1>2
    <2>2. SubSeq(u \o e, m + 1, Len(u \o e)) = SubSeq(u, m + 1, Len(u)) \o e
      BY <2>1, TailOfConcat
    <2> QED
      BY <1>1, <1>5, <2>2, Zenon DEF Reads
  <1>10. stream' = stream \o e
    <2>1. PICK h \in Seq(Bytes) : h = Header(f)
      BY HeaderWritten DEF Announces
    <2>2. PICK b \in Seq(Bytes) : b = f.body
      BY OutgoingAssumption DEF Frames
    <2>3. SubSeq(u, m + 1, Len(u)) \in Seq(Bytes)
      BY <1>2, SliceFacts
    <2>4. PICK s \in Seq(Bytes) : s = stream
      BY <1>1, <2>3 DEF Reads
    <2>5. (s \o h) \o b = s \o (h \o b)
      <3>1. \A q, a, c \in Seq(Bytes) : (q \o a) \o c = q \o (a \o c)
        BY BytesAssociative
      <3> QED
        BY <3>1, Zenon
    <2>6. e = h \o b
      BY <1>4, <2>1, <2>2, Zenon DEF Encoded
    <2>7. stream' = (stream \o Header(f)) \o f.body
      BY DEF Send
    <2> QED
      BY <2>1, <2>2, <2>4, <2>5, <2>6, <2>7, Zenon
  <1>11. Spells(v, Append(fs, f))
    <2>1. Spells(u \o Encoded(f), Append(fs, f))
      BY <1>1, <1>3, SpellsMore DEF Reads
    <2> QED
      BY <1>4, <1>5, <2>1, Zenon
  <1>12. delivered \in Seq(Outgoing) /\ sent = delivered \o fs
    BY <1>1 DEF CInv, Reads
  <1>13. sent' = delivered \o Append(fs, f) /\ Append(fs, f) \in Seq(Outgoing)
    <2>1. Append(delivered \o fs, f) = delivered \o Append(fs, f)
      BY <1>12, WaitsMore
    <2> QED
      BY <1>12, <2>1 DEF Send
  <1>14. receiver' = receiver /\ delivered' = delivered
    BY DEF Send
  <1>15. Reads(v, m, Append(fs, f))'
    BY <1>1, <1>7, <1>8, <1>9, <1>10, <1>11, <1>13, <1>14 DEF Reads
  <1>16. delivered' \in Seq(Outgoing)
    BY <1>12, <1>14
  <1> QED
    BY <1>2, <1>6, <1>13, <1>15, <1>16 DEF CInv

\* A chunk takes the receiver further into the first frame, or ends it and
\* delivers it.
LEMMA ReceiveCInv ==
    ASSUME CInv, NEW n \in 1 .. Len(stream), Receive(n), USIZE <= U64
    PROVE  CInv'
  <1>1. PICK u \in Seq(Bytes), m \in Nat, fs \in Seq(Outgoing) : Reads(u, m, fs)
    BY DEF CInv
  <1>2. Len(u) \in Nat /\ m \in Nat /\ m <= Len(u)
    BY <1>1, SeqFacts DEF Reads
  <1>3. stream = SubSeq(u, m + 1, Len(u)) /\ Len(stream) = Len(u) - m
    BY <1>1, <1>2, SliceFacts DEF Reads
  <1>4. n \in Nat /\ n >= 1 /\ m + n <= Len(u)
    BY <1>2, <1>3
  <1>5. fs # <<>>
    <2>1. u # <<>>
      BY <1>2, <1>4
    <2> QED
      BY <1>1, <2>1, SpellsNone DEF Reads
  <1>6. Spells(u, fs)
    BY <1>1 DEF Reads
  <1>7. PICK len \in 1 .. Len(u) :
            /\ IsFrame(SubSeq(u, 1, len)) /\ FrameOf(SubSeq(u, 1, len)) = Head(fs)
            /\ Spells(SubSeq(u, len + 1, Len(u)), Tail(fs))
    BY <1>5, <1>6, FirstFrame
  <1>8. len \in 0 .. Len(u) /\ len \in Nat
    BY <1>2
  <1>9. PICK p \in Seq(Bytes) : p = SubSeq(u, 1, m)
    <2>1. 1 \in Nat /\ 1 >= 1 /\ 1 <= m + 1
      BY <1>2
    <2>2. SubSeq(u, 1, m) \in Seq(Bytes)
      BY <1>2, <2>1, SliceFacts
    <2> QED
      BY <2>2, Zenon
  <1>10. PICK x : x = SubSeq(stream, 1, n)
    OBVIOUS
  <1>11. x = SubSeq(u, m + 1, m + n)
    <2>1. SubSeq(SubSeq(u, m + 1, Len(u)), 0 + 1, n) = SubSeq(u, (m + 0) + 1, m + n)
      BY <1>2, <1>4, SliceOfRest
    <2> QED
      BY <1>2, <1>3, <1>10, <2>1
  <1>12. x \in Seq(Bytes) /\ Len(x) = n
    BY <1>2, <1>4, <1>11, SliceFacts
  <1>13. ASSUME NEW j \in 0 .. n PROVE p \o SubSeq(x, 0 + 1, j) = SubSeq(u, 1, m + j)
    <2>1. 0 <= m
      BY <1>2
    <2>2. SubSeq(u, 0 + 1, m) \o SubSeq(SubSeq(u, m + 1, m + n), 0 + 1, j) = SubSeq(u, 0 + 1, m + j)
      BY <1>2, <1>4, <2>1, GrowSlice
    <2> QED
      BY <1>9, <1>11, <2>2
  <1>14. Partial(p) /\ receiver = StateAfter(p)
    BY <1>1, <1>9 DEF Reads
  <1>15. PICK r : r = Feed(receiver, x)
    OBVIOUS
  <1>16. Outcome(p, x, 0, r)
    BY <1>12, <1>14, <1>15, FeedOutcome
  <1>17. /\ receiver' = r.dec
         /\ stream' = SubSeq(stream, r.consumed + 1, Len(stream))
         /\ delivered' = IF r.res = "Some" THEN Append(delivered, r.frame) ELSE delivered
         /\ sent' = sent
    BY <1>10, <1>15 DEF Receive
  <1>18. delivered \in Seq(Outgoing) /\ sent = delivered \o fs
    BY <1>1 DEF CInv, Reads
  <1>19. ASSUME NEW j \in 0 .. n
         PROVE  SubSeq(stream, j + 1, Len(stream)) = SubSeq(u, (m + j) + 1, Len(u))
    <2>1. Len(stream) \in Nat /\ j \in Nat /\ j <= Len(stream) /\ m + Len(stream) = Len(u)
      BY <1>2, <1>3, <1>4
    <2>2. SubSeq(SubSeq(u, m + 1, Len(u)), j + 1, Len(stream)) = SubSeq(u, (m + j) + 1, m + Len(stream))
      BY <1>2, <2>1, SliceOfRest
    <2> QED
      BY <1>3, <2>1, <2>2
  <1>20. CASE r.res = "None"
    <2>1. /\ r.consumed = n
          /\ Partial(p \o SubSeq(x, 0 + 1, n)) /\ r.dec = StateAfter(p \o SubSeq(x, 0 + 1, n))
      BY <1>12, <1>16, <1>20 DEF Outcome
    <2>2. n \in 0 .. n /\ m + n \in 0 .. Len(u) /\ m + n \in Nat
      BY <1>2, <1>4
    <2>3. Partial(SubSeq(u, 1, m + n)) /\ receiver' = StateAfter(SubSeq(u, 1, m + n))
      BY <1>13, <1>17, <2>1, <2>2
    <2>4. stream' = SubSeq(u, (m + n) + 1, Len(u))
      BY <1>17, <1>19, <2>1, <2>2
    <2>5. delivered' = delivered
      BY <1>17, <1>20
    <2>6. Reads(u, m + n, fs)'
      BY <1>4, <1>6, <1>17, <1>18, <2>3, <2>4, <2>5 DEF Reads
    <2> QED
      BY <1>18, <2>2, <2>5, <2>6 DEF CInv
  <1>21. CASE r.res = "Some"
    <2>1. /\ r.consumed \in 0 + 1 .. Len(x)
          /\ IsFrame(p \o SubSeq(x, 0 + 1, r.consumed)) /\ r.dec = NewDecoder
          /\ r.frame = FrameOf(p \o SubSeq(x, 0 + 1, r.consumed))
      BY <1>16, <1>21 DEF Outcome
    <2>2. PICK c \in 0 .. n : c = r.consumed
      BY <1>4, <1>12, <2>1
    <2>3. c \in Nat /\ m + c \in 0 .. Len(u)
      BY <1>2, <1>4
    <2>4. IsFrame(SubSeq(u, 1, m + c)) /\ r.frame = FrameOf(SubSeq(u, 1, m + c))
      BY <1>13, <2>1, <2>2
    <2>5. m + c = len
      BY <1>7, <1>8, <2>3, <2>4, BeginningsOf
    <2>6. r.frame = Head(fs)
      BY <1>7, <2>4, <2>5
    <2>7. PICK v \in Seq(Bytes) : v = SubSeq(u, len + 1, Len(u))
      <3>1. len + 1 \in Nat /\ len + 1 >= 1 /\ Len(u) <= Len(u) /\ len + 1 <= Len(u) + 1
        BY <1>2
      <3>2. SubSeq(u, len + 1, Len(u)) \in Seq(Bytes)
        BY <1>2, <3>1, SliceFacts
      <3> QED
        BY <3>2, Zenon
    <2>8. stream' = v
      BY <1>17, <1>19, <2>2, <2>5, <2>7
    <2>9. SubSeq(v, 1, 0) = <<>> /\ SubSeq(v, 0 + 1, Len(v)) = v /\ 0 \in Nat /\ 0 <= Len(v)
      BY SubSeqEmpty
    <2>10. Partial(<<>>) /\ StateAfter(<<>>) = NewDecoder
      BY DEF Partial, Invalid, StateAfter
    <2>11. /\ Tail(fs) \in Seq(Outgoing) /\ Head(fs) \in Outgoing
           /\ delivered' = Append(delivered, Head(fs)) /\ delivered' \in Seq(Outgoing)
      BY <1>5, <1>17, <1>18, <1>21, <2>6
    <2>12. sent' = delivered' \o Tail(fs)
      <3>1. delivered \o fs = Append(delivered, Head(fs)) \o Tail(fs)
        BY <1>5, <1>18, WaitsLess
      <3> QED
        BY <1>17, <1>18, <2>11, <3>1, Zenon
    <2>13. Reads(v, 0, Tail(fs))'
      BY <1>7, <1>17, <2>1, <2>7, <2>8, <2>9, <2>10, <2>12 DEF Reads
    <2> QED
      BY <2>9, <2>11, <2>13 DEF CInv
  <1>22. CASE r.res \in {"ReservedFlagBits", "BodyTooLarge"}
    <2>1. Invalid(p \o SubSeq(x, 0 + 1, n))
      BY <1>12, <1>16, <1>22 DEF Outcome
    <2>2. n \in 0 .. n /\ m + n \in 0 .. Len(u) /\ m + n \in Nat
      BY <1>2, <1>4
    <2>3. Invalid(SubSeq(u, 1, m + n))
      BY <1>13, <2>1, <2>2
    <2> QED
      BY <1>7, <1>8, <2>2, <2>3, BeginningsOf
  <1> QED
    BY <1>16, <1>20, <1>21, <1>22 DEF Outcome

\* What was delivered came first, and when nothing is left to read no frame has
\* been begun.
LEMMA CInvRoundTrip ==
    ASSUME CInv, USIZE <= U64
    PROVE  RoundTrip
  <1>1. PICK u \in Seq(Bytes), m \in Nat, fs \in Seq(Outgoing) : Reads(u, m, fs)
    BY DEF CInv
  <1>2. delivered \in Seq(Outgoing) /\ sent = delivered \o fs
    BY <1>1 DEF CInv, Reads
  <1>3. /\ Len(delivered) <= Len(sent)
        /\ \A i \in DOMAIN delivered : delivered[i] = sent[i]
    BY <1>2
  <1>4. ASSUME stream = <<>> PROVE delivered = sent
    <2>1. Len(u) \in Nat /\ m \in Nat /\ m <= Len(u)
      BY <1>1, SeqFacts DEF Reads
    <2>2. Len(stream) = Len(u) - m
      BY <1>1, <2>1, SliceFacts DEF Reads
    <2>3. m = Len(u)
      BY <1>4, <2>1, <2>2
    <2>4. Partial(SubSeq(u, 1, m)) /\ Spells(u, fs)
      BY <1>1 DEF Reads
    <2>5. fs = <<>>
      <3> SUFFICES ASSUME fs # <<>> PROVE FALSE
        OBVIOUS
      <3>1. PICK len \in 1 .. Len(u) : IsFrame(SubSeq(u, 1, len))
        BY <2>4, FirstFrame
      <3>2. len \in 0 .. Len(u) /\ m \in 0 .. Len(u)
        BY <2>1
      <3>3. m < len
        BY <2>4, <3>1, <3>2, BeginningsOf
      <3> QED
        BY <2>1, <2>3, <3>3
    <2> QED
      BY <1>2, <2>5
  <1> QED
    BY <1>3, <1>4 DEF RoundTrip

\* RoundTrip for every set of frames, any number of them, every capacity and
\* every chunking: frame.rs reads what it writes. A size announced is at most a
\* usize, and no wider than the eight bytes of a long size.
THEOREM RoundTripCorrect ==
    ASSUME USIZE <= U64
    PROVE  ChannelSpec => []RoundTrip
  <1>1. ChannelInit => CInv
    BY ChannelInitCInv
  <1>2. CInv /\ [ChannelNext]_channelVars => CInv'
    <2> SUFFICES ASSUME CInv, [ChannelNext]_channelVars PROVE CInv'
      OBVIOUS
    <2>1. CASE \E f \in Outgoing : Send(f)
      BY <2>1, SendCInv
    <2>2. CASE \E n \in 1 .. Len(stream) : Receive(n)
      BY <2>2, ReceiveCInv
    <2>3. CASE UNCHANGED channelVars
      BY <2>3 DEF CInv, Reads, channelVars
    <2> QED
      BY <2>1, <2>2, <2>3 DEF ChannelNext
  <1>3. CInv => RoundTrip
    BY CInvRoundTrip
  <1> QED
    BY <1>1, <1>2, <1>3, PTL DEF ChannelSpec
=============================================================================
