-------------------------- MODULE WalWriterProofs --------------------------
(***************************************************************************)
(* What the page writer and the encoder promise for every size of word,    *)
(* sector, page, buffer and record, at every offset at which a file may be *)
(* opened.                                                                 *)
(*                                                                         *)
(* Good says what the writer holds: file and buffer together are the       *)
(* stream that was encoded, in order and once, and all of it as long as    *)
(* the file did not fail; the buffer exceeds its watermark at most by the  *)
(* part of a page that was begun (Room); pageOffset is the offset of the   *)
(* file's end in its page (Aligned).  FramesAligned says that frames begin *)
(* at multiples of a word.                                                 *)
(***************************************************************************)
EXTENDS WalWriter, SequenceTheorems, TLAPS

----------------------------------------------------------------------------
(* Quotients and remainders.                                               *)

\* The meaning of \div and %.
LEMMA DivMod ==
  ASSUME NEW P \in Nat \ {0}, NEW x \in Int
  PROVE  x \div P \in Int /\ x % P \in Int /\ 0 <= x % P /\ x % P < P /\ x = P * (x \div P) + (x % P)
  OBVIOUS

\* The only multiple of P nearer to zero than P is zero.
LEMMA MultipleBelow ==
  ASSUME NEW P \in Nat \ {0}, NEW q \in Int, NEW d \in Int, d < P, -P < d, P * q = d
  PROVE  q = 0
<1>1. CASE q >= 1
  BY <1>1
<1>2. CASE q <= -1
  BY <1>2
<1> QED BY <1>1, <1>2

\* Quotient and remainder are determined by what they mean.
LEMMA DivUnique ==
  ASSUME NEW P \in Nat \ {0}, NEW q \in Int, NEW m \in Int, 0 <= m, m < P, NEW x \in Int, x = P * q + m
  PROVE  x % P = m /\ x \div P = q
<1> DEFINE d == x \div P
           e == x % P
<1>1. d \in Int /\ e \in Int /\ 0 <= e /\ e < P /\ x = P * d + e
  BY DivMod
<1> HIDE DEF d, e
<1>2. P * (q - d) = e - m
  BY <1>1
<1>3. q - d = 0
  BY <1>1, <1>2, MultipleBelow
<1>4. q = d
  BY <1>1, <1>3
<1>5. e = m
  BY <1>1, <1>4
<1> QED BY <1>4, <1>5 DEF d, e

\* Adding to a number without leaving its page.
LEMMA ModAdd ==
  ASSUME NEW P \in Nat \ {0}, NEW e \in Int, NEW n \in Nat, (e % P) + n < P
  PROVE  (e + n) % P = (e % P) + n
<1>1. e \div P \in Int /\ (e % P) \in Int /\ 0 <= (e % P) /\ e = P * (e \div P) + (e % P)
  BY DivMod
<1> DEFINE q == e \div P
           m == (e % P) + n
           x == e + n
<1>2. /\ x = P * q + m /\ x \in Int /\ q \in Int /\ m \in Int /\ 0 <= m /\ m < P
  BY <1>1
<1> HIDE DEF q, m, x
<1>3. x % P = m
  BY <1>2, DivUnique
<1> QED BY <1>3 DEF m, x

\* A word that begins at a multiple of its size does not cross a sector.
LEMMA WordInSector ==
  ASSUME NEW W \in Nat \ {0}, NEW S \in Nat \ {0}, S % W = 0, NEW x \in Nat, x % W = 0
  PROVE  x \div S = (x + W - 1) \div S
<1> DEFINE b == S \div W
           a == x \div W
           q == x \div S
           m == x % S
<1>1. b \in Int /\ S = W * b /\ a \in Int /\ x = W * a
  BY DivMod
<1>2. q \in Int /\ m \in Int /\ 0 <= m /\ m < S /\ x = S * q + m
  BY DivMod
<1> HIDE DEF a, b, q, m
<1>3. m = W * (a - b * q)
  <2>1. m = W * a - (W * b) * q
    BY <1>1, <1>2
  <2>2. (W * b) * q = W * (b * q) /\ b * q \in Int
    BY <1>1, <1>2
  <2> QED BY <1>1, <1>2, <2>1, <2>2
<1> DEFINE k == b - (a - b * q)
<1>4. k \in Int /\ S - m = W * k
  BY <1>1, <1>2, <1>3
<1> HIDE DEF k
<1>5. k >= 1
  BY <1>2, <1>4
<1>6. W * k >= W
  BY <1>4, <1>5
<1>7. m + W - 1 < S /\ 0 <= m + W - 1
  BY <1>2, <1>4, <1>6
<1>8. x + W - 1 = S * q + (m + W - 1)
  BY <1>2
<1>9. (x + W - 1) \div S = q
  BY <1>2, <1>7, <1>8, DivUnique
<1> QED BY <1>9 DEF q

----------------------------------------------------------------------------
(* Byte sequences.                                                         *)

\* t is a beginning of s.
Prefix(t, s) == Len(t) <= Len(s) /\ \A i \in 1 .. Len(t) : t[i] = s[i]

\* Beginnings, put after the same bytes.
LEMMA PrefixOfConcat ==
  ASSUME NEW f \in Seq(Nat), NEW t \in Seq(Nat), NEW p \in Seq(Nat), Prefix(t, p)
  PROVE  Prefix(f \o t, f \o p)
<1>1. Len(f) \in Nat /\ Len(t) \in Nat /\ Len(p) \in Nat
  BY LenProperties
<1>2. /\ Len(f \o t) = Len(f) + Len(t) /\ Len(f \o p) = Len(f) + Len(p)
      /\ \A i \in 1 .. Len(f) + Len(t) : (f \o t)[i] = IF i <= Len(f) THEN f[i] ELSE t[i - Len(f)]
      /\ \A i \in 1 .. Len(f) + Len(p) : (f \o p)[i] = IF i <= Len(f) THEN f[i] ELSE p[i - Len(f)]
  BY ConcatProperties
<1>3. ASSUME NEW i \in 1 .. Len(f) + Len(t) PROVE (f \o t)[i] = (f \o p)[i]
  <2>1. CASE i <= Len(f)
    BY <1>1, <1>2, <2>1 DEF Prefix
  <2>2. CASE i > Len(f)
    <3>1. i - Len(f) \in 1 .. Len(t) /\ i \in 1 .. Len(f) + Len(p)
      BY <1>1, <2>2 DEF Prefix
    <3> QED BY <1>1, <1>2, <2>2, <3>1 DEF Prefix
  <2>3. i <= Len(f) \/ i > Len(f)
    BY <1>1
  <2> QED BY <2>1, <2>2, <2>3
<1> QED BY <1>1, <1>2, <1>3 DEF Prefix

\* A beginning stays one when bytes are added.
LEMMA PrefixLonger ==
  ASSUME NEW t \in Seq(Nat), NEW s \in Seq(Nat), NEW p \in Seq(Nat), Prefix(t, s)
  PROVE  Prefix(t, s \o p)
<1>1. Len(s) \in Nat /\ Len(t) \in Nat /\ Len(p) \in Nat
  BY LenProperties
<1>2. /\ Len(s \o p) = Len(s) + Len(p)
      /\ \A i \in 1 .. Len(s) + Len(p) : (s \o p)[i] = IF i <= Len(s) THEN s[i] ELSE p[i - Len(s)]
  BY ConcatProperties
<1>3. ASSUME NEW i \in 1 .. Len(t) PROVE t[i] = (s \o p)[i]
  BY <1>1, <1>2 DEF Prefix
<1> QED BY <1>1, <1>2, <1>3 DEF Prefix

\* The first c bytes are a beginning.
LEMMA PrefixSubSeq ==
  ASSUME NEW p \in Seq(Nat), NEW c \in 0 .. Len(p)
  PROVE  SubSeq(p, 1, c) \in Seq(Nat) /\ Len(SubSeq(p, 1, c)) = c /\ Prefix(SubSeq(p, 1, c), p)
<1>1. Len(p) \in Nat /\ \A i \in 1 .. Len(p) : p[i] \in Nat
  BY LenProperties, ElementOfSeq
<1>2. \A i \in 1 .. c : p[i] \in Nat
  BY <1>1
<1>3. /\ SubSeq(p, 1, c) \in Seq(Nat)
      /\ Len(SubSeq(p, 1, c)) = IF 1 <= c THEN c - 1 + 1 ELSE 0
      /\ \A i \in 1 .. c - 1 + 1 : SubSeq(p, 1, c)[i] = p[1 + i - 1]
  BY <1>1, <1>2, SubSeqProperties
<1>4. Len(SubSeq(p, 1, c)) = c
  BY <1>1, <1>3
<1>5. \A i \in 1 .. c : SubSeq(p, 1, c)[i] = p[i]
  BY <1>1, <1>3
<1> QED BY <1>1, <1>3, <1>4, <1>5 DEF Prefix

\* Cut in two and put together again.
LEMMA TwoParts ==
  ASSUME NEW p \in Seq(Nat), NEW c \in 0 .. Len(p)
  PROVE  /\ SubSeq(p, 1, c) \in Seq(Nat) /\ Len(SubSeq(p, 1, c)) = c
         /\ SubSeq(p, c + 1, Len(p)) \in Seq(Nat) /\ Len(SubSeq(p, c + 1, Len(p))) = Len(p) - c
         /\ SubSeq(p, 1, c) \o SubSeq(p, c + 1, Len(p)) = p
<1>1. Len(p) \in Nat /\ \A i \in 1 .. Len(p) : p[i] \in Nat
  BY LenProperties, ElementOfSeq
<1>2. \A i \in c + 1 .. Len(p) : p[i] \in Nat
  BY <1>1
<1>3. /\ SubSeq(p, c + 1, Len(p)) \in Seq(Nat)
      /\ Len(SubSeq(p, c + 1, Len(p))) = IF c + 1 <= Len(p) THEN Len(p) - (c + 1) + 1 ELSE 0
  BY <1>1, <1>2, SubSeqProperties
<1>4. SubSeq(p, 1, c) \o SubSeq(p, c + 1, Len(p)) = SubSeq(p, 1, Len(p))
  <2>1. 1 \in 1 .. Len(p) + 1 /\ c \in 1 - 1 .. Len(p) /\ Len(p) \in c .. Len(p)
    BY <1>1
  <2> QED BY <2>1, ConcatAdjacentSubSeq
<1>5. SubSeq(p, 1, Len(p)) = p
  BY SubSeqFull
<1>6. Len(SubSeq(p, c + 1, Len(p))) = Len(p) - c
  BY <1>1, <1>3
<1> QED BY <1>3, <1>4, <1>5, <1>6, PrefixSubSeq

\* Where three sequences are put together first does not matter.
LEMMA Associative ==
  \A s, t, u \in Seq(Nat) : (s \o t) \o u = s \o (t \o u)
  BY ConcatAssociative

----------------------------------------------------------------------------
(* What a call of the page writer does to the stream of bytes.             *)

\* The states of a writer.
Writer == [file : Seq(Nat), buf : Seq(Nat), pageOffset : Nat, failures : Nat]

\* What is in the file and what is to follow it.
Stream(w) == w.file \o w.buf

\* v is w after p was written: without a failure all of p came into the stream;
\* else the stream ends before p does, perhaps even before the buffer of w did.
Took(w, p, v) ==
  /\ v.failures >= w.failures
  /\ Prefix(Stream(v), Stream(w) \o p)
  /\ v.failures = w.failures => Stream(v) = Stream(w) \o p

\* The types of a writer's parts.
LEMMA StreamType ==
  ASSUME NEW w \in Writer
  PROVE  /\ w.file \in Seq(Nat) /\ w.buf \in Seq(Nat) /\ w.pageOffset \in Nat /\ w.failures \in Nat
         /\ Stream(w) \in Seq(Nat) /\ Len(w.file) \in Nat /\ Len(w.buf) \in Nat
         /\ Len(Stream(w)) = Len(w.file) + Len(w.buf)
<1>1. w.file \in Seq(Nat) /\ w.buf \in Seq(Nat) /\ w.pageOffset \in Nat /\ w.failures \in Nat
  BY DEF Writer
<1> QED BY <1>1, ConcatProperties, LenProperties DEF Stream

\* Every sequence begins with itself.
LEMMA PrefixRefl == ASSUME NEW s \in Seq(Nat) PROVE Prefix(s, s)
<1>1. Len(s) \in Nat
  BY LenProperties
<1> QED BY <1>1 DEF Prefix

\* All of it.
LEMMA TookAll ==
  ASSUME NEW w \in Writer, NEW v \in Writer, NEW p \in Seq(Nat), v.failures = w.failures,
         Stream(v) = Stream(w) \o p
  PROVE  Took(w, p, v)
<1>1. Stream(w) \o p \in Seq(Nat)
  BY StreamType, ConcatProperties
<1>2. v.failures >= w.failures
  BY DEF Writer
<1> QED BY <1>1, <1>2, PrefixRefl DEF Took

\* One call after another that did not fail.
LEMMA TookThen ==
  ASSUME NEW w \in Writer, NEW v \in Writer, NEW u \in Writer, NEW p \in Seq(Nat), NEW q \in Seq(Nat),
         Took(w, p, v), v.failures = w.failures, Took(v, q, u)
  PROVE  Took(w, p \o q, u)
<1>1. Stream(v) = Stream(w) \o p
  BY DEF Took
<1>2. Stream(w) \in Seq(Nat)
  BY StreamType
<1>3. (Stream(w) \o p) \o q = Stream(w) \o (p \o q)
  BY <1>2, Associative
<1> QED BY <1>1, <1>3 DEF Took

\* A call that failed, and what was not written after it.
LEMMA TookPart ==
  ASSUME NEW w \in Writer, NEW v \in Writer, NEW p \in Seq(Nat), NEW q \in Seq(Nat),
         Took(w, p, v), v.failures > w.failures
  PROVE  Took(w, p \o q, v)
<1>0. Stream(w) \in Seq(Nat) /\ Stream(v) \in Seq(Nat)
  BY StreamType
<1>1. Stream(w) \o (p \o q) = (Stream(w) \o p) \o q
  BY <1>0, Associative
<1>2. Prefix(Stream(v), (Stream(w) \o p) \o q)
  <2>1. Stream(w) \o p \in Seq(Nat) /\ Prefix(Stream(v), Stream(w) \o p)
    BY <1>0, ConcatProperties DEF Took
  <2> QED BY <1>0, <2>1, PrefixLonger
<1>3. v.failures >= w.failures /\ v.failures # w.failures
  BY DEF Writer
<1> QED BY <1>1, <1>2, <1>3 DEF Took

\* The sizes are numbers, and a page fits in the buffer.
LEMMA Sizes1 == PageBytes \in Nat \ {0} /\ WordBytes \in Nat \ {0} /\ SectorBytes \in Nat \ {0}
                /\ Watermark \in Nat /\ PageBytes <= Watermark
  BY WalAssumption

\* copy() into the buffer: all of p is taken, the file does not change.
LEMMA BufferedOK ==
  ASSUME NEW w \in Writer, NEW p \in Seq(Nat)
  PROVE  LET v == Buffered(w, p)
         IN  /\ v \in Writer /\ v.file = w.file /\ v.buf = w.buf \o p
             /\ Len(v.buf) = Len(w.buf) + Len(p) /\ v.pageOffset = w.pageOffset
             /\ v.failures = w.failures /\ Took(w, p, v)
<1> DEFINE v == Buffered(w, p)
           b == w.buf \o p
<1>1. w.file \in Seq(Nat) /\ w.buf \in Seq(Nat)
  BY StreamType
<1>2. b \in Seq(Nat) /\ Len(b) = Len(w.buf) + Len(p)
  BY <1>1, ConcatProperties
<1>3. v = [w EXCEPT !.buf = b]
  BY DEF Buffered
<1> HIDE DEF b, v
<1>4. /\ v \in Writer /\ v.file = w.file /\ v.buf = b /\ v.pageOffset = w.pageOffset
      /\ v.failures = w.failures
  BY <1>2, <1>3 DEF Writer
<1>5. Stream(v) = Stream(w) \o p
  <2>1. (w.file \o w.buf) \o p = w.file \o (w.buf \o p)
    BY <1>1, Associative
  <2> QED BY <1>4, <2>1 DEF Stream, b
<1>6. Took(w, p, v)
  BY <1>4, <1>5, TookAll
<1> QED BY <1>2, <1>4, <1>6 DEF b, v

\* The file takes all of p, or a beginning of it and fails.
LEMMA FileWriteOK ==
  ASSUME NEW w \in Writer, NEW p \in Seq(Nat), NEW o \in FileWrite(w, p)
  PROVE  /\ o.pw \in Writer /\ o.pw.buf = w.buf /\ o.pw.pageOffset = w.pageOffset
         /\ \/ o.err = FALSE /\ o.pw.failures = w.failures /\ o.pw.file = w.file \o p
            \/ /\ o.err = TRUE /\ o.pw.failures > w.failures
               /\ \E t \in Seq(Nat) : Prefix(t, p) /\ o.pw.file = w.file \o t
<1>1. /\ w.file \in Seq(Nat) /\ w.failures \in Nat /\ Len(p) \in Nat
  BY StreamType, LenProperties
<1>2. \/ o = Outcome([w EXCEPT !.file = @ \o p], FALSE)
      \/ \E c \in 0 .. Len(p) - 1 :
           o = Outcome([w EXCEPT !.file = @ \o SubSeq(p, 1, c), !.failures = @ + 1], TRUE)
  BY DEF FileWrite
<1>3. CASE o = Outcome([w EXCEPT !.file = @ \o p], FALSE)
  <2> DEFINE f == w.file \o p
  <2>1. f \in Seq(Nat)
    BY <1>1, ConcatProperties
  <2>2. o.pw = [w EXCEPT !.file = f] /\ o.err = FALSE
    BY <1>3 DEF Outcome
  <2> HIDE DEF f
  <2>3. /\ o.pw \in Writer /\ o.pw.buf = w.buf /\ o.pw.pageOffset = w.pageOffset
        /\ o.pw.failures = w.failures /\ o.pw.file = f
    BY <2>1, <2>2 DEF Writer
  <2> QED BY <2>2, <2>3 DEF f
<1>4. ASSUME NEW c \in 0 .. Len(p) - 1,
             o = Outcome([w EXCEPT !.file = @ \o SubSeq(p, 1, c), !.failures = @ + 1], TRUE)
      PROVE  /\ o.pw \in Writer /\ o.pw.buf = w.buf /\ o.pw.pageOffset = w.pageOffset
             /\ o.err = TRUE /\ o.pw.failures > w.failures
             /\ \E t \in Seq(Nat) : Prefix(t, p) /\ o.pw.file = w.file \o t
  <2> DEFINE t == SubSeq(p, 1, c)
             f == w.file \o t
             n == w.failures + 1
  <2>1. t \in Seq(Nat) /\ Prefix(t, p)
    <3>1. c \in 0 .. Len(p)
      BY <1>1
    <3> QED BY <3>1, PrefixSubSeq
  <2>2. f \in Seq(Nat) /\ n \in Nat /\ n > w.failures
    BY <1>1, <2>1, ConcatProperties
  <2>3. o.pw = [w EXCEPT !.file = f, !.failures = n] /\ o.err = TRUE
    BY <1>4 DEF Outcome
  <2> HIDE DEF f, n
  <2>4. /\ o.pw \in Writer /\ o.pw.buf = w.buf /\ o.pw.pageOffset = w.pageOffset
        /\ o.pw.failures = n /\ o.pw.file = f
    BY <2>2, <2>3 DEF Writer
  <2> QED BY <2>1, <2>2, <2>3, <2>4 DEF f
<1> QED BY <1>2, <1>3, <1>4

\* flush empties the buffer; without a failure all of it is in the file, and
\* pageOffset moves as the file's end does, up to whole pages.
LEMMA FlushOK ==
  ASSUME NEW w \in Writer, NEW o \in flush(w)
  PROVE  /\ o.pw \in Writer /\ o.pw.buf = <<>> /\ Took(w, <<>>, o.pw) /\ o.err \in BOOLEAN
         /\ o.err => o.pw.failures > w.failures
         /\ ~o.err => /\ o.pw.failures = w.failures /\ o.pw.file = Stream(w)
                      /\ \E q \in Int : w.pageOffset + Len(w.buf) = o.pw.pageOffset + PageBytes * q
<1>1. /\ w.file \in Seq(Nat) /\ w.buf \in Seq(Nat) /\ w.pageOffset \in Nat /\ Len(w.buf) \in Nat
      /\ w.failures \in Nat /\ Stream(w) \in Seq(Nat) /\ <<>> \in Seq(Nat)
  BY StreamType, EmptySeq
<1>2. CASE w.buf = <<>>
  <2>1. o.pw = w /\ o.err = FALSE
    BY <1>2 DEF flush, Outcome
  <2>2. Stream(w) = w.file
    BY <1>1, <1>2, ConcatEmptySeq DEF Stream
  <2>3. Stream(w) \o <<>> = Stream(w)
    BY <1>1, ConcatEmptySeq
  <2>4. Took(w, <<>>, w)
    BY <1>1, <2>3, TookAll
  <2>5. Len(w.buf) = 0 /\ w.pageOffset + Len(w.buf) = w.pageOffset + PageBytes * 0
    BY <1>1, <1>2, EmptySeq, Sizes1
  <2>6. \E q \in Int : w.pageOffset + Len(w.buf) = w.pageOffset + PageBytes * q
    BY <2>5
  <2> QED BY <1>2, <2>1, <2>2, <2>4, <2>6
<1>3. CASE w.buf # <<>>
  <2>1. PICK a \in FileWrite(w, w.buf) : o = Outcome(Emptied(a.pw, Len(w.buf)), a.err)
    BY <1>3 DEF flush
  <2> DEFINE x == w.pageOffset + Len(w.buf)
             v == Emptied(a.pw, Len(w.buf))
  <2>2. /\ a.pw \in Writer /\ a.pw.buf = w.buf /\ a.pw.pageOffset = w.pageOffset
        /\ \/ a.err = FALSE /\ a.pw.failures = w.failures /\ a.pw.file = w.file \o w.buf
           \/ /\ a.err = TRUE /\ a.pw.failures > w.failures
              /\ \E t \in Seq(Nat) : Prefix(t, w.buf) /\ a.pw.file = w.file \o t
    BY <1>1, FileWriteOK
  <2>3. x \in Int /\ x \div PageBytes \in Int /\ x % PageBytes \in Nat
        /\ x = (x % PageBytes) + PageBytes * (x \div PageBytes)
    <3>1. x \in Int
      BY <1>1
    <3> HIDE DEF x
    <3>2. /\ x \div PageBytes \in Int /\ x % PageBytes \in Int /\ 0 <= x % PageBytes
          /\ x = PageBytes * (x \div PageBytes) + (x % PageBytes)
      BY <3>1, Sizes1, DivMod
    <3> QED BY <3>1, <3>2, Sizes1
  <2>4. /\ v = [a.pw EXCEPT !.buf = <<>>, !.pageOffset = x % PageBytes]
    BY <2>2 DEF Emptied
  <2>5. /\ v \in Writer /\ v.buf = <<>> /\ v.file = a.pw.file /\ v.failures = a.pw.failures
        /\ v.pageOffset = x % PageBytes
    <3> DEFINE y == x % PageBytes
    <3>1. y \in Nat /\ v = [a.pw EXCEPT !.buf = <<>>, !.pageOffset = y]
      BY <2>3, <2>4
    <3> HIDE DEF v, y
    <3>2. /\ v \in Writer /\ v.buf = <<>> /\ v.file = a.pw.file /\ v.failures = a.pw.failures
          /\ v.pageOffset = y
      BY <1>1, <2>2, <3>1 DEF Writer
    <3> QED BY <3>2 DEF y
  <2>6. o.pw = v /\ o.err = a.err
    BY <2>1 DEF Outcome
  <2> HIDE DEF v
  <2>7. Stream(v) = v.file
    BY <1>1, <2>5, StreamType, ConcatEmptySeq DEF Stream
  <2>8. Stream(w) \o <<>> = Stream(w)
    BY <1>1, ConcatEmptySeq
  <2>9. CASE a.err = FALSE /\ a.pw.failures = w.failures /\ a.pw.file = w.file \o w.buf
    <3>1. Stream(v) = Stream(w) \o <<>>
      BY <2>5, <2>7, <2>8, <2>9 DEF Stream
    <3>2. Took(w, <<>>, v)
      BY <1>1, <2>5, <2>9, <3>1, TookAll
    <3>3. \E q \in Int : x = v.pageOffset + PageBytes * q
      BY <2>3, <2>5
    <3> QED BY <2>5, <2>6, <2>7, <2>8, <2>9, <3>1, <3>2, <3>3
  <2>10. ASSUME a.err = TRUE, a.pw.failures > w.failures,
                NEW t \in Seq(Nat), Prefix(t, w.buf), a.pw.file = w.file \o t
         PROVE  Took(w, <<>>, v) /\ v.failures > w.failures
    <3>1. Prefix(Stream(v), Stream(w) \o <<>>)
      BY <1>1, <2>5, <2>7, <2>8, <2>10, PrefixOfConcat DEF Stream
    <3>2. v.failures >= w.failures /\ v.failures # w.failures /\ v.failures > w.failures
      BY <1>1, <2>2, <2>5, <2>10 DEF Writer
    <3> QED BY <3>1, <3>2 DEF Took
  <2> QED BY <2>2, <2>5, <2>6, <2>9, <2>10
<1> QED BY <1>2, <1>3

\* After the flush: whole pages to the file, at most a page to the buffer.
LEMMA WritePagesOK ==
  ASSUME NEW w \in Writer, w.buf = <<>>, NEW p \in Seq(Nat), NEW o \in WritePages(w, p)
  PROVE  /\ o.pw \in Writer /\ Took(w, p, o.pw) /\ Len(o.pw.buf) <= PageBytes
         /\ o.pw.pageOffset = w.pageOffset
         /\ o.err => o.pw.failures # w.failures
         /\ o.pw.failures = w.failures =>
              \E k \in Int : Len(o.pw.file) = Len(w.file) + PageBytes * k
<1> DEFINE direct == IF Len(p) > PageBytes THEN (Len(p) \div PageBytes) * PageBytes ELSE 0
           head == SubSeq(p, 1, direct)
           tail == SubSeq(p, direct + 1, Len(p))
<1>1. /\ w.file \in Seq(Nat) /\ w.failures \in Nat /\ Len(w.file) \in Nat /\ Len(w.buf) = 0
      /\ Len(p) \in Nat /\ <<>> \in Seq(Nat)
  BY StreamType, LenProperties, EmptySeq
<1>2. CASE ~(Len(p) > PageBytes)
  <2>1. direct = 0
    BY <1>2
  <2>2. o = Outcome(Buffered(w, p), FALSE)
    BY <2>1 DEF WritePages
  <2> DEFINE v == Buffered(w, p)
  <2>3. /\ v \in Writer /\ v.file = w.file /\ Len(v.buf) = Len(w.buf) + Len(p)
        /\ v.pageOffset = w.pageOffset /\ Took(w, p, v)
    BY BufferedOK
  <2>4. o.pw = v /\ ~o.err
    BY <2>2 DEF Outcome
  <2> HIDE DEF v
  <2>5. Len(v.buf) <= PageBytes
    BY <1>1, <1>2, <2>3, Sizes1
  <2>6. PageBytes * 0 = 0 /\ Len(w.file) + 0 = Len(w.file) /\ 0 \in Int
    BY <1>1, Sizes1
  <2>7. \E k \in Int : Len(v.file) = Len(w.file) + PageBytes * k
    BY <2>3, <2>6
  <2> QED BY <2>3, <2>4, <2>5, <2>7
<1>3. CASE Len(p) > PageBytes
  <2> DEFINE d == Len(p) \div PageBytes
             m == Len(p) % PageBytes
  <2>1. d \in Int /\ m \in Int /\ 0 <= m /\ m < PageBytes /\ Len(p) = PageBytes * d + m
    <3> DEFINE n == Len(p)
    <3>1. n \in Int
      BY <1>1
    <3> HIDE DEF n
    <3>2. /\ n \div PageBytes \in Int /\ n % PageBytes \in Int /\ 0 <= n % PageBytes
          /\ n % PageBytes < PageBytes /\ n = PageBytes * (n \div PageBytes) + (n % PageBytes)
      BY <3>1, DivMod, Sizes1
    <3> QED BY <3>2 DEF n
  <2>2. direct = PageBytes * d
    BY <1>3, <2>1, Sizes1
  <2> HIDE DEF d, m, direct
  <2>3. direct \in Int /\ direct = Len(p) - m
    BY <1>1, <2>1, <2>2, Sizes1
  <2>4. direct \in 0 .. Len(p) /\ direct # 0
    BY <1>1, <1>3, <2>1, <2>3, Sizes1
  <2>5. PICK a \in FileWrite(w, head) :
          o = IF a.err THEN a ELSE Outcome(Buffered(a.pw, tail), FALSE)
    BY <2>4 DEF WritePages, direct
  <2>6. /\ head \in Seq(Nat) /\ Len(head) = direct /\ tail \in Seq(Nat)
        /\ Len(tail) = Len(p) - direct /\ head \o tail = p
    BY <2>4, TwoParts
  <2> HIDE DEF head, tail
  <2>7. /\ a.pw \in Writer /\ a.pw.buf = <<>> /\ a.pw.pageOffset = w.pageOffset
        /\ \/ a.err = FALSE /\ a.pw.failures = w.failures /\ a.pw.file = w.file \o head
           \/ /\ a.err = TRUE /\ a.pw.failures > w.failures
              /\ \E t \in Seq(Nat) : Prefix(t, head) /\ a.pw.file = w.file \o t
    <3>1. a \in FileWrite(w, head)
      BY <2>5
    <3>2. /\ a.pw \in Writer /\ a.pw.buf = w.buf /\ a.pw.pageOffset = w.pageOffset
          /\ \/ a.err = FALSE /\ a.pw.failures = w.failures /\ a.pw.file = w.file \o head
             \/ /\ a.err = TRUE /\ a.pw.failures > w.failures
                /\ \E t \in Seq(Nat) : Prefix(t, head) /\ a.pw.file = w.file \o t
      BY <2>6, <3>1, FileWriteOK
    <3> QED BY <3>2
  <2>8. Stream(w) = w.file /\ Stream(a.pw) = a.pw.file
    BY <1>1, <2>7, StreamType, ConcatEmptySeq DEF Stream
  <2>9. CASE a.err = FALSE /\ a.pw.failures = w.failures /\ a.pw.file = w.file \o head
    <3> DEFINE v == Buffered(a.pw, tail)
    <3>1. /\ v \in Writer /\ v.file = a.pw.file /\ Len(v.buf) = Len(a.pw.buf) + Len(tail)
          /\ v.pageOffset = a.pw.pageOffset /\ Took(a.pw, tail, v)
      BY <2>6, <2>7, BufferedOK
    <3>2. o.pw = v /\ ~o.err
      BY <2>5, <2>9 DEF Outcome
    <3> HIDE DEF v
    <3>3. Took(w, head, a.pw)
      BY <2>6, <2>7, <2>8, <2>9, TookAll
    <3>4. Took(w, p, v)
      BY <2>6, <2>7, <2>9, <3>1, <3>3, TookThen
    <3>5. Len(v.buf) <= PageBytes
      BY <1>1, <2>1, <2>3, <2>6, <2>7, <3>1, Sizes1
    <3>6. Len(v.file) = Len(w.file) + PageBytes * d
      <4>1. Len(w.file \o head) = Len(w.file) + Len(head)
        BY <1>1, <2>6, ConcatProperties
      <4> QED BY <2>2, <2>6, <2>9, <3>1, <4>1
    <3>7. \E k \in Int : Len(v.file) = Len(w.file) + PageBytes * k
      BY <2>1, <3>6
    <3> QED BY <2>7, <3>1, <3>2, <3>4, <3>5, <3>7
  <2>10. ASSUME a.err = TRUE, a.pw.failures > w.failures,
                NEW t \in Seq(Nat), Prefix(t, head), a.pw.file = w.file \o t
         PROVE  /\ o.pw \in Writer /\ Took(w, p, o.pw) /\ Len(o.pw.buf) <= PageBytes
                /\ o.pw.pageOffset = w.pageOffset /\ o.pw.failures # w.failures
    <3>1. o = a
      BY <2>5, <2>10
    <3>2. Prefix(Stream(a.pw), Stream(w) \o head)
      BY <1>1, <2>6, <2>8, <2>10, PrefixOfConcat
    <3>3. a.pw.failures \in Nat /\ a.pw.failures >= w.failures /\ a.pw.failures # w.failures
      BY <1>1, <2>7, <2>10 DEF Writer
    <3>4. Took(w, head, a.pw)
      BY <3>2, <3>3 DEF Took
    <3>5. Took(w, p, a.pw)
      BY <2>6, <2>7, <2>10, <3>4, TookPart
    <3>6. Len(a.pw.buf) <= PageBytes
      BY <1>1, <2>7, Sizes1
    <3> QED BY <2>7, <3>1, <3>3, <3>5, <3>6
  <2> QED BY <2>7, <2>9, <2>10
<1> QED BY <1>2, <1>3

----------------------------------------------------------------------------
(* Write.                                                                  *)

\* What exceeds the watermark is the part of a page that was begun.
Room(w) == Len(w.buf) <= Watermark + ((w.pageOffset + Len(w.buf)) % PageBytes)

\* pageOffset is the offset of the file's end in its page.
Aligned(w, b) == \E q \in Int : b + Len(w.file) = w.pageOffset + PageBytes * q

\* The offset of what is in the file and the buffer.
LEMMA EndInPage ==
  ASSUME NEW w \in Writer
  PROVE  LET e == w.pageOffset + Len(w.buf)
         IN  /\ e \in Nat /\ e \div PageBytes \in Int /\ e % PageBytes \in Nat
             /\ e % PageBytes < PageBytes /\ e = PageBytes * (e \div PageBytes) + (e % PageBytes)
<1> DEFINE e == w.pageOffset + Len(w.buf)
<1>1. e \in Nat /\ e \in Int
  <2>1. w.pageOffset \in Nat /\ Len(w.buf) \in Nat
    BY StreamType
  <2> QED BY <2>1
<1> HIDE DEF e
<1>2. /\ e \div PageBytes \in Int /\ e % PageBytes \in Int /\ 0 <= e % PageBytes
      /\ e % PageBytes < PageBytes /\ e = PageBytes * (e \div PageBytes) + (e % PageBytes)
  BY <1>1, DivMod, Sizes1
<1> QED BY <1>1, <1>2 DEF e

\* A buffer below the watermark has room.
LEMMA RoomSmall == ASSUME NEW w \in Writer, Len(w.buf) <= Watermark PROVE Room(w)
<1>1. Len(w.buf) \in Nat /\ (w.pageOffset + Len(w.buf)) % PageBytes \in Nat
  BY StreamType, EndInPage
<1> QED BY <1>1, Sizes1 DEF Room

\* The file's end moves by n + c, of the buffer, and by z3, of whole pages.
LEMMA Moves ==
  ASSUME NEW b \in Int, NEW f \in Int, NEW g \in Int, NEW off \in Int, NEW n \in Int, NEW c \in Int,
         NEW z0 \in Int, NEW z3 \in Int, b + f = off + z0, g = f + (n + c) + z3
  PROVE  /\ \A z1 \in Int : off + (n + c) = z1 => b + g = z0 + z1 + z3
         /\ \A z2, o \in Int : off + (n + c) = o + z2 => b + g = o + z0 + z2 + z3
  OBVIOUS

\* Write keeps room for what is yet to come and the order of the bytes, and
\* unless it fails leaves the file alone or at the end of a page.
LEMMA WriteOK ==
  ASSUME NEW w \in Writer, Room(w), NEW p \in Seq(Nat), NEW o \in Write(w, p), NEW b \in Nat
  PROVE  /\ o.pw \in Writer /\ Room(o.pw) /\ Took(w, p, o.pw)
         /\ o.err => o.pw.failures # w.failures
         /\ Aligned(w, b) /\ o.pw.failures = w.failures
              => /\ Aligned(o.pw, b)
                 /\ o.pw.file # w.file => (b + Len(o.pw.file)) % PageBytes = 0
<1> DEFINE e == w.pageOffset + Len(w.buf)
           sl == PageBytes - (e % PageBytes)
           fill == IF sl = PageBytes THEN 0 ELSE Min(sl, Len(p))
           partial == sl # PageBytes /\ sl > Len(p)
           head == SubSeq(p, 1, fill)
           rest == SubSeq(p, fill + 1, Len(p))
           filled == Buffered(w, head)
<1>1. /\ Len(w.file) \in Nat /\ Len(w.buf) \in Nat /\ Len(p) \in Nat /\ w.pageOffset \in Nat
      /\ w.failures \in Nat /\ <<>> \in Seq(Nat) /\ Len(<<>>) = 0
  BY StreamType, LenProperties, EmptySeq
<1>2. /\ e \in Nat /\ e \div PageBytes \in Int /\ e % PageBytes \in Nat
      /\ e % PageBytes < PageBytes /\ e = PageBytes * (e \div PageBytes) + (e % PageBytes)
  BY EndInPage
<1>3. o \in IF Fits(w, p) THEN {Outcome(Buffered(w, p), FALSE)}
            ELSE IF partial THEN {Outcome(filled, FALSE)}
            ELSE UNION {IF a.err THEN {Outcome(a.pw, FALSE)}
                        ELSE WritePages(a.pw, rest) : a \in flush(filled)}
  BY DEF Write, slack
<1> HIDE DEF e, filled
\* What is only buffered.
<1>4. ASSUME o.pw = Buffered(w, p), Room(Buffered(w, p))
      PROVE  /\ o.pw \in Writer /\ Room(o.pw) /\ Took(w, p, o.pw) /\ o.pw.file = w.file
             /\ Aligned(w, b) => Aligned(o.pw, b)
  <2> DEFINE v == Buffered(w, p)
  <2>1. v \in Writer /\ v.file = w.file /\ v.pageOffset = w.pageOffset /\ Took(w, p, v)
    BY BufferedOK
  <2> HIDE DEF v
  <2> QED BY <1>4, <2>1 DEF Aligned, v
<1>5. CASE Fits(w, p)
  <2>1. o.pw = Buffered(w, p) /\ ~o.err
    BY <1>3, <1>5 DEF Outcome
  <2>2. Buffered(w, p) \in Writer /\ Len(Buffered(w, p).buf) <= Watermark
    <3>1. Buffered(w, p) \in Writer /\ Len(Buffered(w, p).buf) = Len(w.buf) + Len(p)
      BY BufferedOK
    <3>2. Len(p) + Len(w.buf) <= Watermark
      BY <1>5 DEF Fits
    <3> QED BY <1>1, <3>1, <3>2, Sizes1
  <2>3. Room(Buffered(w, p))
    BY <2>2, RoomSmall
  <2> QED BY <1>4, <2>1, <2>3
<1>6. CASE ~Fits(w, p) /\ partial
  <2>1. fill = Len(p)
    BY <1>1, <1>2, <1>6, Sizes1 DEF Min
  <2>2. head = p
    BY <2>1, SubSeqFull
  <2>3. o.pw = Buffered(w, p) /\ ~o.err
    <3>1. o = Outcome(filled, FALSE)
      BY <1>3, <1>6
    <3>2. o.pw = filled /\ ~o.err
      BY <3>1 DEF Outcome
    <3> QED BY <2>2, <3>2 DEF filled
  <2>4. (e % PageBytes) + Len(p) < PageBytes
    BY <1>1, <1>2, <1>6, Sizes1
  <2>5. (e + Len(p)) % PageBytes = (e % PageBytes) + Len(p)
    <3> DEFINE n == Len(p)
    <3>1. e \in Int /\ n \in Nat /\ (e % PageBytes) + n < PageBytes
      BY <1>1, <1>2, <2>4
    <3> HIDE DEF n
    <3>2. (e + n) % PageBytes = (e % PageBytes) + n
      BY <3>1, ModAdd, Sizes1
    <3> QED BY <3>2 DEF n
  <2>6. Room(Buffered(w, p))
    <3> DEFINE v == Buffered(w, p)
    <3>1. Len(v.buf) = Len(w.buf) + Len(p) /\ v.pageOffset = w.pageOffset
      BY BufferedOK
    <3> HIDE DEF v
    <3>2. v.pageOffset + Len(v.buf) = e + Len(p)
      BY <1>1, <3>1 DEF e
    <3>3. Len(w.buf) <= Watermark + (e % PageBytes)
      BY DEF Room, e
    <3>4. Len(v.buf) <= Watermark + ((e + Len(p)) % PageBytes)
      BY <1>1, <1>2, <2>5, <3>1, <3>3, Sizes1
    <3> QED BY <3>2, <3>4 DEF Room, v
  <2> QED BY <1>4, <2>3, <2>6
<1>7. CASE ~Fits(w, p) /\ ~partial
  <2>1. PICK a \in flush(filled) :
          o \in IF a.err THEN {Outcome(a.pw, FALSE)} ELSE WritePages(a.pw, rest)
    BY <1>3, <1>7
  <2>2. fill \in 0 .. Len(p) /\ (e + fill = PageBytes * (e \div PageBytes)
                                 \/ e + fill = PageBytes * (e \div PageBytes) + PageBytes)
    <3> DEFINE z == PageBytes * (e \div PageBytes)
               m == e % PageBytes
    <3>1. z \in Int /\ m \in Nat /\ m < PageBytes /\ e = z + m
      BY <1>2, Sizes1
    <3>2. sl = PageBytes - m
      OBVIOUS
    <3> HIDE DEF z, m, sl
    <3>3. CASE sl = PageBytes
      <4>1. fill = 0
        BY <3>3
      <4>2. m = 0
        BY <3>1, <3>2, <3>3, Sizes1
      <4>3. fill \in 0 .. Len(p) /\ e + fill = z
        BY <1>1, <3>1, <4>1, <4>2
      <4> QED BY <4>3 DEF z
    <3>4. CASE sl # PageBytes
      <4>1. ~(sl > Len(p))
        BY <1>7, <3>4
      <4>2. sl \in Int /\ sl >= 0 /\ fill = sl
        BY <1>1, <3>1, <3>2, <3>4, <4>1, Sizes1 DEF Min
      <4>3. fill \in 0 .. Len(p) /\ e + fill = z + PageBytes
        BY <1>1, <3>1, <3>2, <4>1, <4>2, Sizes1
      <4> QED BY <4>3 DEF z
    <3> QED BY <3>3, <3>4
  <2>3. PICK k1 \in Int : e + fill = PageBytes * k1
    <3> DEFINE d == e \div PageBytes
    <3>1. d \in Int /\ (e + fill = PageBytes * d \/ e + fill = PageBytes * d + PageBytes)
      BY <1>2, <2>2
    <3> HIDE DEF d, fill
    <3>2. PageBytes * d + PageBytes = PageBytes * (d + 1) /\ d + 1 \in Int
      BY <3>1, Sizes1
    <3> QED BY <3>1, <3>2
  <2> HIDE DEF fill
  <2>4. /\ head \in Seq(Nat) /\ Len(head) = fill /\ rest \in Seq(Nat) /\ head \o rest = p
    BY <2>2, TwoParts
  <2> HIDE DEF head, rest
  <2>5. /\ filled \in Writer /\ filled.file = w.file /\ Len(filled.buf) = Len(w.buf) + fill
        /\ filled.pageOffset = w.pageOffset /\ filled.failures = w.failures /\ Took(w, head, filled)
    BY <2>4, BufferedOK DEF filled
  <2>6. /\ a.pw \in Writer /\ a.pw.buf = <<>> /\ Took(filled, <<>>, a.pw) /\ a.err \in BOOLEAN
        /\ a.err => a.pw.failures > filled.failures
        /\ ~a.err => /\ a.pw.failures = filled.failures /\ a.pw.file = Stream(filled)
                     /\ \E q \in Int : filled.pageOffset + Len(filled.buf)
                                         = a.pw.pageOffset + PageBytes * q
    BY <2>1, <2>5, FlushOK
  <2>7. Took(w, head, a.pw)
    <3>1. Took(w, head \o <<>>, a.pw)
      BY <1>1, <2>4, <2>5, <2>6, TookThen
    <3>2. head \o <<>> = head
      BY <2>4, ConcatEmptySeq
    <3> QED BY <3>1, <3>2
  <2>8. CASE a.err
    <3>1. o.pw = a.pw /\ ~o.err
      BY <2>1, <2>8 DEF Outcome
    <3>2. a.pw.failures > w.failures /\ a.pw.failures # w.failures
      BY <1>1, <2>5, <2>6, <2>8 DEF Writer
    <3>3. Took(w, p, a.pw)
      BY <2>4, <2>6, <2>7, <3>2, TookPart
    <3>4. Room(a.pw)
      BY <1>1, <2>6, RoomSmall, Sizes1
    <3> QED BY <2>6, <3>1, <3>2, <3>3, <3>4
  <2>9. CASE ~a.err
    <3> DEFINE v == o.pw
    <3>1. o \in WritePages(a.pw, rest)
      BY <2>1, <2>9
    <3>2. /\ v \in Writer /\ Took(a.pw, rest, v) /\ Len(v.buf) <= PageBytes
          /\ v.pageOffset = a.pw.pageOffset /\ (o.err => v.failures # a.pw.failures)
          /\ v.failures = a.pw.failures => \E k \in Int : Len(v.file) = Len(a.pw.file) + PageBytes * k
      BY <2>4, <2>6, <3>1, WritePagesOK
    <3> HIDE DEF v
    <3>3. Took(w, p, v)
      BY <2>4, <2>5, <2>6, <2>7, <2>9, <3>2, TookThen
    <3>4. Room(v)
      <4>1. Len(v.buf) <= Watermark
        BY <3>2, StreamType, Sizes1
      <4> QED BY <3>2, <4>1, RoomSmall
    <3>5. ASSUME Aligned(w, b), v.failures = w.failures
          PROVE  Aligned(v, b) /\ (b + Len(v.file)) % PageBytes = 0
      <4>1. PICK k0 \in Int : b + Len(w.file) = w.pageOffset + PageBytes * k0
        BY <3>5 DEF Aligned
      <4>2. PICK k2 \in Int : filled.pageOffset + Len(filled.buf) = a.pw.pageOffset + PageBytes * k2
        BY <2>6, <2>9
      <4>3. PICK k3 \in Int : Len(v.file) = Len(a.pw.file) + PageBytes * k3
        BY <2>5, <2>6, <2>9, <3>2, <3>5
      <4>4. Len(a.pw.file) = Len(w.file) + (Len(w.buf) + fill)
        BY <2>5, <2>6, <2>9, StreamType
      <4>5. /\ Len(v.file) \in Nat /\ Len(a.pw.file) \in Nat /\ a.pw.pageOffset \in Nat /\ fill \in Nat
        <5>1. Len(v.file) \in Nat
          BY <3>2, StreamType
        <5>2. Len(a.pw.file) \in Nat /\ a.pw.pageOffset \in Nat
          BY <2>6, StreamType
        <5> QED BY <1>1, <2>2, <5>1, <5>2
      <4>6. w.pageOffset + (Len(w.buf) + fill) = PageBytes * k1
        BY <1>1, <2>3, <4>5 DEF e
      <4>7. b + Len(v.file) = PageBytes * k0 + PageBytes * k1 + PageBytes * k3
        <5> DEFINE z0 == PageBytes * k0
                   z1 == PageBytes * k1
                   z3 == PageBytes * k3
        <5>1. z0 \in Int /\ z1 \in Int /\ z3 \in Int
          BY Sizes1
        <5>2. /\ b + Len(w.file) = w.pageOffset + z0 /\ w.pageOffset + (Len(w.buf) + fill) = z1
              /\ Len(v.file) = Len(w.file) + (Len(w.buf) + fill) + z3
          BY <4>1, <4>3, <4>4, <4>6
        <5> HIDE DEF z0, z1, z3
        <5> DEFINE f == Len(w.file)
                   g == Len(v.file)
                   n == Len(w.buf)
                   off == w.pageOffset
        <5>4. f \in Int /\ g \in Int /\ n \in Int /\ off \in Int /\ fill \in Int /\ b \in Int
          BY <1>1, <4>5
        <5>5. b + f = off + z0 /\ off + (n + fill) = z1 /\ g = f + (n + fill) + z3
          BY <5>2
        <5> HIDE DEF f, g, n, off
        <5>6. b + g = z0 + z1 + z3
          BY <5>1, <5>4, <5>5, Moves
        <5>3. b + Len(v.file) = z0 + z1 + z3
          BY <5>6 DEF g
        <5> QED BY <5>3 DEF z0, z1, z3
      <4>8. b + Len(v.file) = v.pageOffset + PageBytes * k0 + PageBytes * k2 + PageBytes * k3
        <5> DEFINE z0 == PageBytes * k0
                   z2 == PageBytes * k2
                   z3 == PageBytes * k3
        <5>1. z0 \in Int /\ z2 \in Int /\ z3 \in Int
          BY Sizes1
        <5>2. /\ b + Len(w.file) = w.pageOffset + z0
              /\ w.pageOffset + (Len(w.buf) + fill) = v.pageOffset + z2
              /\ Len(v.file) = Len(w.file) + (Len(w.buf) + fill) + z3 /\ v.pageOffset \in Nat
          BY <2>5, <3>2, <4>1, <4>2, <4>3, <4>4, <4>5
        <5> HIDE DEF z0, z2, z3
        <5> DEFINE f == Len(w.file)
                   g == Len(v.file)
                   n == Len(w.buf)
                   off == w.pageOffset
                   h == v.pageOffset
        <5>7. h \in Nat
          BY <5>2
        <5>8. f \in Nat /\ g \in Nat /\ n \in Nat /\ off \in Nat /\ fill \in Nat /\ b \in Nat
          BY <1>1, <4>5
        <5>4. f \in Int /\ g \in Int /\ n \in Int /\ off \in Int /\ fill \in Int /\ b \in Int /\ h \in Int
          <6> HIDE DEF f, g, n, off, h
          <6> QED BY <5>7, <5>8
        <5>5. b + f = off + z0 /\ off + (n + fill) = h + z2 /\ g = f + (n + fill) + z3
          BY <5>2
        <5> HIDE DEF f, g, n, off, h
        <5>6. b + g = h + z0 + z2 + z3
          BY <5>1, <5>4, <5>5, Moves
        <5>3. b + Len(v.file) = v.pageOffset + z0 + z2 + z3
          BY <5>6 DEF g, h
        <5> QED BY <5>3 DEF z0, z2, z3
      <4>9. (b + Len(v.file)) % PageBytes = 0
        <5> DEFINE x == b + Len(v.file)
                   k == k0 + k1 + k3
        <5>1. x \in Int /\ k \in Int /\ x = PageBytes * k + 0
          BY <4>5, <4>7, Sizes1
        <5> HIDE DEF x, k
        <5>2. x % PageBytes = 0
          BY <5>1, DivUnique, Sizes1
        <5> QED BY <5>2 DEF x
      <4>10. Aligned(v, b)
        <5> DEFINE k == k0 + k2 + k3
        <5>1. k \in Int /\ b + Len(v.file) = v.pageOffset + PageBytes * k
          BY <3>2, <4>5, <4>8, Sizes1
        <5> QED BY <5>1 DEF Aligned
      <4> QED BY <4>9, <4>10
    <3>6. o.err => v.failures # w.failures
      BY <2>5, <2>6, <2>9, <3>2
    <3> QED BY <3>2, <3>3, <3>4, <3>5, <3>6 DEF v
  <2> QED BY <2>6, <2>8, <2>9
<1> QED BY <1>4, <1>5, <1>6, <1>7

----------------------------------------------------------------------------
(* The invariant.  What is on its way is what was encoded, in order and    *)
(* once; unless the file failed, all of it.                                *)

InOrder(s, n) ==
  /\ \A i \in 1 .. Len(s) : s[i] <= n
  /\ \A i \in 1 .. Len(s) - 1 : s[i] < s[i + 1]

Whole(s, n) == Len(s) = n /\ \A i \in 1 .. n : s[i] = i

Good(w, n, b) ==
  /\ w \in Writer /\ Room(w) /\ InOrder(Stream(w), n)
  /\ w.failures = 0 => Whole(Stream(w), n) /\ Aligned(w, b)

(* A frame begins at a multiple of a word, in the stream and in the file. *)
FramesAligned ==
  /\ next \in Nat /\ next % WordBytes = 0 /\ base \in Nat /\ base % WordBytes = 0
  /\ \A s \in starts : s \in Nat \ {0} /\ (s - 1) % WordBytes = 0

IInv == FramesAligned /\ Good(pw, next, base)

\* A beginning of what is in order is in order.
LEMMA InOrderPrefix ==
  ASSUME NEW s \in Seq(Nat), NEW t \in Seq(Nat), NEW n \in Nat, NEW m \in Nat, n <= m,
         InOrder(s, n), Prefix(t, s)
  PROVE  InOrder(t, m)
<1>1. Len(s) \in Nat /\ Len(t) \in Nat /\ \A i \in 1 .. Len(s) : s[i] \in Nat
  BY LenProperties, ElementOfSeq
<1>2. ASSUME NEW i \in 1 .. Len(t) PROVE t[i] <= m
  <2>1. i \in 1 .. Len(s) /\ t[i] = s[i]
    BY <1>1 DEF Prefix
  <2>2. s[i] <= n /\ s[i] \in Nat
    BY <1>1, <2>1 DEF InOrder
  <2> QED BY <2>1, <2>2
<1>3. ASSUME NEW i \in 1 .. Len(t) - 1 PROVE t[i] < t[i + 1]
  <2>1. i \in 1 .. Len(s) - 1 /\ i \in 1 .. Len(t) /\ i + 1 \in 1 .. Len(t)
    BY <1>1 DEF Prefix
  <2>2. t[i] = s[i] /\ t[i + 1] = s[i + 1]
    BY <2>1 DEF Prefix
  <2> QED BY <2>1, <2>2 DEF InOrder
<1> QED BY <1>2, <1>3 DEF InOrder

\* The bytes of the stream after the first n.
LEMMA BytesType ==
  ASSUME NEW n \in Nat, NEW k \in Nat
  PROVE  Bytes(n, k) \in Seq(Nat) /\ Len(Bytes(n, k)) = k /\ \A i \in 1 .. k : Bytes(n, k)[i] = n + i
<1>1. \A i \in 1 .. k : n + i \in Nat
  OBVIOUS
<1>2. Bytes(n, k) \in Seq(Nat)
  BY <1>1, SeqDef DEF Bytes
<1>3. DOMAIN Bytes(n, k) = 1 .. k
  BY DEF Bytes
<1>4. Len(Bytes(n, k)) = k
  BY <1>2, <1>3, LenProperties
<1> QED BY <1>2, <1>4 DEF Bytes

\* The next bytes of the stream follow the ones before.
LEMMA NextBytes ==
  ASSUME NEW s \in Seq(Nat), NEW n \in Nat, NEW k \in Nat, InOrder(s, n)
  PROVE  /\ s \o Bytes(n, k) \in Seq(Nat) /\ InOrder(s \o Bytes(n, k), n + k)
         /\ Whole(s, n) => Whole(s \o Bytes(n, k), n + k)
<1> DEFINE p == Bytes(n, k)
           t == s \o p
           m == Len(s)
<1>1. p \in Seq(Nat) /\ Len(p) = k /\ \A i \in 1 .. k : p[i] = n + i
  BY BytesType
<1>2. m \in Nat /\ \A i \in 1 .. m : s[i] \in Nat
  BY LenProperties, ElementOfSeq
<1> HIDE DEF p
<1>3. /\ t \in Seq(Nat) /\ Len(t) = m + k
      /\ \A i \in 1 .. m + k : t[i] = IF i <= m THEN s[i] ELSE p[i - m]
  BY <1>1, ConcatProperties
<1> HIDE DEF t
<1>4. \A i \in 1 .. m : t[i] = s[i] /\ i <= m
  BY <1>1, <1>2, <1>3
<1>5. \A i \in m + 1 .. m + k : t[i] = n + (i - m)
  <2> SUFFICES ASSUME NEW i \in m + 1 .. m + k PROVE t[i] = n + (i - m)
    OBVIOUS
  <2>1. i \in 1 .. m + k /\ ~(i <= m) /\ i - m \in 1 .. k
    BY <1>2
  <2> QED BY <1>1, <1>3, <2>1
<1>6. (\A i \in 1 .. m : s[i] <= n) /\ (\A i \in 1 .. m - 1 : s[i] < s[i + 1])
  BY DEF InOrder
<1> HIDE DEF m
<1>7. ASSUME NEW i \in 1 .. m + k PROVE t[i] <= n + k
  <2>1. CASE i <= m
    BY <1>2, <1>4, <1>6, <2>1
  <2>2. CASE ~(i <= m)
    BY <1>2, <1>5, <2>2
  <2> QED BY <2>1, <2>2
<1>8. ASSUME NEW i \in 1 .. (m + k) - 1 PROVE t[i] < t[i + 1]
  <2>1. CASE i < m
    BY <1>2, <1>4, <1>6, <2>1
  <2>2. CASE i = m
    <3>1. t[i] <= n
      BY <1>2, <1>4, <1>6, <2>2
    <3>2. t[i + 1] = n + 1 /\ t[i] \in Nat
      BY <1>2, <1>4, <1>5, <2>2
    <3> QED BY <3>1, <3>2
  <2>3. CASE i > m
    <3>1. i \in m + 1 .. m + k /\ i + 1 \in m + 1 .. m + k
      BY <1>2, <2>3
    <3>2. t[i] = n + (i - m)
      BY <1>5, <3>1
    <3>3. t[i + 1] = n + ((i + 1) - m)
      BY <1>5, <3>1
    <3> QED BY <1>2, <3>1, <3>2, <3>3
  <2> QED BY <1>2, <2>1, <2>2, <2>3
<1>9. ASSUME Whole(s, n) PROVE Whole(t, n + k)
  <2>1. m = n /\ \A i \in 1 .. n : s[i] = i
    BY <1>9 DEF Whole, m
  <2>2. ASSUME NEW i \in 1 .. n + k PROVE t[i] = i
    <3>1. CASE i <= n
      BY <1>4, <2>1, <3>1
    <3>2. CASE ~(i <= n)
      BY <1>5, <2>1, <3>2
    <3> QED BY <3>1, <3>2
  <2> QED BY <1>3, <2>1, <2>2 DEF Whole
<1> QED BY <1>3, <1>7, <1>8, <1>9 DEF InOrder, t, p

\* A call that writes the next bytes.
LEMMA GoodWrite ==
  ASSUME NEW w, NEW n \in Nat, NEW b \in Nat, Good(w, n, b), NEW k \in Nat,
         NEW o \in Write(w, Bytes(n, k))
  PROVE  /\ Good(o.pw, n + k, b) /\ (o.err => o.pw.failures # 0)
         /\ o.pw.failures = 0 =>
              w.failures = 0 /\ (o.pw.file # w.file => (b + Len(o.pw.file)) % PageBytes = 0)
<1> DEFINE p == Bytes(n, k)
           v == o.pw
<1>1. p \in Seq(Nat)
  BY BytesType
<1>2. w \in Writer /\ Room(w) /\ InOrder(Stream(w), n) /\ w.failures \in Nat /\ Stream(w) \in Seq(Nat)
  BY StreamType DEF Good
<1>3. /\ v \in Writer /\ Room(v) /\ Took(w, p, v) /\ (o.err => v.failures # w.failures)
      /\ Aligned(w, b) /\ v.failures = w.failures
           => Aligned(v, b) /\ (v.file # w.file => (b + Len(v.file)) % PageBytes = 0)
  <2>1. o \in Write(w, p)
    OBVIOUS
  <2> HIDE DEF p
  <2> QED BY <1>1, <1>2, <2>1, WriteOK
<1>4. v.failures \in Nat /\ Stream(v) \in Seq(Nat)
  BY <1>3, StreamType
<1>5. /\ Stream(w) \o p \in Seq(Nat) /\ InOrder(Stream(w) \o p, n + k)
      /\ Whole(Stream(w), n) => Whole(Stream(w) \o p, n + k)
  BY <1>2, NextBytes
<1> HIDE DEF p, v
<1>6. v.failures >= w.failures /\ Prefix(Stream(v), Stream(w) \o p)
      /\ (v.failures = w.failures => Stream(v) = Stream(w) \o p)
  BY <1>3 DEF Took
<1>7. InOrder(Stream(v), n + k)
  <2>1. n + k \in Nat /\ n + k <= n + k
    OBVIOUS
  <2> QED BY <1>4, <1>5, <1>6, <2>1, InOrderPrefix
<1>8. v.failures # w.failures => v.failures # 0
  BY <1>2, <1>4, <1>6
<1>9. ASSUME v.failures = 0
      PROVE  /\ w.failures = 0 /\ Whole(Stream(v), n + k) /\ Aligned(v, b)
             /\ v.file # w.file => (b + Len(v.file)) % PageBytes = 0
  <2>1. v.failures = w.failures /\ w.failures = 0
    BY <1>8, <1>9
  <2>2. Whole(Stream(w), n) /\ Aligned(w, b)
    BY <2>1 DEF Good
  <2> QED BY <1>3, <1>5, <1>6, <2>1, <2>2
<1>10. Good(v, n + k, b)
  BY <1>3, <1>7, <1>9 DEF Good
<1> QED BY <1>3, <1>8, <1>9, <1>10 DEF v

\* What was not written is missing for ever; the order holds.
LEMMA GoodFailed ==
  ASSUME NEW w, NEW n \in Nat, NEW m \in Nat, n <= m, NEW b, Good(w, n, b), w.failures # 0
  PROVE  Good(w, m, b)
<1>1. Stream(w) \in Seq(Nat) /\ InOrder(Stream(w), n)
  BY StreamType DEF Good
<1>2. InOrder(Stream(w), m)
  BY <1>1, PrefixRefl, InOrderPrefix
<1> QED BY <1>2 DEF Good

\* Flush moves what is in the buffer.
LEMMA GoodFlush ==
  ASSUME NEW w, NEW n \in Nat, NEW b \in Nat, Good(w, n, b), NEW o \in flush(w)
  PROVE  Good(o.pw, n, b)
<1> DEFINE v == o.pw
<1>1. /\ w \in Writer /\ w.file \in Seq(Nat) /\ w.failures \in Nat /\ Stream(w) \in Seq(Nat)
      /\ w.pageOffset \in Nat /\ Len(w.buf) \in Nat /\ Len(w.file) \in Nat
      /\ Len(Stream(w)) = Len(w.file) + Len(w.buf)
  BY StreamType DEF Good
<1>2. /\ v \in Writer /\ v.buf = <<>> /\ Took(w, <<>>, v) /\ o.err \in BOOLEAN
      /\ o.err => v.failures > w.failures
      /\ ~o.err => /\ v.failures = w.failures /\ v.file = Stream(w)
                   /\ \E q \in Int : w.pageOffset + Len(w.buf) = v.pageOffset + PageBytes * q
  BY <1>1, FlushOK
<1> HIDE DEF v
<1>3. Len(v.buf) = 0 /\ v.failures \in Nat /\ Stream(v) \in Seq(Nat) /\ v.pageOffset \in Nat
  BY <1>2, StreamType, EmptySeq
<1>4. Room(v)
  BY <1>2, <1>3, RoomSmall, Sizes1
<1>5. Stream(w) \o <<>> = Stream(w)
  BY <1>1, ConcatEmptySeq
<1>6. Prefix(Stream(v), Stream(w)) /\ (v.failures = w.failures => Stream(v) = Stream(w))
      /\ v.failures >= w.failures
  BY <1>2, <1>5 DEF Took
<1>7. InOrder(Stream(v), n)
  BY <1>1, <1>3, <1>6, InOrderPrefix DEF Good
<1>8. ASSUME v.failures = 0 PROVE Whole(Stream(v), n) /\ Aligned(v, b)
  <2>1. v.failures = w.failures /\ w.failures = 0 /\ ~o.err
    BY <1>1, <1>2, <1>3, <1>6, <1>8
  <2>2. Whole(Stream(v), n)
    BY <1>6, <2>1 DEF Good
  <2>3. PICK k \in Int : b + Len(w.file) = w.pageOffset + PageBytes * k
    BY <2>1 DEF Good, Aligned
  <2>4. PICK q \in Int : w.pageOffset + Len(w.buf) = v.pageOffset + PageBytes * q
    BY <1>2, <2>1
  <2>5. Len(v.file) = Len(w.file) + Len(w.buf)
    BY <1>1, <1>2, <2>1
  <2>6. b + Len(v.file) = v.pageOffset + PageBytes * (k + q)
    <3> DEFINE x == PageBytes * k
               y == PageBytes * q
               g == Len(v.file)
               f == Len(w.file)
               c == Len(w.buf)
               e == w.pageOffset
               d == v.pageOffset
    <3>1. /\ x \in Int /\ y \in Int /\ f \in Nat /\ c \in Nat /\ e \in Nat /\ d \in Nat
          /\ b + f = e + x /\ e + c = d + y /\ g = f + c /\ PageBytes * (k + q) = x + y
      BY <1>1, <1>3, <2>3, <2>4, <2>5, Sizes1
    <3> HIDE DEF x, y, g, f, c, e, d
    <3>2. b + g = d + (x + y)
      BY <3>1
    <3> QED BY <3>1, <3>2 DEF g, d
  <2>7. k + q \in Int
    OBVIOUS
  <2> QED BY <2>2, <2>6, <2>7 DEF Aligned
<1>9. Good(v, n, b)
  BY <1>2, <1>4, <1>7, <1>8 DEF Good
<1> QED BY <1>9 DEF v

----------------------------------------------------------------------------
(* Frames.                                                                 *)

\* Sums and multiples.
LEMMA SumOfMultiples ==
  ASSUME NEW P \in Nat \ {0}, NEW x \in Int, NEW y \in Int, x % P = 0, y % P = 0
  PROVE  (x + y) % P = 0
<1> DEFINE c == x \div P
           d == y \div P
<1>1. c \in Int /\ x = P * c /\ d \in Int /\ y = P * d
  BY DivMod
<1> HIDE DEF c, d
<1> DEFINE q == c + d
           z == x + y
<1>2. q \in Int /\ z \in Int /\ z = P * q + 0
  BY <1>1
<1> HIDE DEF q, z
<1>3. z % P = 0
  BY <1>2, DivUnique
<1> QED BY <1>3 DEF z

\* A frame is a number of words (encoder.go:72).
LEMMA FrameOfWords ==
  ASSUME NEW size \in Nat \ {0}
  PROVE  /\ FrameBytes(size) \in Nat /\ FrameBytes(size) - WordBytes \in Nat
         /\ FrameBytes(size) >= WordBytes /\ FrameBytes(size) # 0
         /\ FrameBytes(size) % WordBytes = 0
<1> DEFINE W == WordBytes
           m == size % W
           d == size \div W
           pad == (W - m) % W
<1>1. W \in Nat \ {0}
  BY Sizes1
<1>2. m \in Int /\ d \in Int /\ 0 <= m /\ m < W /\ size = W * d + m
  BY <1>1, DivMod
<1>3. padBytes(size) = pad /\ FrameBytes(size) = W + size + pad
  BY DEF padBytes, FrameBytes
<1> HIDE DEF W, m, d
<1>4. pad = IF m = 0 THEN 0 ELSE W - m
  <2>1. CASE m = 0
    <3>1. W - m \in Int /\ W - m = W * 1 + 0
      BY <1>1, <2>1
    <3>2. (W - m) % W = 0
      BY <1>1, <3>1, DivUnique
    <3> QED BY <2>1, <3>2
  <2>2. CASE m # 0
    <3>1. W - m \in Int /\ W - m = W * 0 + (W - m) /\ 0 <= W - m /\ W - m < W
      BY <1>1, <1>2, <2>2
    <3>2. (W - m) % W = W - m
      BY <1>1, <3>1, DivUnique
    <3> QED BY <2>2, <3>2
  <2> QED BY <2>1, <2>2
<1> HIDE DEF pad
<1> DEFINE k == IF m = 0 THEN d + 1 ELSE d + 2
           z == W + size + pad
<1>5. k \in Int /\ z = W * k + 0
  <2>1. CASE m = 0
    BY <1>1, <1>2, <1>4, <2>1
  <2>2. CASE m # 0
    BY <1>1, <1>2, <1>4, <2>2
  <2> QED BY <2>1, <2>2
<1>6. pad \in Nat
  BY <1>1, <1>2, <1>4
<1>7. z \in Nat /\ z - W \in Nat /\ z >= W /\ z # 0
  BY <1>1, <1>6
<1> HIDE DEF k, z
<1>8. z % W = 0
  BY <1>1, <1>5, <1>7, DivUnique
<1> QED BY <1>3, <1>7, <1>8 DEF z, W

\* What encode does to the page writer.
LEMMA EncodeStep ==
  ASSUME NEW size \in Sizes, encode(size), FramesAligned, Good(pw, next, base)
  PROVE  /\ FramesAligned' /\ Good(pw', next', base)
         /\ pw'.failures = 0 /\ pw'.file # pw.file => (base + Len(pw'.file)) % PageBytes = 0
<1> DEFINE n == FrameBytes(size)
           l == n - WordBytes
<1>1. /\ WordBytes \in Nat /\ n \in Nat /\ l \in Nat /\ WordBytes <= n /\ n % WordBytes = 0
      /\ WordBytes + l = n
  <2>1. size \in Nat \ {0} /\ WordBytes \in Nat
    BY WalAssumption
  <2>2. n \in Nat /\ n - WordBytes \in Nat /\ n >= WordBytes /\ n % WordBytes = 0
    BY <2>1, FrameOfWords
  <2> HIDE DEF n
  <2> QED BY <2>1, <2>2
<1>2. next \in Nat /\ base \in Nat
  BY DEF FramesAligned
<1>3. /\ next' = next + n /\ starts' = starts \cup {next + 1} /\ base' = base
      /\ \E o \in Write(pw, Bytes(next, WordBytes)) :
           \/ o.err /\ pw' = o.pw
           \/ ~o.err /\ \E d \in Write(o.pw, Bytes(next + WordBytes, l)) : pw' = d.pw
  BY DEF encode, writeUint64
<1> HIDE DEF n, l
<1>4. FramesAligned'
  <2>1. next' \in Nat /\ next' % WordBytes = 0
    <3>1. next \in Int /\ n \in Int /\ next % WordBytes = 0
      BY <1>1, <1>2 DEF FramesAligned
    <3>2. (next + n) % WordBytes = 0
      BY <1>1, <3>1, SumOfMultiples, Sizes1
    <3> QED BY <1>1, <1>2, <1>3, <3>2
  <2>2. base' \in Nat /\ base' % WordBytes = 0
    BY <1>3 DEF FramesAligned
  <2>3. ASSUME NEW s \in starts' PROVE s \in Nat \ {0} /\ (s - 1) % WordBytes = 0
    <3>1. CASE s \in starts
      BY <3>1 DEF FramesAligned
    <3>2. CASE s = next + 1
      <4>1. s - 1 = next /\ s \in Nat \ {0}
        BY <1>2, <3>2
      <4> QED BY <4>1 DEF FramesAligned
    <3> QED BY <1>3, <3>1, <3>2
  <2> QED BY <2>1, <2>2, <2>3 DEF FramesAligned
<1>5. PICK o \in Write(pw, Bytes(next, WordBytes)) :
        \/ o.err /\ pw' = o.pw
        \/ ~o.err /\ \E d \in Write(o.pw, Bytes(next + WordBytes, l)) : pw' = d.pw
  BY <1>3
<1>6. /\ Good(o.pw, next + WordBytes, base) /\ (o.err => o.pw.failures # 0)
      /\ o.pw.failures = 0 =>
           pw.failures = 0 /\ (o.pw.file # pw.file => (base + Len(o.pw.file)) % PageBytes = 0)
  BY <1>1, <1>2, GoodWrite
<1>7. CASE o.err /\ pw' = o.pw
  <2>1. next + WordBytes \in Nat /\ next' \in Nat /\ next + WordBytes <= next'
    BY <1>1, <1>2, <1>3
  <2>2. Good(o.pw, next', base)
    BY <1>6, <1>7, <2>1, GoodFailed
  <2> QED BY <1>4, <1>6, <1>7, <2>2
<1>8. CASE ~o.err /\ \E d \in Write(o.pw, Bytes(next + WordBytes, l)) : pw' = d.pw
  <2>1. PICK d \in Write(o.pw, Bytes(next + WordBytes, l)) : pw' = d.pw
    BY <1>8
  <2>2. next + WordBytes \in Nat /\ (next + WordBytes) + l = next'
    BY <1>1, <1>2, <1>3
  <2> DEFINE m == next + WordBytes
  <2>3. /\ Good(d.pw, m + l, base)
        /\ d.pw.failures = 0 =>
             o.pw.failures = 0 /\ (d.pw.file # o.pw.file => (base + Len(d.pw.file)) % PageBytes = 0)
    <3> DEFINE w == o.pw
    <3>1. m \in Nat /\ Good(w, m, base) /\ d \in Write(w, Bytes(m, l)) /\ l \in Nat /\ base \in Nat
      BY <1>1, <1>2, <1>6, <2>1, <2>2
    <3> HIDE DEF m, w
    <3>2. /\ Good(d.pw, m + l, base)
          /\ d.pw.failures = 0 =>
               w.failures = 0 /\ (d.pw.file # w.file => (base + Len(d.pw.file)) % PageBytes = 0)
      BY <3>1, GoodWrite
    <3> QED BY <3>2 DEF w
  <2>4. Good(pw', next', base)
    BY <2>1, <2>2, <2>3
  <2>5. ASSUME pw'.failures = 0, pw'.file # pw.file PROVE (base + Len(pw'.file)) % PageBytes = 0
    BY <1>6, <2>1, <2>3, <2>5
  <2> QED BY <1>4, <2>4, <2>5
<1> QED BY <1>5, <1>7, <1>8

----------------------------------------------------------------------------
(* Theorems.                                                               *)

\* newFileEncoder begins in the invariant, at any offset a frame may begin at.
THEOREM WriterStart == Init => IInv
<1> SUFFICES ASSUME Init PROVE IInv
  OBVIOUS
<1>1. /\ base \in Nat /\ base % WordBytes = 0 /\ next = 0 /\ starts = {}
      /\ pw = [file |-> <<>>, buf |-> <<>>, pageOffset |-> base, failures |-> 0]
  BY Sizes1 DEF Init, FileOffsets
<1>2. 0 % WordBytes = 0
  <2>1. 0 = WordBytes * 0 + 0
    BY Sizes1
  <2> QED BY <2>1, DivUnique, Sizes1
<1>3. FramesAligned
  BY <1>1, <1>2 DEF FramesAligned
<1>4. <<>> \in Seq(Nat) /\ Len(<<>>) = 0 /\ <<>> \o <<>> = <<>>
  BY EmptySeq, ConcatEmptySeq
<1>5. pw \in Writer /\ pw.file = <<>> /\ pw.buf = <<>> /\ pw.pageOffset = base
  BY <1>1, <1>4 DEF Writer
<1>6. Stream(pw) = <<>>
  BY <1>4, <1>5 DEF Stream
<1>7. InOrder(<<>>, 0) /\ Whole(<<>>, 0)
  BY <1>4 DEF InOrder, Whole
<1>8. Room(pw)
  BY <1>4, <1>5, RoomSmall, Sizes1
<1>9. Aligned(pw, base)
  <2>1. base + 0 = base + PageBytes * 0 /\ 0 \in Int
    BY <1>1, Sizes1
  <2> QED BY <1>4, <1>5, <2>1 DEF Aligned
<1> QED BY <1>1, <1>3, <1>5, <1>6, <1>7, <1>8, <1>9 DEF IInv, Good

\* encode and Flush keep it, whatever the file does.
THEOREM WriterStep == IInv /\ [Next]_vars => IInv'
<1> SUFFICES ASSUME IInv, [Next]_vars PROVE IInv'
  OBVIOUS
<1>1. FramesAligned /\ Good(pw, next, base) /\ next \in Nat /\ base \in Nat
  BY DEF IInv, FramesAligned
<1>2. ASSUME NEW size \in Sizes, encode(size) PROVE IInv'
  <2>1. base' = base
    BY <1>2 DEF encode
  <2>2. FramesAligned' /\ Good(pw', next', base)
    BY <1>1, <1>2, EncodeStep
  <2> QED BY <2>1, <2>2 DEF IInv
<1>3. CASE Flush
  <2>1. PICK o \in flush(pw) : pw' = o.pw
    BY <1>3 DEF Flush
  <2>2. base' = base /\ next' = next /\ starts' = starts
    BY <1>3 DEF Flush
  <2>3. Good(o.pw, next, base)
    BY <1>1, GoodFlush
  <2>4. FramesAligned'
    BY <1>1, <2>2 DEF FramesAligned
  <2> QED BY <2>1, <2>2, <2>3, <2>4 DEF IInv
<1>4. CASE UNCHANGED vars
  <2>1. pw' = pw /\ base' = base /\ next' = next /\ starts' = starts
    BY <1>4 DEF vars
  <2> QED BY <1>1, <2>1 DEF IInv, FramesAligned
<1> QED BY <1>2, <1>3, <1>4 DEF Next

\* At all times the writer's state is what Good and FramesAligned say.
THEOREM WriterInvariant == Spec => []IInv
  BY WriterStart, WriterStep, PTL DEF Spec

\* File and buffer hold the encoded bytes in order and once, also after the
\* file failed, and all of them as long as it did not (pagewriter.go:54, 74, 95).
THEOREM NothingIsReordered == Spec => []NothingReordered
<1>1. IInv => NothingReordered
  BY DEF IInv, Good, InOrder, Whole, Stream, NothingReordered, Written
<1> QED BY <1>1, WriterInvariant, PTL

\* copy() never meets the end of the buffer, for all sizes of pages, buffers
\* and records (pagewriter.go:38, 54).
THEOREM NeverOverrun == Spec => []NoOverrun
<1>1. ASSUME IInv PROVE NoOverrun
  <2>1. pw \in Writer /\ Len(pw.buf) <= Watermark + ((pw.pageOffset + Len(pw.buf)) % PageBytes)
    BY <1>1 DEF IInv, Good, Room
  <2>2. (pw.pageOffset + Len(pw.buf)) % PageBytes < PageBytes
        /\ (pw.pageOffset + Len(pw.buf)) % PageBytes \in Nat /\ Len(pw.buf) \in Nat
    BY <2>1, EndInPage, StreamType
  <2> QED BY <2>1, <2>2, Sizes1 DEF NoOverrun
<1> QED BY <1>1, WriterInvariant, PTL

\* No length word in the file crosses a sector (encoder.go:72).
THEOREM LengthsAreNotTorn == Spec => []LengthNotTorn
<1>1. ASSUME IInv PROVE LengthNotTorn
  <2> SUFFICES ASSUME pw.failures = 0, NEW k \in DOMAIN pw.file, pw.file[k] \in starts
               PROVE  (base + k - 1) \div SectorBytes = (base + k - 1 + WordBytes - 1) \div SectorBytes
    BY DEF LengthNotTorn
  <2>1. pw \in Writer /\ Whole(Stream(pw), next) /\ base \in Nat /\ base % WordBytes = 0 /\ next \in Nat
    BY <1>1 DEF IInv, Good, FramesAligned
  <2>2. /\ pw.file \in Seq(Nat) /\ pw.buf \in Seq(Nat) /\ Len(pw.file) \in Nat /\ Len(pw.buf) \in Nat
        /\ Len(Stream(pw)) = Len(pw.file) + Len(pw.buf)
    BY <2>1, StreamType
  <2>3. k \in 1 .. Len(pw.file)
    BY <2>2, LenProperties
  <2>4. k \in 1 .. next /\ k \in 1 .. Len(pw.file) + Len(pw.buf)
    <3>1. next = Len(pw.file) + Len(pw.buf)
      BY <2>1, <2>2 DEF Whole
    <3> DEFINE f == Len(pw.file)
               c == Len(pw.buf)
    <3>2. f \in Nat /\ c \in Nat /\ k \in 1 .. f
      BY <2>2, <2>3
    <3> HIDE DEF f, c
    <3>3. k \in 1 .. f + c
      BY <3>2
    <3> QED BY <3>1, <3>3 DEF f, c
  <2>5. Stream(pw)[k] = pw.file[k]
    BY <2>2, <2>3, <2>4, ConcatProperties DEF Stream
  <2>6. pw.file[k] = k
    BY <2>1, <2>4, <2>5 DEF Whole
  <2>7. (k - 1) % WordBytes = 0
    BY <1>1, <2>6 DEF IInv, FramesAligned
  <2> DEFINE x == base + (k - 1)
  <2>8. x % WordBytes = 0
    <3>1. k - 1 \in Int /\ base \in Int
      BY <2>1, <2>3
    <3> QED BY <2>1, <2>7, <3>1, SumOfMultiples, Sizes1
  <2>9. x \in Nat /\ base + k - 1 = x
    BY <2>1, <2>3
  <2> HIDE DEF x
  <2>10. x \div SectorBytes = (x + WordBytes - 1) \div SectorBytes
    BY <2>8, <2>9, WordInSector, WalAssumption
  <2> QED BY <2>9, <2>10
<1> QED BY <1>1, WriterInvariant, PTL

\* An encode that reaches the file leaves it at the end of a page, also when it
\* was opened or flushed in the middle of one (pagewriter.go:9).
THEOREM FileEndsAtPages == Spec => PageChunks
<1>1. ASSUME IInv, [Next]_vars
      PROVE  [next' # next /\ pw'.file # pw.file /\ pw'.failures = 0 => FileEnd' % PageBytes = 0]_vars
  <2>1. ASSUME NEW size \in Sizes, encode(size), pw'.file # pw.file, pw'.failures = 0
        PROVE  FileEnd' % PageBytes = 0
    <3>1. (base + Len(pw'.file)) % PageBytes = 0
      BY <1>1, <2>1, EncodeStep DEF IInv
    <3>2. base' = base
      BY <2>1 DEF encode
    <3> QED BY <3>1, <3>2 DEF FileEnd
  <2>2. CASE Flush
    BY <2>2 DEF Flush
  <2> QED BY <1>1, <2>1, <2>2 DEF Next
<1> QED BY <1>1, WriterInvariant, PTL DEF Spec, PageChunks
=============================================================================
