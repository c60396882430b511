-------------------------- MODULE DiskClientProofs --------------------------
(***************************************************************************)
(* Proofs about DiskClient, for recordings of any length and ended         *)
(* anywhere.                                                               *)
(***************************************************************************)
EXTENDS DiskClient, WellFoundedInduction, TLAPS

-----------------------------------------------------------------------------
(* The inductive invariant.                                                *)

(* As long as nothing came between, the position in the file is that of    *)
(* the next sample, if the file holds it.                                  *)
PosInv ==
    ibtFile_ /\ ~apart /\ 2 * (sampleIndex_ + 1) <= stored
      => pos = SampleOffset(sampleIndex_)

(* In a complete recording the buffer then holds the sample before.        *)
CurrentInv ==
    Complete /\ ibtFile_ /\ ~apart /\ current => varBuf_.lo = sampleIndex_ - 1

(* Playback began at the first valid sample, or over an empty file, whose  *)
(* zeros are taken for a tick; it has not gone before it since.            *)
ValidInv ==
    tickSampleIndexOffset_ # -1 =>
      /\ sampleIndexValidOffset_ >= 1
      /\ \/ stored = 0 /\ tickSampleIndexOffset_ = 0 /\ varBuf_.lo = -1
         \/ /\ sampleIndexValidOffset_ = firstValid + 1
            /\ tickSampleIndexOffset_ = FirstTick
            /\ ~reread => varBuf_.lo >= firstValid /\ pos >= SampleOffset(sampleIndexValidOffset_)

(* What seekToSessionNum has passed over is not of the session.            *)
FindInv ==
    /\ finding => ibtFile_
    /\ finding /\ Complete /\ ~apart /\ from < Count =>
         /\ current
         /\ \A k \in matching : k < from \/ varBuf_.lo <= k

(* A run that nobody interferes with keeps pace with the cursor.           *)
RunInv ==
    /\ rpc = "idle" => frame = -1
    /\ alone /\ rpc # "idle" =>
         /\ ~finding
         /\ rpc # "next" => ibtFile_
         /\ Complete /\ ~apart =>
              /\ rpc = "next" /\ frame # -1 => frame = sampleIndex_ - 1
              /\ rpc = "time" =>
                   varBuf_.lo = sampleIndex_ - 1 /\ (frame # -1 => frame = sampleIndex_ - 2)
              /\ rpc = "index" => frame = sampleIndex_ - 1
              /\ rpc = "callback" => frame = sampleIndex_ - 1 /\ frameIndex = sampleIndex_

Inv == TypeOK /\ PosInv /\ CurrentInv /\ ValidInv /\ FindInv /\ RunInv

-----------------------------------------------------------------------------
(* What openFile reads.                                                    *)

LEMMA Constants == Count \in Nat \ {0} /\ FirstTick \in Nat /\ Truncated \in BOOLEAN
BY RecordingAssumption DEF RecordingAssumption

(* A nonempty set of naturals has a least element.                         *)
LEMMA Least ==
  ASSUME NEW T \in SUBSET Nat, T # {}
  PROVE  \E x \in T : \A y \in T : x <= y
<1> DEFINE R == {ss \in Nat \X Nat : ss[1] < ss[2]}
<1>1. IsWellFoundedOn(R, Nat) BY NatLessThanWellFounded DEF OpToRel
<1> HIDE DEF R
<1>2. PICK x \in T : \A y \in T : ~(<<y, x>> \in R) BY <1>1, WFMin
<1>3. \A y \in T : ~(y < x) BY <1>2 DEF R
<1> QED BY <1>3

(* Reading a sample gives that sample, if the file holds it.               *)
LEMMA ReadIs ==
  ASSUME stored \in 0 .. 2 * Count, NEW buf \in [lo : Halves, hi : Halves], NEW p \in Nat
  PROVE  LET r == FileReadDataFully(buf, p)
         IN  /\ r.buf \in [lo : Halves, hi : Halves]
             /\ r.pos \in Nat /\ r.pos >= p
             /\ r.pos = p \/ r.pos \in 0 .. stored
             /\ \A k \in Nat : p = 2 * k /\ 2 * (k + 1) <= stored =>
                  r.buf = Whole(k) /\ r.pos = 2 * (k + 1)
             /\ p >= stored => r.buf.lo = buf.lo
             /\ \A k \in Nat : p < stored /\ p >= 2 * k => r.buf.lo >= k
<1> DEFINE h == p \div 2
<1>1. h \in Nat /\ (p = 2 * h \/ p = 2 * h + 1) OBVIOUS
<1>2. Count \in Nat BY Constants
<1> HIDE DEF h
<1>3. p < stored => h \in 0 .. Count - 1 BY <1>1, <1>2
<1> DEFINE lo == IF p < stored THEN h ELSE buf.lo
           hi == IF p + 1 < stored THEN h ELSE buf.hi
           pos2 == IF p >= stored THEN p ELSE IF p + 2 <= stored THEN p + 2 ELSE stored
<1>4. FileReadDataFully(buf, p) = [buf |-> [lo |-> lo, hi |-> hi], pos |-> pos2]
  BY DEF FileReadDataFully, h
<1>5. lo \in Halves /\ hi \in Halves BY <1>2, <1>3 DEF Halves
<1>6. pos2 \in Nat /\ pos2 >= p /\ (pos2 = p \/ pos2 \in 0 .. stored) OBVIOUS
<1>7. ASSUME NEW k \in Nat, p = 2 * k, 2 * (k + 1) <= stored
      PROVE  lo = k /\ hi = k /\ pos2 = 2 * (k + 1)
  BY <1>1, <1>7
<1>8. p >= stored => lo = buf.lo OBVIOUS
<1>9. ASSUME NEW k \in Nat, p < stored, p >= 2 * k PROVE lo >= k
  BY <1>1, <1>9
<1> HIDE DEF lo, hi, pos2
<1> QED BY <1>4, <1>5, <1>6, <1>7, <1>8, <1>9 DEF Whole

(* What is in the buffer after the samples 0 .. k, told without going      *)
(* through them: each half is of the last sample of which the file holds   *)
(* that half.                                                              *)
LastLo(k) == IF 2 * k < stored THEN k ELSE (stored - 1) \div 2
LastHi(k) == IF 2 * k + 1 < stored THEN k ELSE stored \div 2 - 1
ReadAt(k) ==
    [buf |-> [lo |-> LastLo(k), hi |-> LastHi(k)],
     pos |-> IF 2 * (k + 1) <= stored THEN 2 * (k + 1) ELSE stored]

LEMMA ReadAtStarts == stored \in Nat => ReadAt(-1) = [buf |-> Whole(-1), pos |-> 0]
<1> SUFFICES ASSUME stored \in Nat PROVE ReadAt(-1) = [buf |-> Whole(-1), pos |-> 0]
  OBVIOUS
<1>1. LastLo(-1) = -1 /\ LastHi(-1) = -1 BY DEF LastLo, LastHi
<1>2. (IF 2 * (-1 + 1) <= stored THEN 2 * (-1 + 1) ELSE stored) = 0 OBVIOUS
<1> QED BY <1>1, <1>2 DEF ReadAt, Whole

LEMMA ReadAtGoesOn ==
  ASSUME stored \in Nat, NEW k \in Nat
  PROVE  ReadAt(k) = FileReadDataFully(ReadAt(k - 1).buf, ReadAt(k - 1).pos)
<1> DEFINE h == stored \div 2
           p == IF 2 * k <= stored THEN 2 * k ELSE stored
           lo == LastLo(k - 1)
           hi == LastHi(k - 1)
<1>1. h \in Nat /\ (stored = 2 * h \/ stored = 2 * h + 1) OBVIOUS
<1>2. (stored - 1) \div 2 = IF stored = 2 * h THEN h - 1 ELSE h BY <1>1
<1>3. ReadAt(k - 1) = [buf |-> [lo |-> lo, hi |-> hi], pos |-> p]
  <2>1. (k - 1) + 1 = k OBVIOUS
  <2> QED BY <2>1 DEF ReadAt
<1>4. p < stored => p = 2 * k /\ p \div 2 = k OBVIOUS
<1>5. (IF p < stored THEN p \div 2 ELSE lo) = LastLo(k)
  <2>1. CASE p < stored BY <1>4, <2>1 DEF LastLo
  <2>2. CASE ~(p < stored)
    <3>1. stored <= 2 * k BY <2>2
    <3>2. lo = (stored - 1) \div 2
      <4>1. CASE 2 * (k - 1) < stored
        <5>1. stored = 2 * k \/ stored = 2 * k - 1 BY <3>1, <4>1
        <5>2. (stored - 1) \div 2 = k - 1 BY <5>1
        <5> QED BY <4>1, <5>2 DEF LastLo
      <4>2. CASE ~(2 * (k - 1) < stored) BY <4>2 DEF LastLo
      <4> QED BY <4>1, <4>2
    <3> QED BY <2>2, <3>1, <3>2 DEF LastLo
  <2> QED BY <2>1, <2>2
<1>6. (IF p + 1 < stored THEN p \div 2 ELSE hi) = LastHi(k)
  <2>1. CASE p + 1 < stored BY <1>4, <2>1 DEF LastHi
  <2>2. CASE ~(p + 1 < stored)
    <3>1. stored <= 2 * k + 1 BY <2>2
    <3>2. hi = h - 1
      <4>1. CASE 2 * (k - 1) + 1 < stored
        <5>1. stored = 2 * k \/ stored = 2 * k + 1 BY <3>1, <4>1
        <5>2. h = k BY <1>1, <5>1
        <5> QED BY <4>1, <5>2 DEF LastHi
      <4>2. CASE ~(2 * (k - 1) + 1 < stored) BY <4>2 DEF LastHi
      <4> QED BY <4>1, <4>2
    <3> QED BY <2>2, <3>1, <3>2 DEF LastHi
  <2> QED BY <2>1, <2>2
<1>7. (IF p >= stored THEN p ELSE IF p + 2 <= stored THEN p + 2 ELSE stored) =
        IF 2 * (k + 1) <= stored THEN 2 * (k + 1) ELSE stored
  OBVIOUS
<1> HIDE DEF p, lo, hi
<1> QED BY <1>3, <1>5, <1>6, <1>7 DEF ReadAt, FileReadDataFully

LEMMA ReadUpToIs ==
  ASSUME stored \in Nat, NEW k \in -1 .. Count - 1
  PROVE  ReadUpTo[k] = ReadAt(k)
<1> DEFINE D == -1 .. Count - 1
           start == [buf |-> Whole(-1), pos |-> 0]
           Def(f) == [n \in D |-> IF n = -1 THEN start
                                  ELSE FileReadDataFully(f[n - 1].buf, f[n - 1].pos)]
           g == [n \in D |-> ReadAt(n)]
<1>1. Count \in Nat BY Constants
<1>2. ASSUME NEW n \in D, n # -1 PROVE n \in Nat /\ n - 1 \in D BY <1>1, <1>2
<1>3. g = Def(g)
  <2>1. ASSUME NEW n \in D PROVE g[n] = Def(g)[n]
    <3>1. CASE n = -1 BY <3>1, ReadAtStarts
    <3>2. CASE n # -1
      <4>1. n \in Nat /\ n - 1 \in D BY <1>2, <3>2
      <4>2. g[n - 1] = ReadAt(n - 1) /\ g[n] = ReadAt(n) BY <4>1
      <4>3. Def(g)[n] = FileReadDataFully(g[n - 1].buf, g[n - 1].pos) BY <3>2
      <4> QED BY <4>1, <4>2, <4>3, ReadAtGoesOn
    <3> QED BY <3>1, <3>2
  <2> QED BY <2>1
<1>4. ReadUpTo = CHOOSE f : f = Def(f) BY DEF ReadUpTo
<1>5. ReadUpTo = Def(ReadUpTo)
  <2> HIDE DEF g, Def
  <2> QED BY <1>3, <1>4
<1> DEFINE Bad == {n \in Nat : n \in D /\ ReadUpTo[n] # ReadAt(n)}
<1>6. ReadUpTo[-1] = ReadAt(-1)
  <2>1. -1 \in D BY <1>1
  <2>2. ReadUpTo[-1] = start BY <1>5, <2>1
  <2> QED BY <2>2, ReadAtStarts
<1>7. Bad = {}
  <2> SUFFICES ASSUME Bad # {} PROVE FALSE
    OBVIOUS
  <2>1. PICK n \in Bad : \A m \in Bad : n <= m BY Least
  <2>2. n \in Nat /\ n \in D /\ n # -1 OBVIOUS
  <2>3. n - 1 \in D BY <1>2, <2>2
  <2>4. ReadUpTo[n - 1] = ReadAt(n - 1)
    <3>1. CASE n = 0 BY <1>6, <3>1
    <3>2. CASE n # 0
      <4>1. n - 1 \in Nat /\ ~(n <= n - 1) BY <2>2, <3>2
      <4>2. n - 1 \notin Bad BY <2>1, <4>1
      <4> QED BY <2>3, <4>1, <4>2
    <3> QED BY <3>1, <3>2
  <2>5. ReadUpTo[n] = FileReadDataFully(ReadUpTo[n - 1].buf, ReadUpTo[n - 1].pos)
    BY <1>5, <2>2
  <2>6. ReadUpTo[n] = ReadAt(n) BY <2>2, <2>4, <2>5, ReadAtGoesOn
  <2> QED BY <2>6
<1> QED BY <1>1, <1>6, <1>7

LEMMA ReadAtType ==
  ASSUME stored \in 0 .. 2 * Count, NEW k \in Samples
  PROVE  /\ ReadAt(k).buf \in [lo : Halves, hi : Halves] /\ ReadAt(k).buf.lo = LastLo(k)
         /\ ReadAt(k).pos \in 0 .. stored
         /\ LastLo(k) \in Halves /\ LastLo(k) <= k
         /\ stored = 0 => LastLo(k) = -1
         /\ stored > 0 => LastLo(k) >= 0
         /\ \A j \in 0 .. LastLo(k) : LastLo(j) = j
         /\ 2 * (k + 1) <= stored => ReadAt(k).buf = Whole(k)
<1> DEFINE h == (stored - 1) \div 2
           c == stored \div 2
<1>1. Count \in Nat \ {0} /\ stored \in Nat /\ k \in 0 .. Count - 1 BY Constants DEF Samples
<1>2. h \in Int /\ (stored - 1 = 2 * h \/ stored - 1 = 2 * h + 1) BY <1>1
<1>3. c \in Int /\ (stored = 2 * c \/ stored = 2 * c + 1) BY <1>1
<1> HIDE DEF h, c
<1>4. LastLo(k) = IF 2 * k < stored THEN k ELSE h BY DEF LastLo, h
<1>5. LastHi(k) = IF 2 * k + 1 < stored THEN k ELSE c - 1 BY DEF LastHi, c
<1>6. LastLo(k) \in -1 .. Count - 1 /\ LastLo(k) <= k BY <1>1, <1>2, <1>4
<1>7. LastHi(k) \in -1 .. Count - 1 BY <1>1, <1>3, <1>5
<1>8. (stored = 0 => LastLo(k) = -1) /\ (stored > 0 => LastLo(k) >= 0)
  BY <1>1, <1>2, <1>4
<1>9. ASSUME NEW j \in 0 .. LastLo(k) PROVE LastLo(j) = j
  <2>1. 2 * j < stored BY <1>1, <1>2, <1>4, <1>6
  <2> QED BY <2>1 DEF LastLo
<1>10. 2 * (k + 1) <= stored => LastLo(k) = k /\ LastHi(k) = k BY <1>1, <1>4, <1>5
<1>11. (IF 2 * (k + 1) <= stored THEN 2 * (k + 1) ELSE stored) \in 0 .. stored BY <1>1
<1> HIDE DEF LastLo, LastHi
<1> QED BY <1>6, <1>7, <1>8, <1>9, <1>10, <1>11 DEF ReadAt, Whole, Halves

LEMMA TickIs ==
  ASSUME firstValid \in 0 .. Count, NEW k \in Halves
  PROVE  /\ TickOf(k) \in Nat \cup {-1}
         /\ TickOf(k) # -1 <=> k = -1 \/ k >= firstValid
         /\ k = -1 => TickOf(k) = 0
         /\ k >= firstValid => TickOf(k) = FirstTick + k - firstValid
BY Constants DEF TickOf, Halves

(* What openFile leaves.                                                   *)
LEMMA OpenFileIs ==
  ASSUME stored \in 0 .. 2 * Count, firstValid \in 0 .. Count, openFile
  PROVE  \/ /\ ibtFile_ = FALSE /\ pos = 0 /\ varBuf_ = Whole(-1)
            /\ sampleIndex_ = 0 /\ sampleIndexValidOffset_ = 0
            /\ tickSampleIndexOffset_ = -1
         \/ /\ ibtFile_ = TRUE
            /\ \E first \in Samples :
                 /\ varBuf_ = ReadAt(first).buf /\ pos = SampleOffset(first + 1)
                 /\ sampleIndex_ = first + 1 /\ sampleIndexValidOffset_ = first + 1
                 /\ \/ stored = 0 /\ tickSampleIndexOffset_ = 0 /\ varBuf_.lo = -1
                    \/ /\ first = firstValid /\ varBuf_.lo = first
                       /\ tickSampleIndexOffset_ = FirstTick
         \/ /\ ibtFile_ = TRUE
            /\ varBuf_ = ReadAt(Count - 1).buf /\ pos = ReadAt(Count - 1).pos
            /\ sampleIndex_ = 0 /\ sampleIndexValidOffset_ = 0
            /\ tickSampleIndexOffset_ = -1
<1> DEFINE usable == {k \in Samples : TickOf(ReadUpTo[k].buf.lo) >= 0}
           first  == Min(usable)
<1>1. Count \in Nat \ {0} /\ stored \in Nat /\ FirstTick \in Nat BY Constants
<1>2. \A k \in Samples : ReadUpTo[k] = ReadAt(k) BY <1>1, ReadUpToIs DEF Samples
<1>3. Count - 1 \in Samples BY <1>1 DEF Samples
<1>4. ASSUME usable # {}, tickSampleIndexOffset_ = TickOf(varBuf_.lo),
             varBuf_ = ReadUpTo[first].buf
      PROVE  /\ first \in Samples /\ varBuf_ = ReadAt(first).buf
             /\ \/ stored = 0 /\ tickSampleIndexOffset_ = 0 /\ varBuf_.lo = -1
                \/ /\ first = firstValid /\ varBuf_.lo = first
                   /\ tickSampleIndexOffset_ = FirstTick
  <2>1. usable \in SUBSET Nat BY DEF Samples
  <2>2. first \in usable /\ \A k \in usable : first <= k
    <3> HIDE DEF usable
    <3>1. \E x \in usable : \A y \in usable : x <= y BY <1>4, <2>1, Least
    <3> QED BY <3>1 DEF Min
  <2> HIDE DEF first
  <2>3. first \in Samples /\ varBuf_ = ReadAt(first).buf BY <1>2, <1>4, <2>2
  <2>4. varBuf_.lo = LastLo(first) BY <2>3, ReadAtType
  <2>5. CASE stored = 0
    <3>1. varBuf_.lo = -1 BY <2>3, <2>4, <2>5, ReadAtType
    <3>2. tickSampleIndexOffset_ = 0 BY <1>4, <3>1 DEF TickOf
    <3> QED BY <2>3, <2>5, <3>1, <3>2
  <2>6. CASE stored # 0
    <3>1. LastLo(first) >= 0 /\ LastLo(first) \in Halves /\ LastLo(first) <= first
      BY <1>1, <2>3, <2>6, ReadAtType
    <3>2. TickOf(LastLo(first)) >= 0 BY <1>2, <2>2, <2>3, <2>4
    <3>3. LastLo(first) >= firstValid
      <4>1. LastLo(first) # -1 /\ TickOf(LastLo(first)) # -1 BY <3>1, <3>2
      <4> QED BY <3>1, <4>1, TickIs
    <3>4. firstValid \in 0 .. LastLo(first) /\ firstValid \in Samples
      BY <1>1, <2>3, <3>1, <3>3 DEF Samples, Halves
    <3>5. LastLo(firstValid) = firstValid BY <2>3, <3>4, ReadAtType
    <3>6. TickOf(firstValid) = FirstTick
      <4>1. firstValid \in Halves /\ firstValid >= firstValid
        BY <1>1, <3>4 DEF Samples, Halves
      <4>2. TickOf(firstValid) = FirstTick + firstValid - firstValid BY <4>1, TickIs
      <4> QED BY <1>1, <4>2
    <3>7. firstValid \in usable
      <4>1. ReadUpTo[firstValid].buf.lo = firstValid BY <1>2, <3>4, <3>5, ReadAtType
      <4> QED BY <1>1, <3>4, <3>6, <4>1
    <3>8. first <= firstValid BY <2>2, <3>7
    <3>9. first = firstValid BY <2>3, <3>1, <3>3, <3>8 DEF Samples, Halves
    <3> QED BY <1>4, <2>3, <2>4, <3>5, <3>6, <3>9
  <2> QED BY <2>5, <2>6
<1>5. CASE /\ usable # {} /\ ibtFile_ = TRUE
           /\ varBuf_ = ReadUpTo[first].buf /\ pos = SampleOffset(first + 1)
           /\ sampleIndex_ = first + 1 /\ sampleIndexValidOffset_ = first + 1
           /\ tickSampleIndexOffset_ = TickOf(varBuf_.lo)
  <2> HIDE DEF usable, first
  <2> QED BY <1>4, <1>5
<1>6. CASE /\ ibtFile_ = TRUE
           /\ varBuf_ = ReadUpTo[Count - 1].buf /\ pos = ReadUpTo[Count - 1].pos
           /\ sampleIndex_ = 0 /\ sampleIndexValidOffset_ = 0
           /\ tickSampleIndexOffset_ = -1
  BY <1>2, <1>3, <1>6
<1> HIDE DEF first
<1> QED BY <1>5, <1>6 DEF openFile, first

-----------------------------------------------------------------------------
(* What the calls do to the cursor.                                        *)

Positions == 0 .. stored \cup {2 * k : k \in 0 .. Count}
Buffer == [lo : Halves, hi : Halves]

LEMMA PositionIs ==
  ASSUME Inv
  PROVE  /\ Count \in Nat \ {0} /\ stored \in 0 .. 2 * Count /\ stored \in Nat /\ pos \in Nat
         /\ sampleIndex_ \in 0 .. Count /\ sampleIndexValidOffset_ \in 0 .. Count
         /\ varBuf_ \in Buffer
BY Constants DEF Inv, TypeOK, Buffer

(* A read from position p, as next and seek do it.                         *)
Read(p) ==
    /\ varBuf_' \in Buffer /\ pos' \in Positions /\ pos' >= p /\ pos' \in Nat
    /\ \A k \in Nat : p = SampleOffset(k) /\ SampleOffset(k + 1) <= stored =>
         varBuf_' = Whole(k) /\ pos' = SampleOffset(k + 1)
    /\ p >= stored => varBuf_'.lo = varBuf_.lo
    /\ \A k \in Nat : p < stored /\ p >= SampleOffset(k) => varBuf_'.lo >= k

LEMMA ReadDone ==
  ASSUME Inv, NEW p \in Positions,
         varBuf_' = FileReadDataFully(varBuf_, p).buf, pos' = FileReadDataFully(varBuf_, p).pos
  PROVE  Read(p)
<1>1. /\ Count \in Nat \ {0} /\ stored \in 0 .. 2 * Count /\ varBuf_ \in [lo : Halves, hi : Halves]
  BY PositionIs DEF Buffer
<1>2. p \in Nat BY <1>1 DEF Positions
<1> DEFINE r == FileReadDataFully(varBuf_, p)
<1>3. /\ r.buf \in [lo : Halves, hi : Halves]
      /\ r.pos \in Nat /\ r.pos >= p
      /\ r.pos = p \/ r.pos \in 0 .. stored
      /\ \A k \in Nat : p = 2 * k /\ 2 * (k + 1) <= stored =>
           r.buf = Whole(k) /\ r.pos = 2 * (k + 1)
      /\ p >= stored => r.buf.lo = varBuf_.lo
      /\ \A k \in Nat : p < stored /\ p >= 2 * k => r.buf.lo >= k
  BY <1>1, <1>2, ReadIs
<1> HIDE DEF r
<1>4. varBuf_' = r.buf /\ pos' = r.pos BY DEF r
<1> QED BY <1>3, <1>4 DEF Read, Buffer, Positions, SampleOffset

LEMMA Next1Is ==
  ASSUME Inv, NEW readOnly, Next1(readOnly)
  PROVE  /\ ibtFile_ /\ sampleIndex_ \in Samples /\ Read(pos)
         /\ sampleIndex_' = IF readOnly THEN sampleIndex_ ELSE sampleIndex_ + 1
         /\ current' = TRUE
         /\ UNCHANGED <<ibtFile_, sampleIndexValidOffset_, tickSampleIndexOffset_>>
<1>1. pos \in Positions BY DEF Inv, TypeOK, Positions
<1>2. Read(pos) BY <1>1, ReadDone DEF Next1
<1> QED BY <1>2, PositionIs DEF Next1, hasNext, Samples

LEMMA SeekIs ==
  ASSUME Inv, seek
  PROVE  /\ ibtFile_ /\ apart' = FALSE /\ ~finding
         /\ UNCHANGED <<ibtFile_, sampleIndexValidOffset_, tickSampleIndexOffset_>>
         /\ \E t \in sampleIndexValidOffset_ .. Count - 1 :
              \/ /\ UNCHANGED varBuf_ /\ pos' = SampleOffset(t)
                 /\ sampleIndex_' = t /\ current' = FALSE
              \/ /\ Read(SampleOffset(t)) /\ sampleIndex_' = t + 1 /\ current' = TRUE
<1>1. PICK i \in Samples, skipRead \in BOOLEAN :
        LET target == SeekTarget(i)
            r      == FileReadDataFully(varBuf_, SampleOffset(target))
        IN  /\ target < Count
            /\ varBuf_' = IF skipRead THEN varBuf_ ELSE r.buf
            /\ pos' = IF skipRead THEN SampleOffset(target) ELSE r.pos
            /\ sampleIndex_' = IF skipRead THEN target ELSE target + 1
            /\ current' = ~skipRead
  BY DEF seek
<1>2. SeekTarget(i) \in sampleIndexValidOffset_ .. Count - 1
  BY <1>1, PositionIs DEF SeekTarget, Samples
<1>3. PICK t : t = SeekTarget(i) OBVIOUS
<1>4. SampleOffset(t) \in Positions
  BY <1>2, <1>3, PositionIs DEF Positions, SampleOffset
<1>5. CASE skipRead = TRUE
  <2>1. current' = FALSE BY <1>1, <1>5
  <2> QED BY <1>1, <1>2, <1>3, <1>5, <2>1 DEF seek, Free
<1>6. CASE skipRead = FALSE
  <2>1. current' = TRUE BY <1>1, <1>6
  <2>2. /\ varBuf_' = FileReadDataFully(varBuf_, SampleOffset(t)).buf
        /\ pos' = FileReadDataFully(varBuf_, SampleOffset(t)).pos
    BY <1>1, <1>3, <1>6
  <2>3. Read(SampleOffset(t)) BY <1>4, <2>2, ReadDone
  <2> QED BY <1>1, <1>2, <1>3, <1>6, <2>1, <2>3 DEF seek, Free
<1> QED BY <1>5, <1>6

(* The steps by what they do to the cursor.                                *)
LEMMA Steps ==
  ASSUME [Next]_vars
  PROVE  /\ UNCHANGED recording
         /\ \/ next \/ FindNext \/ RunNext
            \/ seek
            \/ close
            \/ updateSessionInfo
            \/ UNCHANGED <<client, current, apart, reread>>
<1> USE DEF recording, client, history
<1>1. CASE next \/ FindNext \/ RunNext \/ seek \/ close \/ updateSessionInfo
  BY <1>1 DEF next, FindNext, RunNext, seek, close, updateSessionInfo
<1>2. CASE seekToSessionNum \/ FindEnd BY <1>2 DEF seekToSessionNum, FindEnd
<1>3. CASE run \/ RunEnd \/ RunTime \/ RunIndex \/ Callback
  BY <1>3 DEF run, RunEnd, RunTime, RunIndex, Callback
<1>4. CASE UNCHANGED vars BY <1>4 DEF vars
<1> QED BY <1>1, <1>2, <1>3, <1>4 DEF Next, FindStep, RunStep

(* next(readOnly), with what the callers leave alone.                      *)
LEMMA StepsNext ==
  ASSUME next \/ FindNext \/ RunNext
  PROVE  /\ \E readOnly \in BOOLEAN :
              Next1(readOnly) /\ apart' = (apart \/ readOnly)
         /\ reread' = reread
<1>1. CASE next
  <2>1. PICK readOnly \in BOOLEAN : Next1(readOnly) BY <1>1 DEF next
  <2>2. reread' = reread BY <1>1 DEF next
  <2> QED BY <2>1, <2>2, Zenon DEF Next1
<1>2. CASE FindNext
  <2>1. Next1(FALSE) BY <1>2 DEF FindNext
  <2>2. reread' = reread BY <1>2 DEF FindNext
  <2> QED BY <2>1, <2>2, Zenon DEF Next1
<1>3. CASE RunNext
  <2>1. Next1(FALSE) BY <1>3 DEF RunNext
  <2>2. reread' = reread BY <1>3 DEF RunNext
  <2> QED BY <2>1, <2>2, Zenon DEF Next1
<1> QED BY <1>1, <1>2, <1>3

-----------------------------------------------------------------------------
(* The invariant is inductive.                                             *)

LEMMA Initially == Init => Inv
<1> SUFFICES ASSUME Init PROVE Inv
  OBVIOUS
<1>1. Count \in Nat \ {0} /\ FirstTick \in Nat BY Constants
<1>2. /\ stored \in 0 .. 2 * Count /\ firstValid \in 0 .. Count /\ matching \subseteq Samples
      /\ finding = FALSE /\ from = -1 /\ reread = FALSE
      /\ rpc = "idle" /\ frame = -1 /\ frameIndex = 0
  <2>1. stored \in 0 .. 2 * Count
    <3>1. stored \in IF Truncated THEN 0 .. 2 * Count ELSE {2 * Count} BY DEF Init
    <3> QED BY <1>1, <3>1
  <2> QED BY <2>1 DEF Init
<1>3. alone \in BOOLEAN /\ openFile BY DEF Init
<1>4. current \in BOOLEAN /\ apart \in BOOLEAN
  <2>1. current = (tickSampleIndexOffset_ # -1) BY DEF Init
  <2>2. apart = (tickSampleIndexOffset_ = -1) BY DEF Init
  <2> QED BY <2>1, <2>2, Zenon
<1>5. apart <=> tickSampleIndexOffset_ = -1 BY DEF Init
<1>6. finding \in BOOLEAN /\ reread \in BOOLEAN BY <1>2
<1>7. Halves = -1 .. Count - 1 /\ Samples = 0 .. Count - 1 BY DEF Halves, Samples
<1>8. Whole(-1) \in Buffer BY <1>1, <1>7 DEF Whole, Buffer
<1>9. FindInv /\ RunInv
  BY <1>2 DEF FindInv, RunInv
<1>10. CASE /\ ibtFile_ = FALSE /\ pos = 0 /\ varBuf_ = Whole(-1)
            /\ sampleIndex_ = 0 /\ sampleIndexValidOffset_ = 0
            /\ tickSampleIndexOffset_ = -1
  <2>1. ibtFile_ \in BOOLEAN /\ ~ibtFile_ BY <1>10
  <2>2. pos \in Positions BY <1>1, <1>2, <1>10 DEF Positions
  <2>3. TypeOK
    BY <1>1, <1>2, <1>3, <1>4, <1>6, <1>7, <1>8, <1>10, <2>1, <2>2
       DEF TypeOK, Positions, Buffer
  <2>4. PosInv /\ CurrentInv /\ ValidInv BY <1>10, <2>1 DEF PosInv, CurrentInv, ValidInv
  <2> QED BY <1>9, <2>3, <2>4 DEF Inv
<1>11. CASE /\ ibtFile_ = TRUE
            /\ \E first \in Samples :
                 /\ varBuf_ = ReadAt(first).buf /\ pos = SampleOffset(first + 1)
                 /\ sampleIndex_ = first + 1 /\ sampleIndexValidOffset_ = first + 1
                 /\ \/ stored = 0 /\ tickSampleIndexOffset_ = 0 /\ varBuf_.lo = -1
                    \/ /\ first = firstValid /\ varBuf_.lo = first
                       /\ tickSampleIndexOffset_ = FirstTick
  <2>1. ibtFile_ \in BOOLEAN /\ ibtFile_ BY <1>11
  <2>2. PICK first \in Samples :
           /\ varBuf_ = ReadAt(first).buf /\ pos = SampleOffset(first + 1)
           /\ sampleIndex_ = first + 1 /\ sampleIndexValidOffset_ = first + 1
           /\ \/ stored = 0 /\ tickSampleIndexOffset_ = 0 /\ varBuf_.lo = -1
              \/ /\ first = firstValid /\ varBuf_.lo = first
                 /\ tickSampleIndexOffset_ = FirstTick
    BY <1>11
  <2>3. pos \in Positions /\ sampleIndex_ \in 0 .. Count /\ pos = 2 * (first + 1)
    BY <1>1, <1>7, <2>2 DEF Positions, SampleOffset
  <2>4. varBuf_ \in Buffer BY <1>2, <2>2, ReadAtType DEF Buffer
  <2>5. tickSampleIndexOffset_ \in Nat BY <1>1, <2>2
  <2>6. TypeOK
    BY <1>1, <1>2, <1>3, <1>4, <1>6, <1>7, <2>1, <2>2, <2>3, <2>4, <2>5
       DEF TypeOK, Positions, Buffer
  <2>7. PosInv BY <2>2 DEF PosInv
  <2>8. CurrentInv
    <3> SUFFICES ASSUME Complete PROVE varBuf_.lo = sampleIndex_ - 1
      BY DEF CurrentInv
    <3>1. stored # 0 BY <1>1 DEF Complete
    <3> QED BY <1>7, <2>2, <3>1
  <2>9. ValidInv BY <1>1, <1>2, <1>7, <2>2 DEF ValidInv, SampleOffset
  <2> QED BY <1>9, <2>6, <2>7, <2>8, <2>9 DEF Inv
<1>12. CASE /\ ibtFile_ = TRUE
            /\ varBuf_ = ReadAt(Count - 1).buf /\ pos = ReadAt(Count - 1).pos
            /\ sampleIndex_ = 0 /\ sampleIndexValidOffset_ = 0
            /\ tickSampleIndexOffset_ = -1
  <2>1. ibtFile_ \in BOOLEAN BY <1>12
  <2>2. Count - 1 \in Samples BY <1>1, <1>7
  <2>3. varBuf_ \in Buffer /\ pos \in Positions
    BY <1>2, <1>12, <2>2, ReadAtType DEF Buffer, Positions
  <2>4. TypeOK
    BY <1>1, <1>2, <1>3, <1>4, <1>6, <1>7, <1>12, <2>1, <2>3
       DEF TypeOK, Positions, Buffer
  <2>5. PosInv /\ CurrentInv /\ ValidInv
    BY <1>5, <1>12 DEF PosInv, CurrentInv, ValidInv
  <2> QED BY <1>9, <2>4, <2>5 DEF Inv
<1> QED BY <1>2, <1>3, <1>10, <1>11, <1>12, OpenFileIs

LEMMA TypeStep == Inv /\ [Next]_vars => TypeOK'
<1> SUFFICES ASSUME Inv, [Next]_vars PROVE TypeOK'
  OBVIOUS
<1>1. TypeOK BY DEF Inv
<1>2. UNCHANGED recording BY Steps
<1> DEFINE Cursor1 == /\ ibtFile_ \in BOOLEAN /\ pos \in Positions
                      /\ sampleIndex_ \in 0 .. Count /\ sampleIndexValidOffset_ \in 0 .. Count
                      /\ tickSampleIndexOffset_ \in Nat \cup {-1} /\ varBuf_ \in Buffer
                      /\ current \in BOOLEAN /\ apart \in BOOLEAN /\ reread \in BOOLEAN
           Loops == /\ finding \in BOOLEAN /\ from \in -1 .. Count
                    /\ rpc \in {"idle", "next", "time", "index", "callback"}
                    /\ frame \in Halves /\ frameIndex \in 0 .. Count
<1>3. Cursor1 /\ Loops BY <1>1 DEF TypeOK, Positions, Buffer
<1>4. Positions' = Positions BY <1>2 DEF Positions, recording
<1>5. Cursor1'
  <2>1. CASE next \/ FindNext \/ RunNext
    <3>1. PICK readOnly \in BOOLEAN : Next1(readOnly) /\ apart' = (apart \/ readOnly)
      BY <2>1, StepsNext
    <3>2. reread' = reread BY <2>1, StepsNext
    <3>3. apart' \in BOOLEAN BY <1>3, <3>1, Zenon
    <3>4. /\ sampleIndex_ \in Samples /\ varBuf_' \in Buffer /\ pos' \in Positions
          /\ sampleIndex_' = (IF readOnly THEN sampleIndex_ ELSE sampleIndex_ + 1)
          /\ UNCHANGED <<ibtFile_, sampleIndexValidOffset_, tickSampleIndexOffset_>>
      BY <3>1, Next1Is DEF Read
    <3>5. current' \in BOOLEAN BY <3>1, Next1Is
    <3>6. sampleIndex_' \in 0 .. Count BY <3>4, PositionIs DEF Samples
    <3> QED BY <1>3, <1>4, <3>2, <3>3, <3>4, <3>5, <3>6
  <2>2. CASE seek
    <3>1. PICK t \in sampleIndexValidOffset_ .. Count - 1 :
            \/ /\ UNCHANGED varBuf_ /\ pos' = SampleOffset(t)
               /\ sampleIndex_' = t /\ current' = FALSE
            \/ /\ Read(SampleOffset(t)) /\ sampleIndex_' = t + 1 /\ current' = TRUE
      BY <2>2, SeekIs
    <3>2. current' \in BOOLEAN /\ apart' \in BOOLEAN
      <4>1. current' = FALSE \/ current' = TRUE BY <3>1
      <4>2. apart' = FALSE BY <2>2, SeekIs
      <4> QED BY <4>1, <4>2
    <3>3. sampleIndex_' \in 0 .. Count BY <3>1, PositionIs
    <3>4. pos' \in Positions /\ varBuf_' \in Buffer
      BY <1>3, <3>1, PositionIs DEF Positions, SampleOffset, Read
    <3>5. UNCHANGED <<ibtFile_, sampleIndexValidOffset_, tickSampleIndexOffset_, reread>>
      BY <2>2, SeekIs DEF seek
    <3> QED BY <1>3, <1>4, <3>2, <3>3, <3>4, <3>5
  <2>3. CASE close
    <3>1. ibtFile_' \in BOOLEAN BY <2>3 DEF close
    <3>2. /\ sampleIndex_' = 0
          /\ UNCHANGED <<pos, sampleIndexValidOffset_, tickSampleIndexOffset_, varBuf_>>
          /\ UNCHANGED <<current, apart, reread>>
      BY <2>3 DEF close, history
    <3> QED BY <1>3, <1>4, <3>1, <3>2, PositionIs
  <2>4. CASE updateSessionInfo
    <3>1. apart' \in BOOLEAN /\ reread' \in BOOLEAN BY <2>4 DEF updateSessionInfo
    <3>2. pos' \in Positions BY <2>4, PositionIs DEF updateSessionInfo, Positions, SampleOffset
    <3>3. /\ UNCHANGED <<ibtFile_, sampleIndex_, sampleIndexValidOffset_,
                         tickSampleIndexOffset_, varBuf_>>
          /\ UNCHANGED current
      BY <2>4 DEF updateSessionInfo
    <3> QED BY <1>3, <1>4, <3>1, <3>2, <3>3
  <2>5. CASE UNCHANGED <<client, current, apart, reread>>
    BY <1>3, <1>4, <2>5 DEF client
  <2> QED BY <2>1, <2>2, <2>3, <2>4, <2>5, Steps
<1>6. Loops'
  <2>1. CASE next \/ seek \/ close \/ updateSessionInfo
    BY <1>3, <2>1 DEF next, seek, close, updateSessionInfo, runVars, history
  <2>2. CASE seekToSessionNum
    <3>1. finding' \in BOOLEAN BY <2>2 DEF seekToSessionNum
    <3>2. from' \in -1 .. Count
      BY <1>3, <2>2, PositionIs DEF seekToSessionNum, Buffer, Halves
    <3> QED BY <1>3, <2>2, <3>1, <3>2 DEF seekToSessionNum, runVars
  <2>3. CASE FindNext BY <1>3, <2>3 DEF FindNext, runVars
  <2>4. CASE FindEnd
    <3>1. finding' \in BOOLEAN BY <2>4 DEF FindEnd
    <3> QED BY <1>3, <2>4, <3>1, PositionIs DEF FindEnd, runVars
  <2>5. CASE run \/ RunNext BY <1>3, <2>5 DEF run, RunNext, history
  <2>6. CASE RunEnd \/ Callback
    BY <1>3, <2>6, PositionIs DEF RunEnd, Callback, Halves, history
  <2>7. CASE RunTime BY <1>3, <2>7 DEF RunTime, Buffer, history
  <2>8. CASE RunIndex BY <1>3, <2>8 DEF RunIndex, history
  <2>9. CASE UNCHANGED vars BY <1>3, <2>9 DEF vars, runVars, history
  <2> QED
    BY <2>1, <2>2, <2>3, <2>4, <2>5, <2>6, <2>7, <2>8, <2>9 DEF Next, FindStep, RunStep
<1>7. /\ stored' \in 0 .. 2 * Count /\ firstValid' \in 0 .. Count
      /\ matching' \subseteq Samples /\ alone' \in BOOLEAN
  <2>1. /\ stored \in 0 .. 2 * Count /\ firstValid \in 0 .. Count
        /\ matching \subseteq Samples /\ alone \in BOOLEAN
    BY <1>1 DEF TypeOK
  <2> QED BY <1>2, <2>1 DEF recording
<1> QED BY <1>5, <1>6, <1>7 DEF TypeOK, Positions, Buffer

(* A sample that a complete recording holds is read whole.                 *)
LEMMA ReadsNext ==
  ASSUME Inv, NEW k \in Nat, Read(SampleOffset(k)), 2 * (k + 1) <= stored
  PROVE  varBuf_'.lo = k /\ varBuf_' = Whole(k) /\ pos' = SampleOffset(k + 1)
<1>1. varBuf_' = Whole(k) /\ pos' = SampleOffset(k + 1) BY DEF Read, SampleOffset
<1> QED BY <1>1 DEF Whole

LEMMA PosStep == Inv /\ [Next]_vars => PosInv'
<1> SUFFICES ASSUME Inv, [Next]_vars PROVE PosInv'
  OBVIOUS
<1>1. PosInv /\ stored' = stored BY Steps DEF Inv, recording
<1>2. CASE next \/ FindNext \/ RunNext
  <2>1. PICK readOnly \in BOOLEAN : Next1(readOnly) /\ apart' = (apart \/ readOnly)
    BY <1>2, StepsNext
  <2>2. /\ ibtFile_ /\ sampleIndex_ \in Samples /\ Read(pos)
        /\ sampleIndex_' = IF readOnly THEN sampleIndex_ ELSE sampleIndex_ + 1
    BY <2>1, Next1Is
  <2> SUFFICES ASSUME ~apart', 2 * (sampleIndex_' + 1) <= stored PROVE pos' = SampleOffset(sampleIndex_')
    BY <1>1 DEF PosInv
  <2>3. ~apart /\ ~readOnly BY <2>1
  <2>4. sampleIndex_' = sampleIndex_ + 1 /\ sampleIndex_ \in Nat BY <2>2, <2>3 DEF Samples
  <2>5. 2 * (sampleIndex_ + 1) <= stored BY <2>4, PositionIs
  <2>6. pos = SampleOffset(sampleIndex_) BY <1>1, <2>2, <2>3, <2>5 DEF PosInv
  <2>7. pos' = SampleOffset(sampleIndex_ + 1) BY <2>2, <2>4, <2>5, <2>6, ReadsNext
  <2> QED BY <2>4, <2>7
<1>3. CASE seek
  <2>1. PICK t \in sampleIndexValidOffset_ .. Count - 1 :
          \/ /\ UNCHANGED varBuf_ /\ pos' = SampleOffset(t)
             /\ sampleIndex_' = t /\ current' = FALSE
          \/ /\ Read(SampleOffset(t)) /\ sampleIndex_' = t + 1 /\ current' = TRUE
    BY <1>3, SeekIs
  <2>2. t \in Nat BY PositionIs
  <2>3. CASE pos' = SampleOffset(t) /\ sampleIndex_' = t BY <2>3 DEF PosInv
  <2>4. CASE Read(SampleOffset(t)) /\ sampleIndex_' = t + 1
    <3> SUFFICES ASSUME 2 * (t + 1 + 1) <= stored PROVE pos' = SampleOffset(t + 1)
      BY <1>1, <2>4 DEF PosInv
    <3>1. 2 * (t + 1) <= stored BY <2>2, PositionIs
    <3> QED BY <2>2, <2>4, <3>1, ReadsNext
  <2> QED BY <2>1, <2>3, <2>4
<1>4. CASE close BY <1>4 DEF close, PosInv
<1>5. CASE updateSessionInfo BY <1>5 DEF updateSessionInfo, PosInv
<1>6. CASE UNCHANGED <<client, current, apart, reread>>
  BY <1>1, <1>6 DEF PosInv, client
<1> QED BY <1>2, <1>3, <1>4, <1>5, <1>6, Steps

LEMMA CurrentStep == Inv /\ [Next]_vars => CurrentInv'
<1> SUFFICES ASSUME Inv, [Next]_vars, Complete, ibtFile_', ~apart', current'
             PROVE  varBuf_'.lo = sampleIndex_' - 1
  BY Steps DEF CurrentInv, Complete, recording
<1>1. PosInv /\ CurrentInv BY DEF Inv
<1>2. CASE next \/ FindNext \/ RunNext
  <2>1. PICK readOnly \in BOOLEAN : Next1(readOnly) /\ apart' = (apart \/ readOnly)
    BY <1>2, StepsNext
  <2>2. /\ ibtFile_ /\ sampleIndex_ \in Samples /\ Read(pos)
        /\ sampleIndex_' = IF readOnly THEN sampleIndex_ ELSE sampleIndex_ + 1
    BY <2>1, Next1Is
  <2>3. ~apart /\ ~readOnly BY <2>1
  <2>4. sampleIndex_' = sampleIndex_ + 1 /\ sampleIndex_ \in Nat BY <2>2, <2>3 DEF Samples
  <2>5. 2 * (sampleIndex_ + 1) <= stored BY <2>2, PositionIs DEF Complete, Samples
  <2>6. pos = SampleOffset(sampleIndex_) BY <1>1, <2>2, <2>3, <2>5 DEF PosInv
  <2>7. varBuf_'.lo = sampleIndex_ BY <2>2, <2>4, <2>5, <2>6, ReadsNext
  <2> QED BY <2>4, <2>7
<1>3. CASE seek
  <2>1. PICK t \in sampleIndexValidOffset_ .. Count - 1 :
          Read(SampleOffset(t)) /\ sampleIndex_' = t + 1
    BY <1>3, SeekIs
  <2>2. t \in Nat /\ 2 * (t + 1) <= stored BY PositionIs DEF Complete
  <2>3. varBuf_'.lo = t BY <2>1, <2>2, ReadsNext
  <2> QED BY <2>1, <2>2, <2>3
<1>4. CASE close BY <1>4 DEF close
<1>5. CASE updateSessionInfo BY <1>5 DEF updateSessionInfo
<1>6. CASE UNCHANGED <<client, current, apart, reread>>
  BY <1>1, <1>6 DEF CurrentInv, client
<1> QED BY <1>2, <1>3, <1>4, <1>5, <1>6, Steps

LEMMA ValidStep == Inv /\ [Next]_vars => ValidInv'
<1> SUFFICES ASSUME Inv, [Next]_vars PROVE ValidInv'
  OBVIOUS
<1>1. ValidInv BY DEF Inv
<1>2. UNCHANGED <<stored, firstValid>> BY Steps DEF recording
<1>3. ASSUME tickSampleIndexOffset_ # -1,
             UNCHANGED <<sampleIndexValidOffset_, tickSampleIndexOffset_, reread>>,
             NEW p \in Nat, Read(p), p >= pos \/ p >= SampleOffset(sampleIndexValidOffset_)
      PROVE  ValidInv'
  <2>1. /\ sampleIndexValidOffset_ >= 1
        /\ \/ stored = 0 /\ tickSampleIndexOffset_ = 0 /\ varBuf_.lo = -1
           \/ /\ sampleIndexValidOffset_ = firstValid + 1
              /\ tickSampleIndexOffset_ = FirstTick
              /\ ~reread => varBuf_.lo >= firstValid /\ pos >= SampleOffset(sampleIndexValidOffset_)
    BY <1>1, <1>3 DEF ValidInv
  <2>2. CASE stored = 0 /\ tickSampleIndexOffset_ = 0 /\ varBuf_.lo = -1
    <3>1. varBuf_'.lo = -1 BY <1>3, <2>2 DEF Read
    <3> QED BY <1>2, <1>3, <2>1, <2>2, <3>1 DEF ValidInv
  <2>3. CASE /\ sampleIndexValidOffset_ = firstValid + 1
             /\ tickSampleIndexOffset_ = FirstTick
             /\ ~reread => varBuf_.lo >= firstValid /\ pos >= SampleOffset(sampleIndexValidOffset_)
    <3>1. ASSUME ~reread
          PROVE  varBuf_'.lo >= firstValid /\ pos' >= SampleOffset(sampleIndexValidOffset_)
      <4>1. firstValid \in Nat /\ varBuf_.lo >= firstValid BY <2>3, <3>1 DEF Inv, TypeOK
      <4>2. p >= SampleOffset(sampleIndexValidOffset_)
        BY <1>3, <2>3, <3>1, PositionIs DEF SampleOffset
      <4>3. pos' >= SampleOffset(sampleIndexValidOffset_) /\ p >= SampleOffset(firstValid)
        BY <1>3, <2>3, <4>1, <4>2, PositionIs DEF Read, SampleOffset
      <4>4. CASE p >= stored BY <1>3, <4>1, <4>3, <4>4 DEF Read
      <4>5. CASE p < stored BY <1>3, <4>1, <4>3, <4>5 DEF Read
      <4> QED BY <1>3, <4>4, <4>5, PositionIs
    <3> QED BY <1>2, <1>3, <2>1, <2>3, <3>1 DEF ValidInv, SampleOffset
  <2> QED BY <2>1, <2>2, <2>3
<1>4. CASE tickSampleIndexOffset_' = -1 BY <1>4 DEF ValidInv
<1>5. CASE (next \/ FindNext \/ RunNext) /\ tickSampleIndexOffset_' # -1
  <2>1. PICK readOnly \in BOOLEAN : Next1(readOnly)
    BY <1>5, StepsNext
  <2>2. /\ Read(pos)
        /\ UNCHANGED <<sampleIndexValidOffset_, tickSampleIndexOffset_>>
    BY <2>1, Next1Is
  <2>3. reread' = reread BY <1>5, StepsNext
  <2>4. PICK p \in Nat : p = pos BY PositionIs
  <2>5. Read(p) /\ p >= pos
    <3>1. p >= pos BY <2>4
    <3> QED BY <2>2, <2>4, <3>1
  <2> QED BY <1>3, <1>5, <2>2, <2>3, <2>5
<1>6. CASE seek /\ tickSampleIndexOffset_' # -1
  <2>1. PICK t \in sampleIndexValidOffset_ .. Count - 1 :
          \/ /\ UNCHANGED varBuf_ /\ pos' = SampleOffset(t)
             /\ sampleIndex_' = t /\ current' = FALSE
          \/ /\ Read(SampleOffset(t)) /\ sampleIndex_' = t + 1 /\ current' = TRUE
    BY <1>6, SeekIs
  <2>2. UNCHANGED <<sampleIndexValidOffset_, tickSampleIndexOffset_, reread>>
    BY <1>6, SeekIs DEF seek
  <2>3. SampleOffset(t) >= SampleOffset(sampleIndexValidOffset_) /\ SampleOffset(t) \in Nat
    BY <2>1, PositionIs DEF SampleOffset
  <2>4. CASE UNCHANGED varBuf_ /\ pos' = SampleOffset(t)
    BY <1>1, <1>2, <1>6, <2>2, <2>3, <2>4 DEF ValidInv, SampleOffset
  <2>5. CASE Read(SampleOffset(t)) BY <1>3, <1>6, <2>2, <2>3, <2>5
  <2> QED BY <2>1, <2>4, <2>5
<1>7. CASE close BY <1>1, <1>2, <1>7 DEF close, history, ValidInv, SampleOffset
<1>8. CASE updateSessionInfo
  BY <1>1, <1>2, <1>8 DEF updateSessionInfo, ValidInv
<1>9. CASE UNCHANGED <<client, current, apart, reread>>
  BY <1>1, <1>2, <1>9 DEF ValidInv, client, SampleOffset
<1> QED BY <1>4, <1>5, <1>6, <1>7, <1>8, <1>9, Steps

LEMMA FindInvStep == Inv /\ [Next]_vars => FindInv'
<1> SUFFICES ASSUME Inv, [Next]_vars PROVE FindInv'
  OBVIOUS
<1>1. FindInv /\ CurrentInv /\ PosInv BY DEF Inv
<1>2. UNCHANGED <<stored, matching>> BY Steps DEF recording
<1>3. CASE next \/ seek \/ close
  <2>1. ~finding' BY <1>3 DEF next, seek, close, Free
  <2> QED BY <2>1 DEF FindInv
<1>4. CASE RunNext
  <2>1. ~finding' BY <1>4 DEF RunNext
  <2> QED BY <2>1 DEF FindInv
<1>5. CASE FindEnd
  <2>1. finding' = FALSE BY <1>5 DEF FindEnd
  <2> QED BY <2>1 DEF FindInv
<1>6. CASE seekToSessionNum
  <2>1. /\ ibtFile_ /\ from' = (IF current THEN varBuf_.lo ELSE Count)
        /\ UNCHANGED <<ibtFile_, varBuf_, current>>
    BY <1>6 DEF seekToSessionNum, client
  <2>2. from' < Count => current /\ from' = varBuf_.lo
    <3>1. Count \in Nat BY PositionIs
    <3> QED BY <2>1, <3>1
  <2>3. \A k \in matching : from' = varBuf_.lo => k < from' \/ varBuf_.lo <= k
    <3>1. varBuf_.lo \in Int /\ matching \subseteq Nat
      BY PositionIs DEF Buffer, Halves, Inv, TypeOK, Samples
    <3> QED BY <3>1
  <2> QED BY <1>2, <2>1, <2>2, <2>3 DEF FindInv
<1>7. CASE FindNext
  <2>1. /\ finding /\ varBuf_.lo \notin matching /\ Next1(FALSE)
        /\ UNCHANGED <<from, finding>>
    BY <1>7 DEF FindNext
  <2>2. /\ ibtFile_ /\ ibtFile_' = ibtFile_ /\ sampleIndex_ \in Samples /\ Read(pos)
        /\ current' = TRUE
    BY <2>1, Next1Is
  <2>3. apart' = apart
    <3>1. apart' = (apart \/ FALSE) BY <2>1 DEF Next1
    <3>2. apart \in BOOLEAN BY DEF Inv, TypeOK
    <3> QED BY <3>1, <3>2, Zenon
  <2>4. ASSUME Complete, ~apart, from < Count
        PROVE  \A k \in matching : k < from \/ varBuf_'.lo <= k
    <3>1. current /\ \A k \in matching : k < from \/ varBuf_.lo <= k
      BY <1>1, <2>1, <2>4 DEF FindInv
    <3>2. varBuf_.lo = sampleIndex_ - 1 BY <1>1, <2>2, <2>4, <3>1 DEF CurrentInv
    <3>3. sampleIndex_ \in Nat /\ 2 * (sampleIndex_ + 1) <= stored
      BY <2>2, <2>4, PositionIs DEF Complete, Samples
    <3>4. pos = SampleOffset(sampleIndex_) BY <1>1, <2>2, <2>4, <3>3 DEF PosInv
    <3>5. varBuf_'.lo = sampleIndex_ BY <2>2, <3>3, <3>4, ReadsNext
    <3>6. matching \subseteq Nat BY DEF Inv, TypeOK, Samples
    <3> QED BY <2>1, <3>1, <3>2, <3>3, <3>5, <3>6
  <2> QED BY <1>2, <2>1, <2>2, <2>3, <2>4 DEF FindInv, Complete
<1>8. CASE updateSessionInfo BY <1>1, <1>8 DEF updateSessionInfo, FindInv
<1>9. CASE UNCHANGED <<client, finding, history>>
  BY <1>1, <1>2, <1>9 DEF FindInv, Complete, client, history
<1>10. run \/ RunEnd \/ RunTime \/ RunIndex \/ Callback \/ UNCHANGED vars
         => UNCHANGED <<client, finding, history>>
  BY DEF run, RunEnd, RunTime, RunIndex, Callback, vars
<1> QED
  BY <1>3, <1>4, <1>5, <1>6, <1>7, <1>8, <1>9, <1>10 DEF Next, FindStep, RunStep

LEMMA RunInvStep == Inv /\ [Next]_vars => RunInv'
<1> SUFFICES ASSUME Inv, [Next]_vars PROVE RunInv'
  OBVIOUS
<1>1. RunInv /\ PosInv BY DEF Inv
<1>2. UNCHANGED <<stored, alone>> BY Steps DEF recording
<1>3. CASE next \/ seek \/ seekToSessionNum \/ close \/ updateSessionInfo
  <2>1. (alone => rpc = "idle") /\ UNCHANGED runVars
    BY <1>3 DEF next, seek, seekToSessionNum, close, updateSessionInfo, Free
  <2> QED BY <1>1, <1>2, <2>1 DEF RunInv, runVars
<1>4. CASE FindNext \/ FindEnd
  <2>1. finding /\ UNCHANGED runVars BY <1>4 DEF FindNext, FindEnd
  <2>2. alone => rpc = "idle" BY <1>1, <2>1 DEF RunInv
  <2> QED BY <1>1, <1>2, <2>1, <2>2 DEF RunInv, runVars
<1>5. CASE run
  <2>1. frame = -1 /\ UNCHANGED <<frame, client, finding, history>> /\ rpc' = "next" /\ ~finding
    BY <1>1, <1>5 DEF run, RunInv
  <2> QED BY <1>2, <2>1 DEF RunInv
<1>6. CASE RunNext
  <2>1. /\ rpc = "next" /\ ~finding /\ Next1(FALSE) /\ rpc' = "time"
        /\ UNCHANGED <<finding, frame>>
    BY <1>6 DEF RunNext
  <2>2. /\ ibtFile_ /\ ibtFile_' = ibtFile_ /\ sampleIndex_ \in Samples /\ Read(pos)
        /\ sampleIndex_' = sampleIndex_ + 1
    BY <2>1, Next1Is
  <2>3. apart' = apart
    <3>1. apart' = (apart \/ FALSE) BY <2>1 DEF Next1
    <3>2. apart \in BOOLEAN BY DEF Inv, TypeOK
    <3> QED BY <3>1, <3>2, Zenon
  <2>4. ASSUME Complete, ~apart, alone
        PROVE  varBuf_'.lo = sampleIndex_ /\ (frame # -1 => frame = sampleIndex_ - 1)
    <3>1. sampleIndex_ \in Nat /\ 2 * (sampleIndex_ + 1) <= stored
      BY <2>2, <2>4, PositionIs DEF Complete, Samples
    <3>2. pos = SampleOffset(sampleIndex_) BY <1>1, <2>2, <2>4, <3>1 DEF PosInv
    <3>3. varBuf_'.lo = sampleIndex_ BY <2>2, <3>1, <3>2, ReadsNext
    <3> QED BY <1>1, <2>1, <2>4, <3>3 DEF RunInv
  <2>5. sampleIndex_ \in Int /\ frame \in Int
    BY <2>2 DEF Samples, Inv, TypeOK, Halves
  <2>6. ASSUME Complete, ~apart, alone
        PROVE  /\ varBuf_'.lo = sampleIndex_' - 1
               /\ frame' # -1 => frame' = sampleIndex_' - 2
    BY <2>1, <2>2, <2>4, <2>5, <2>6
  <2> QED BY <1>2, <2>1, <2>2, <2>3, <2>6 DEF RunInv, Complete
<1>7. CASE RunEnd
  <2>1. rpc' = "idle" /\ frame' = -1 BY <1>7 DEF RunEnd
  <2> QED BY <2>1 DEF RunInv
<1>8. CASE RunTime
  <2>1. /\ rpc = "time" /\ ibtFile_ /\ frame' = varBuf_.lo /\ rpc' = "index"
        /\ UNCHANGED <<client, finding, history>>
    BY <1>8 DEF RunTime
  <2> QED BY <1>1, <1>2, <2>1 DEF RunInv, Complete, client, history
<1>9. CASE RunIndex
  <2>1. /\ rpc = "index" /\ frameIndex' = sampleIndex_ /\ rpc' = "callback"
        /\ UNCHANGED <<client, finding, frame, history>>
    BY <1>9 DEF RunIndex
  <2> QED BY <1>1, <1>2, <2>1 DEF RunInv, Complete, client, history
<1>10. CASE Callback
  <2>1. /\ rpc = "callback" /\ UNCHANGED <<client, finding, history>>
        /\ \/ rpc' = "next" /\ UNCHANGED frame
           \/ rpc' = "idle" /\ frame' = -1
    BY <1>10 DEF Callback
  <2> QED BY <1>1, <1>2, <2>1 DEF RunInv, Complete, client, history
<1>11. CASE UNCHANGED vars
  BY <1>1, <1>2, <1>11 DEF RunInv, Complete, vars, client, runVars, history
<1> QED
  BY <1>3, <1>4, <1>5, <1>6, <1>7, <1>8, <1>9, <1>10, <1>11 DEF Next, FindStep, RunStep

-----------------------------------------------------------------------------
(* Inv holds of a client at every moment.                                  *)
THEOREM Invariance == Spec => []Inv
<1>1. Init => Inv BY Initially
<1>2. Inv /\ [Next]_vars => Inv'
  BY TypeStep, PosStep, CurrentStep, ValidStep, FindInvStep, RunInvStep DEF Inv
<1> QED BY <1>1, <1>2, PTL DEF Spec

(* Every variable stays in its type, wherever the file ends and whatever   *)
(* the callers of a client and the thread in run() do in turn.             *)
THEOREM TypeCorrect == Spec => []TypeOK
<1>1. Inv => TypeOK BY DEF Inv
<1> QED BY <1>1, Invariance, PTL

(* A client that found a valid SessionTick shows no invalid one, and in a  *)
(* complete recording the tick of the sample it shows is its index moved   *)
(* by the two offsets of openFile.                                         *)
THEOREM ValidOnlyHolds == Spec => []ValidOnly
<1>1. Inv => ValidOnly
  <2> SUFFICES ASSUME Inv, tickSampleIndexOffset_ # -1, ~reread
               PROVE  /\ getSessionTicks >= tickSampleIndexOffset_
                      /\ Complete /\ ibtFile_ /\ ~apart /\ current =>
                           getSessionTicks =
                             tickSampleIndexOffset_ + sampleIndex_ - sampleIndexValidOffset_
    BY DEF ValidOnly
  <2>1. /\ firstValid \in 0 .. Count /\ varBuf_.lo \in Halves /\ sampleIndex_ \in Int
    BY PositionIs DEF Inv, TypeOK
  <2>2. CASE stored = 0 /\ tickSampleIndexOffset_ = 0 /\ varBuf_.lo = -1
    BY <2>2, Constants DEF getSessionTicks, TickOf, Complete
  <2>3. CASE /\ tickSampleIndexOffset_ = FirstTick /\ varBuf_.lo >= firstValid
             /\ sampleIndexValidOffset_ = firstValid + 1
    <3>1. TickOf(varBuf_.lo) = FirstTick + varBuf_.lo - firstValid BY <2>1, <2>3, TickIs
    <3>2. varBuf_.lo \in Int /\ firstValid \in Int /\ FirstTick \in Int
      BY <2>1, Constants DEF Halves
    <3>3. getSessionTicks >= tickSampleIndexOffset_
      BY <2>3, <3>1, <3>2 DEF getSessionTicks
    <3>4. ASSUME Complete, ibtFile_, ~apart, current
          PROVE  getSessionTicks =
                   tickSampleIndexOffset_ + sampleIndex_ - sampleIndexValidOffset_
      <4>1. varBuf_.lo = sampleIndex_ - 1 BY <3>4 DEF Inv, CurrentInv
      <4> QED BY <2>1, <2>3, <3>1, <3>2, <4>1 DEF getSessionTicks
    <3> QED BY <3>3, <3>4
  <2> QED BY <2>2, <2>3 DEF Inv, ValidInv
<1> QED BY <1>1, Invariance, PTL

(* In a complete recording seekToSessionNum misses no sample of the        *)
(* session it looks for.                                                   *)
THEOREM FindsFirstHolds == Spec => FindsFirst
<1>1. Inv /\ [Next]_vars => [Complete => FoundFirst]_vars
  <2> SUFFICES ASSUME Inv, Complete, FindEnd, ~apart, from < Count
               PROVE  /\ {k \in matching : from <= k /\ k < varBuf_.lo} = {}
                      /\ \/ varBuf_.lo \in matching
                         \/ {k \in matching : varBuf_.lo <= k} = {}
    BY DEF FoundFirst
  <2>1. finding /\ (varBuf_.lo \in matching \/ ~hasNext) BY DEF FindEnd
  <2>2. /\ ibtFile_ /\ current
        /\ \A k \in matching : k < from \/ varBuf_.lo <= k
    BY <2>1 DEF Inv, FindInv
  <2>3. varBuf_.lo = sampleIndex_ - 1 BY <2>2 DEF Inv, CurrentInv
  <2>4. /\ matching \subseteq 0 .. Count - 1 /\ from \in Int /\ sampleIndex_ \in 0 .. Count
        /\ Count \in Nat
    BY PositionIs DEF Inv, TypeOK, Samples
  <2>5. ASSUME NEW k \in matching, from <= k, k < varBuf_.lo PROVE FALSE
    BY <2>2, <2>3, <2>4, <2>5
  <2>6. ASSUME varBuf_.lo \notin matching, NEW k \in matching, varBuf_.lo <= k PROVE FALSE
    <3>1. sampleIndex_ = Count BY <2>1, <2>2, <2>4, <2>6 DEF hasNext
    <3>2. k <= Count - 1 /\ k \in Int BY <2>4
    <3>3. k = varBuf_.lo BY <2>3, <2>4, <2>6, <3>1, <3>2
    <3> QED BY <2>6, <3>3
  <2> QED BY <2>5, <2>6
<1> QED BY <1>1, Invariance, PTL DEF Spec, FindsFirst

(* The frames of a run that nobody interferes with are those of one sample *)
(* after the other, each under its index.                                  *)
THEOREM RunInOrderHolds == Spec => RunInOrder
<1> DEFINE Ordered ==
      Complete /\ alone /\ ~apart
         => /\ RunTime /\ frame # -1 => frame' = frame + 1
            /\ Callback => frameIndex = frame + 1
<1>1. Inv /\ [Next]_vars => [Ordered]_vars
  <2> SUFFICES ASSUME Inv, Complete, alone, ~apart
               PROVE  /\ RunTime /\ frame # -1 => frame' = frame + 1
                      /\ Callback => frameIndex = frame + 1
    OBVIOUS
  <2>1. RunInv /\ sampleIndex_ \in Int BY PositionIs DEF Inv
  <2>2. ASSUME RunTime, frame # -1 PROVE frame' = frame + 1
    <3>1. rpc = "time" /\ frame' = varBuf_.lo BY <2>2 DEF RunTime
    <3>2. varBuf_.lo = sampleIndex_ - 1 /\ frame = sampleIndex_ - 2
      BY <2>1, <2>2, <3>1 DEF RunInv
    <3> QED BY <2>1, <3>1, <3>2
  <2>3. ASSUME Callback PROVE frameIndex = frame + 1
    <3>1. rpc = "callback" BY <2>3 DEF Callback
    <3> QED BY <2>1, <3>1 DEF RunInv
  <2> QED BY <2>2, <2>3
<1>2. Spec => [][Ordered]_vars BY <1>1, Invariance, PTL DEF Spec
<1> QED BY <1>2 DEF RunInOrder

-----------------------------------------------------------------------------
(* The client is the cursor of Playback.                                   *)

(* Playback's sample and held.                                             *)
Shown == IF varBuf_.lo = varBuf_.hi THEN varBuf_.lo ELSE -2
Held == stored \div 2

LEMMA ShownIs ==
  /\ varBuf_ \in Buffer => Shown \in -2 .. Count - 1
  /\ \A k \in Nat : varBuf_ = Whole(k) => Shown = k
  /\ stored \in Nat => Held \in Nat /\ \A k \in Nat : k < Held <=> 2 * (k + 1) <= stored
<1>1. varBuf_ \in Buffer => Shown \in -2 .. Count - 1
  BY Constants DEF Shown, Buffer, Halves
<1>2. \A k \in Nat : varBuf_ = Whole(k) => Shown = k BY DEF Whole, Shown
<1>3. ASSUME stored \in Nat PROVE Held \in Nat /\ \A k \in Nat : k < Held <=> 2 * (k + 1) <= stored
  <2>1. Held \in Nat /\ (stored = 2 * Held \/ stored = 2 * Held + 1) BY <1>3 DEF Held
  <2> QED BY <1>3, <2>1
<1> QED BY <1>1, <1>2, <1>3

LEMMA InitMaps == Init => Cursor!Init
<1> SUFFICES ASSUME Init PROVE Cursor!Init
  OBVIOUS
<1>1. TypeOK BY Initially DEF Inv
<1>2. /\ Count \in Nat \ {0} /\ stored \in 0 .. 2 * Count /\ firstValid \in 0 .. Count
      /\ openFile /\ stored \in Nat
  BY <1>1, Constants DEF TypeOK, Init
<1>3. Held \in 0 .. Count BY <1>2 DEF Held
<1>4. ibtFile_ \in BOOLEAN /\ (~apart) \in BOOLEAN /\ sampleIndexValidOffset_ \in 0 .. Count
  <2>1. ibtFile_ \in BOOLEAN /\ sampleIndexValidOffset_ \in 0 .. Count BY <1>1 DEF TypeOK
  <2>2. (~apart) = TRUE \/ (~apart) = FALSE BY Zenon
  <2>3. (~apart) \in BOOLEAN BY <2>2
  <2> QED BY <2>1, <2>3
<1>5. apart <=> tickSampleIndexOffset_ = -1 BY DEF Init
<1>6. Shown \in -2 .. Count - 1 BY <1>1, ShownIs DEF TypeOK, Buffer
<1>7. sampleIndex_ = sampleIndexValidOffset_ BY <1>2, OpenFileIs
<1>8. ASSUME ibtFile_, ~apart, sampleIndexValidOffset_ - 1 < Held
      PROVE  Shown = sampleIndexValidOffset_ - 1
  <2>1. PICK first \in Samples :
          varBuf_ = ReadAt(first).buf /\ sampleIndexValidOffset_ = first + 1
    BY <1>2, <1>5, <1>8, OpenFileIs
  <2>2. first \in Nat /\ sampleIndexValidOffset_ - 1 = first BY <2>1 DEF Samples
  <2>3. 2 * (first + 1) <= stored BY <1>2, <1>8, <2>2, ShownIs
  <2>4. varBuf_ = Whole(first) BY <1>2, <2>1, <2>3, ReadAtType
  <2> QED BY <2>2, <2>4, ShownIs
<1>9. Shown \in IF ibtFile_ /\ ~apart THEN Cursor!Sample(sampleIndexValidOffset_ - 1, TRUE)
                ELSE -2 .. Count - 1
  <2>1. CASE ~(ibtFile_ /\ ~apart) BY <1>6, <2>1
  <2>2. CASE ibtFile_ /\ ~apart
    <3>1. CASE sampleIndexValidOffset_ - 1 < Held
      BY <1>8, <2>2, <3>1 DEF Cursor!Sample, Held
    <3>2. CASE ~(sampleIndexValidOffset_ - 1 < Held)
      BY <1>6, <3>2, <2>2 DEF Cursor!Sample, Held
    <3> QED BY <3>1, <3>2
  <2> QED BY <2>1, <2>2
<1> QED BY <1>3, <1>4, <1>7, <1>9 DEF Cursor!Init, Held, Shown

LEMMA StepMaps == Inv /\ [Next]_vars => [Cursor!Next]_(Cursor!vars)
<1> SUFFICES ASSUME Inv, [Next]_vars PROVE [Cursor!Next]_(Cursor!vars)
  OBVIOUS
<1>1. PosInv /\ TypeOK BY DEF Inv
<1>2. stored' = stored /\ Held' = Held BY Steps DEF recording, Held
<1>3. ASSUME NEW k \in Nat, NEW p, p \in Nat, Read(p), p = SampleOffset(k) \/ ~(k < Held)
      PROVE  Shown' \in Cursor!Sample(k, TRUE)
  <2>1. CASE k < Held
    <3>1. 2 * (k + 1) <= stored BY <2>1, PositionIs, ShownIs
    <3>2. varBuf_' = Whole(k) BY <1>3, <2>1, <3>1 DEF Read, SampleOffset
    <3>3. Shown' = k BY <3>2 DEF Shown, Whole
    <3> QED BY <2>1, <3>3 DEF Cursor!Sample, Held
  <2>2. CASE ~(k < Held)
    <3>1. varBuf_' \in Buffer BY <1>3 DEF Read
    <3>2. Shown' \in -2 .. Count - 1 BY <3>1, Constants DEF Shown, Buffer, Halves
    <3> QED BY <2>2, <3>2 DEF Cursor!Sample, Held
  <2> QED BY <2>1, <2>2
<1>4. CASE next \/ FindNext \/ RunNext
  <2>1. PICK readOnly \in BOOLEAN : Next1(readOnly) /\ apart' = (apart \/ readOnly)
    BY <1>4, StepsNext
  <2>2. /\ ibtFile_ /\ sampleIndex_ \in Samples /\ Read(pos)
        /\ sampleIndex_' = (IF readOnly THEN sampleIndex_ ELSE sampleIndex_ + 1)
        /\ UNCHANGED <<ibtFile_, sampleIndexValidOffset_>>
    BY <2>1, Next1Is
  <2>3. sampleIndex_ \in Nat /\ sampleIndex_ < Count BY <2>2, PositionIs DEF Samples
  <2>4. Shown' \in Cursor!Sample(sampleIndex_, ~apart)
    <3>1. CASE apart
      <4>1. Shown' \in -2 .. Count - 1 BY <2>2, Constants DEF Read, Shown, Buffer, Halves
      <4> QED BY <3>1, <4>1 DEF Cursor!Sample
    <3>2. CASE ~apart
      <4>1. pos = SampleOffset(sampleIndex_) \/ ~(sampleIndex_ < Held)
        BY <1>1, <2>2, <2>3, <3>2, PositionIs, ShownIs DEF PosInv
      <4>2. pos \in Nat BY PositionIs
      <4>3. Shown' \in Cursor!Sample(sampleIndex_, TRUE) BY <1>3, <2>2, <2>3, <4>1, <4>2
      <4> QED BY <3>2, <4>3 DEF Cursor!Sample
    <3> QED BY <3>1, <3>2
  <2>5. CASE readOnly = FALSE
    <3>1. apart' = apart
      <4>1. apart' = (apart \/ FALSE) BY <2>1, <2>5
      <4>2. apart \in BOOLEAN BY <1>1 DEF TypeOK
      <4> QED BY <4>1, <4>2, Zenon
    <3>2. sampleIndex_' = sampleIndex_ + 1 BY <2>2, <2>5
    <3>3. Cursor!Step BY <1>2, <2>2, <2>3, <2>4, <3>1, <3>2 DEF Cursor!Step, Held, Shown
    <3> QED BY <3>3 DEF Cursor!Next
  <2>6. CASE readOnly = TRUE
    <3>1. apart' = TRUE BY <2>1, <2>6
    <3>2. (~apart)' = FALSE BY <3>1
    <3>3. sampleIndex_' = sampleIndex_ BY <2>2, <2>6
    <3>4. Cursor!LookAhead
      BY <1>2, <2>2, <2>3, <2>4, <3>2, <3>3 DEF Cursor!LookAhead, Held, Shown
    <3> QED BY <3>4 DEF Cursor!Next
  <2> QED BY <2>5, <2>6
<1>5. CASE seek
  <2>1. PICK t \in sampleIndexValidOffset_ .. Count - 1 :
          \/ /\ UNCHANGED varBuf_ /\ pos' = SampleOffset(t)
             /\ sampleIndex_' = t /\ current' = FALSE
          \/ /\ Read(SampleOffset(t)) /\ sampleIndex_' = t + 1 /\ current' = TRUE
    BY <1>5, SeekIs
  <2>2. ibtFile_ /\ apart' = FALSE /\ UNCHANGED <<ibtFile_, sampleIndexValidOffset_>>
    BY <1>5, SeekIs
  <2>3. (~apart)' = TRUE BY <2>2
  <2>4. CASE UNCHANGED varBuf_ /\ sampleIndex_' = t
    <3>1. Shown' = Shown BY <2>4 DEF Shown
    <3>2. Cursor!Seek(t) BY <1>2, <2>2, <2>3, <2>4, <3>1 DEF Cursor!Seek, Held, Shown
    <3> QED BY <3>2 DEF Cursor!Next
  <2>5. CASE Read(SampleOffset(t)) /\ sampleIndex_' = t + 1
    <3>1. t \in Nat /\ SampleOffset(t) \in Nat BY <2>1, PositionIs DEF SampleOffset
    <3>2. Shown' \in Cursor!Sample(t, TRUE) BY <1>3, <2>5, <3>1
    <3>3. Cursor!Seek(t) BY <1>2, <2>2, <2>3, <2>5, <3>2 DEF Cursor!Seek, Held, Shown
    <3> QED BY <3>3 DEF Cursor!Next
  <2> QED BY <2>1, <2>4, <2>5
<1>6. CASE close
  <2>1. /\ ibtFile_ /\ ibtFile_' = FALSE /\ sampleIndex_' = 0
        /\ UNCHANGED <<sampleIndexValidOffset_, varBuf_, apart>>
    BY <1>6 DEF close, history
  <2>2. Shown' = Shown BY <2>1 DEF Shown
  <2>3. Cursor!Close BY <1>2, <2>1, <2>2 DEF Cursor!Close, Held, Shown
  <2> QED BY <2>3 DEF Cursor!Next
<1>7. CASE updateSessionInfo
  <2>1. /\ ibtFile_ /\ apart' = TRUE
        /\ UNCHANGED <<ibtFile_, sampleIndex_, sampleIndexValidOffset_, varBuf_>>
    BY <1>7 DEF updateSessionInfo
  <2>2. Shown' = Shown /\ (~apart)' = FALSE BY <2>1 DEF Shown
  <2>3. Cursor!Stray BY <1>2, <2>1, <2>2 DEF Cursor!Stray, Held, Shown
  <2> QED BY <2>3 DEF Cursor!Next
<1>8. CASE UNCHANGED <<client, current, apart, reread>>
  <2>1. UNCHANGED Cursor!vars BY <1>2, <1>8 DEF Cursor!vars, client
  <2> QED BY <2>1
<1> QED BY <1>4, <1>5, <1>6, <1>7, <1>8, Steps

(* Every behaviour of the client is one of a cursor over the samples.      *)
THEOREM Implements == Spec => PlaysBack
BY InitMaps, StepMaps, Invariance, PTL DEF Spec, PlaysBack, Cursor!Spec
=============================================================================
