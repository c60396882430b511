----------------------------- MODULE DiskClient -----------------------------
(***************************************************************************)
(* Playback of a recording: DiskClient.cpp over FileReadDataFully          *)
(* (FileHelpers.cpp), and DiskClientDataFrameProcessor::run, which drives  *)
(* a DiskClient frame by frame.                                            *)
(*                                                                         *)
(* A recording has Count samples by its header, of which the file may hold *)
(* fewer (a recorder that died).  The SessionTick of the first samples may *)
(* be invalid; from sample firstValid on it counts up by one.  Positions   *)
(* in the file are counted in half samples, so that a file can end inside  *)
(* one.  next, seek and seekToSessionNum hold ibtFileMutex_ and are one    *)
(* step each, seekToSessionNum one per sample; the getters and             *)
(* updateSessionInfo hold no lock.                                         *)
(*                                                                         *)
(* Assumptions: nobody calls reset() on an open client or close() while a  *)
(* call is in progress.                                                    *)
(***************************************************************************)
EXTENDS Integers, FiniteSetsExt

CONSTANTS
    Count,      \* DiskSubHeader::sampleCount
    FirstTick,  \* SessionTick of the first valid sample
    Truncated   \* the file may hold less than Count samples

ASSUME RecordingAssumption ==
    Count \in Nat \ {0} /\ FirstTick \in Nat /\ Truncated \in BOOLEAN

VARIABLES
    \* the recording
    stored,      \* half samples in the file
    firstValid,  \* samples before this one have an invalid SessionTick
    matching,    \* samples of the session asked for, with time remaining
    alone,       \* only the thread in run() uses the client during it
    \* DiskClient
    ibtFile_,    \* is open
    pos,         \* position of ibtFile_, in half samples
    sampleIndex_, sampleIndexValidOffset_, tickSampleIndexOffset_,
    varBuf_,     \* the sample each half belongs to, -1 for zeros
    finding,     \* seekToSessionNum is in its loop
    \* DiskClientDataFrameProcessor::run
    rpc, frame, frameIndex,
    \* history
    current,     \* the last successful call read a sample into varBuf_
    apart,       \* sampleIndex_ and pos are apart, by next(readOnly), by
                 \* updateSessionInfo or because openFile found no valid
                 \* sample, and no seek since
    reread,      \* updateSessionInfo has been called
    from         \* the sample seekToSessionNum began with, Count when varBuf_
                 \* did not hold the current one (seek(i, skipRead))

recording == <<stored, firstValid, matching, alone>>
client    == <<ibtFile_, pos, sampleIndex_, sampleIndexValidOffset_,
               tickSampleIndexOffset_, varBuf_>>
runVars   == <<rpc, frame, frameIndex>>
history   == <<current, apart, reread, from>>
vars      == <<recording, client, finding, runVars, history>>

Samples == 0 .. Count - 1
Whole(k) == [lo |-> k, hi |-> k]

(* SessionTick in a buffer whose first half is of sample k.                *)
TickOf(k) == IF k = -1 THEN 0
             ELSE IF k < firstValid THEN -1 ELSE FirstTick + k - firstValid

getSessionTicks == TickOf(varBuf_.lo)

-----------------------------------------------------------------------------
(* Mutant: samples are counted from one.                                   *)
SampleOffsetFromOne(index) == IF index = 0 THEN 0 ELSE 2 * (index - 1)

(* sampleDataOffset_ + bufLen * index                                      *)
SampleOffset(index) == 2 * index

(* FileReadDataFully(buf, 1, bufLen, file) at p returns true always; what  *)
(* the file does not hold stays as it was in buf.                          *)
FileReadDataFully(buf, p) ==
    [buf |-> [lo |-> IF p < stored THEN p \div 2 ELSE buf.lo,
              hi |-> IF p + 1 < stored THEN p \div 2 ELSE buf.hi],
     pos |-> IF p >= stored THEN p ELSE IF p + 2 <= stored THEN p + 2 ELSE stored]

(* varBuf_ and the position after openFile() has read the samples 0 .. k.  *)
ReadUpTo[k \in -1 .. Count - 1] ==
    IF k = -1 THEN [buf |-> Whole(-1), pos |-> 0]
    ELSE FileReadDataFully(ReadUpTo[k - 1].buf, ReadUpTo[k - 1].pos)

(* Mutant: playback begins with the first valid sample, the one read.      *)
OpenAtFirstValid ==
    LET first == Min({k \in Samples : TickOf(ReadUpTo[k].buf.lo) >= 0})
    IN  /\ \E k \in Samples : TickOf(ReadUpTo[k].buf.lo) >= 0
        /\ ibtFile_ = TRUE /\ varBuf_ = ReadUpTo[first].buf /\ pos = SampleOffset(first)
        /\ sampleIndex_ = first /\ sampleIndexValidOffset_ = first
        /\ tickSampleIndexOffset_ = TickOf(varBuf_.lo)

(* openFile, called by the constructor: fails before it keeps the file, or *)
(* stops at the first sample with a valid SessionTick, or finds none.      *)
openFile ==
    LET usable == {k \in Samples : TickOf(ReadUpTo[k].buf.lo) >= 0}
        first  == Min(usable)
        last   == ReadUpTo[Count - 1]
    IN  \/ /\ ibtFile_ = FALSE /\ pos = 0 /\ varBuf_ = Whole(-1)
           /\ sampleIndex_ = 0 /\ sampleIndexValidOffset_ = 0
           /\ tickSampleIndexOffset_ = -1
        \/ /\ usable # {} /\ ibtFile_ = TRUE
           /\ varBuf_ = ReadUpTo[first].buf /\ pos = SampleOffset(first + 1)
           /\ sampleIndex_ = first + 1 /\ sampleIndexValidOffset_ = first + 1
           /\ tickSampleIndexOffset_ = TickOf(varBuf_.lo)
        \/ /\ usable = {} /\ ibtFile_ = TRUE
           /\ varBuf_ = last.buf /\ pos = last.pos
           /\ sampleIndex_ = 0 /\ sampleIndexValidOffset_ = 0
           /\ tickSampleIndexOffset_ = -1

Init ==
    /\ stored \in IF Truncated THEN 0 .. 2 * Count ELSE {2 * Count}
    /\ firstValid \in 0 .. Count /\ matching \in SUBSET Samples
    /\ alone \in BOOLEAN /\ openFile
    /\ finding = FALSE /\ from = -1 /\ reread = FALSE
    /\ rpc = "idle" /\ frame = -1 /\ frameIndex = 0
    /\ current = (tickSampleIndexOffset_ # -1) /\ apart = (tickSampleIndexOffset_ = -1)

-----------------------------------------------------------------------------
(* Mutants: an index equal to the count has a next; the last sample has    *)
(* none before it.                                                         *)
HasNextInclusive == ibtFile_ /\ sampleIndex_ <= Count
HasNextButLast == ibtFile_ /\ sampleIndex_ + 1 < Count

hasNext == ibtFile_ /\ sampleIndex_ < Count

(* ibtFileMutex_ is free, and the client may be used by others than run(). *)
Free == ~finding /\ (alone => rpc = "idle")

(* Mutant: only a sample that was there is counted.                        *)
Next1CountingReads(readOnly) ==
    /\ hasNext
    /\ LET r == FileReadDataFully(varBuf_, pos) IN varBuf_' = r.buf /\ pos' = r.pos
    /\ sampleIndex_' = IF readOnly \/ pos >= stored THEN sampleIndex_ ELSE sampleIndex_ + 1
    /\ current' = TRUE /\ apart' = (apart \/ readOnly)
    /\ UNCHANGED <<ibtFile_, sampleIndexValidOffset_, tickSampleIndexOffset_>>

(* next(readOnly) that returns true.                                       *)
Next1(readOnly) ==
    /\ hasNext
    /\ LET r == FileReadDataFully(varBuf_, pos) IN varBuf_' = r.buf /\ pos' = r.pos
    /\ sampleIndex_' = IF readOnly THEN sampleIndex_ ELSE sampleIndex_ + 1
    /\ current' = TRUE /\ apart' = (apart \/ readOnly)
    /\ UNCHANGED <<ibtFile_, sampleIndexValidOffset_, tickSampleIndexOffset_>>

next ==
    /\ Free /\ \E readOnly \in BOOLEAN : Next1(readOnly)
    /\ UNCHANGED <<recording, finding, runVars, reread, from>>

(* No sample up to the first valid one.                                    *)
SeekTarget(sampleIndex) ==
    IF sampleIndex < sampleIndexValidOffset_ THEN sampleIndexValidOffset_ ELSE sampleIndex

(* seek(sampleIndex, skipRead): skipRead || next().                        *)
seek ==
    /\ Free /\ ibtFile_
    /\ \E i \in Samples, skipRead \in BOOLEAN :
         LET target == SeekTarget(i)
             r      == FileReadDataFully(varBuf_, SampleOffset(target))
         IN  /\ target < Count
             /\ varBuf_' = IF skipRead THEN varBuf_ ELSE r.buf
             /\ pos' = IF skipRead THEN SampleOffset(target) ELSE r.pos
             /\ sampleIndex_' = IF skipRead THEN target ELSE target + 1
             /\ current' = ~skipRead
    /\ apart' = FALSE
    /\ UNCHANGED <<ibtFile_, sampleIndexValidOffset_, tickSampleIndexOffset_>>
    /\ UNCHANGED <<recording, finding, runVars, reread, from>>

(* seekToSessionNum: looks at the current sample first, reads on until one *)
(* matches or there is no next.                                            *)
seekToSessionNum ==
    /\ Free /\ ibtFile_
    /\ finding' = TRUE
    /\ from' = IF current THEN varBuf_.lo ELSE Count
    /\ UNCHANGED <<recording, client, runVars, current, apart, reread>>

FindNext ==
    /\ finding /\ varBuf_.lo \notin matching
    /\ Next1(FALSE)
    /\ UNCHANGED <<recording, finding, runVars, reread, from>>

FindEnd ==
    /\ finding /\ (varBuf_.lo \in matching \/ ~hasNext)
    /\ finding' = FALSE /\ from' = -1
    /\ UNCHANGED <<recording, client, runVars, current, apart, reread>>

(* close() calls reset().                                                  *)
close ==
    /\ Free /\ ibtFile_
    /\ ibtFile_' = FALSE /\ sampleIndex_' = 0
    /\ UNCHANGED <<pos, sampleIndexValidOffset_, tickSampleIndexOffset_, varBuf_>>
    /\ UNCHANGED <<recording, finding, runVars, history>>

(* updateSessionInfo() without overrides reads the session text, which the *)
(* samples follow, from the file the samples are read from.                *)
updateSessionInfo ==
    /\ ibtFile_ /\ (alone => rpc = "idle")
    /\ pos' = SampleOffset(0) /\ apart' = TRUE /\ reread' = TRUE
    /\ UNCHANGED <<ibtFile_, sampleIndex_, sampleIndexValidOffset_,
                   tickSampleIndexOffset_, varBuf_>>
    /\ UNCHANGED <<recording, finding, runVars, current, from>>

-----------------------------------------------------------------------------
(* DiskClientDataFrameProcessor::run.                                      *)

run ==
    /\ rpc = "idle" /\ ~finding
    /\ rpc' = "next"
    /\ UNCHANGED <<recording, client, finding, frame, frameIndex, history>>

RunNext ==
    /\ rpc = "next" /\ ~finding /\ Next1(FALSE)
    /\ rpc' = "time"
    /\ UNCHANGED <<recording, finding, frame, frameIndex, reread, from>>

RunEnd ==
    /\ \/ rpc = "next" /\ ~finding /\ ~hasNext
       \/ rpc = "time" /\ ~ibtFile_
    /\ rpc' = "idle" /\ frame' = -1 /\ frameIndex' = 0
    /\ UNCHANGED <<recording, client, finding, history>>

(* getVarDouble(SessionTime), then getSampleIndex(), without a lock.       *)
RunTime ==
    /\ rpc = "time" /\ ibtFile_
    /\ frame' = varBuf_.lo /\ rpc' = "index"
    /\ UNCHANGED <<recording, client, finding, frameIndex, history>>

(* Mutant: the index of the sample in the buffer.                          *)
RunIndexOfBuffer ==
    /\ rpc = "index"
    /\ frameIndex' = sampleIndex_ - 1 /\ rpc' = "callback"
    /\ UNCHANGED <<recording, client, finding, frame, history>>

RunIndex ==
    /\ rpc = "index"
    /\ frameIndex' = sampleIndex_ /\ rpc' = "callback"
    /\ UNCHANGED <<recording, client, finding, frame, history>>

(* The callback says whether to go on.                                     *)
Callback ==
    /\ rpc = "callback"
    /\ \/ rpc' = "next" /\ UNCHANGED <<frame, frameIndex>>
       \/ rpc' = "idle" /\ frame' = -1 /\ frameIndex' = 0
    /\ UNCHANGED <<recording, client, finding, history>>

-----------------------------------------------------------------------------
RunStep == RunNext \/ RunEnd \/ RunTime \/ RunIndex \/ Callback
FindStep == FindNext \/ FindEnd

Next == next \/ seek \/ seekToSessionNum \/ FindStep \/ close \/ updateSessionInfo
        \/ run \/ RunStep

Spec == Init /\ [][Next]_vars

(* A loop that began goes on.                                              *)
FairSpec == Spec /\ WF_vars(FindStep) /\ WF_vars(RunStep)
-----------------------------------------------------------------------------
Halves == -1 .. Count - 1

(* The file holds all the samples its header counts.                       *)
Complete == stored = 2 * Count

(* Every variable stays in its type, the position within the file or at    *)
(* the start of a sample.                                                  *)
TypeOK ==
    /\ stored \in 0 .. 2 * Count /\ firstValid \in 0 .. Count
    /\ matching \subseteq Samples /\ alone \in BOOLEAN
    /\ ibtFile_ \in BOOLEAN /\ finding \in BOOLEAN
    /\ pos \in 0 .. stored \cup {2 * k : k \in 0 .. Count}
    /\ sampleIndex_ \in 0 .. Count /\ sampleIndexValidOffset_ \in 0 .. Count
    /\ tickSampleIndexOffset_ \in Nat \cup {-1}
    /\ varBuf_ \in [lo : Halves, hi : Halves]
    /\ rpc \in {"idle", "next", "time", "index", "callback"}
    /\ frame \in Halves /\ frameIndex \in 0 .. Count
    /\ current \in BOOLEAN /\ apart \in BOOLEAN /\ reread \in BOOLEAN
    /\ from \in -1 .. Count

(* The file position, sampleIndex_ and varBuf_ are moved apart by next,    *)
(* next(readOnly), seek(skipRead), seekToSessionNum and run() each in its  *)
(* own way, over files cut short anywhere; together they are one cursor    *)
(* over the samples, and what is in the buffer is the sample before the    *)
(* cursor, whole, whenever the file holds it.                              *)
Cursor == INSTANCE Playback WITH
    Buffers <- -2 .. Count - 1,
    open    <- ibtFile_,
    start   <- sampleIndexValidOffset_,
    held    <- stored \div 2,
    cursor  <- sampleIndex_,
    sample  <- IF varBuf_.lo = varBuf_.hi THEN varBuf_.lo ELSE -2,
    inStep  <- ~apart

(* Every behaviour of the client is one of Playback.                       *)
PlaysBack == Cursor!Spec

(* Once openFile has found a valid SessionTick, no call puts a sample with *)
(* an invalid one into the buffer, as long as updateSessionInfo has not    *)
(* put the file back to its first sample.  In a complete recording the two *)
(* offsets it kept then turn the index into the tick of the sample in the  *)
(* buffer, wherever the client was moved: both are of the moment after the *)
(* first valid sample was read, though one counts it and the other not.    *)
ValidOnly ==
    tickSampleIndexOffset_ # -1 /\ ~reread =>
        /\ getSessionTicks >= tickSampleIndexOffset_
        /\ Complete /\ ibtFile_ /\ ~apart /\ current =>
             getSessionTicks = tickSampleIndexOffset_ + sampleIndex_ - sampleIndexValidOffset_

(* A search that ends has passed over no sample of the session asked for,  *)
(* and is at one unless none is left.                                      *)
FoundFirst ==
    FindEnd /\ ~apart /\ from < Count =>
      LET passed == {k \in matching : from <= k /\ k < varBuf_.lo}
          left   == {k \in matching : varBuf_.lo <= k}
      IN  passed = {} /\ (varBuf_.lo \in matching \/ left = {})

(* In a complete recording seekToSessionNum gives up only when no sample   *)
(* from the current one on is of the session asked for, and passes over    *)
(* none that is.                                                           *)
FindsFirst == [][Complete => FoundFirst]_vars

(* Each frame of a run that nobody interferes with (alone), on a complete  *)
(* recording, is of the sample after the one before, and its callback is   *)
(* given it under its index.                                               *)
RunInOrder ==
    [][Complete /\ alone /\ ~apart
         => /\ RunTime /\ frame # -1 => frame' = frame + 1
            /\ Callback => frameIndex = frame + 1]_vars

(* Both loops end, at the last sample at the latest; that of run() when    *)
(* nobody moves the client back.                                           *)
LoopsEnd == (finding ~> ~finding) /\ (alone /\ rpc # "idle" ~> rpc = "idle")

(* FileHelpers.cpp:40,47: a read that gets nothing returns false.  next()  *)
(* returns true only when it has read a sample.                            *)
NextReadsSample == [][next => varBuf_' = Whole(pos \div 2)]_vars
=============================================================================
