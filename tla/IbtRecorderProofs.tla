-------------------------- MODULE IbtRecorderProofs -------------------------
(***************************************************************************)
(* Proofs about IbtRecorder, for any frames and lengths of them and any    *)
(* number of runs, files and samples.                                      *)
(***************************************************************************)
EXTENDS IbtRecorder, FiniteSetTheorems, TLAPS

-----------------------------------------------------------------------------
(* The inductive invariant.                                                *)

Counts == [sampleCount : Int, startTime : Int, endTime : Int, lapCount : Int]

File ==
    [samples : Seq(Samples), sub : Counts, front : Nat, part : BOOLEAN,
     run : 1..MaxRuns, text : 0..MaxRuns, state : {"open", "closed", "killed"}]

(* The variables outside the files.                                        *)
LoopTypeOK ==
    /\ isConnected \in BOOLEAN /\ csv \in BOOLEAN /\ alive \in BOOLEAN
    /\ run \in 0..MaxRuns /\ bufLen \in Layouts
    /\ g_data \in Layouts \cup {None} /\ g_nData \in Layouts \cup {0}
    /\ diskBufLen \in Layouts \cup {0} /\ g_diskSubHeader \in Headers
    /\ g_diskLastLap \in Nat \cup {-1}

FilesTypeOK == files \in Seq(File) /\ g_file \in DOMAIN files \cup {None}

(* What the state of a file says of it.                                    *)
FileOK(i, f) ==
    /\ f.state = "open" <=> g_file = i
    /\ f.state # "killed" => f.samples # <<>> /\ f.front = 2 /\ ~f.part /\ f.sub \in Headers
    /\ csv \/ f.state = "closed" \/ f.sub = Empty
    /\ \A j \in DOMAIN f.samples : f.samples[j].run = f.run
    /\ f.state = "closed" => f.text = f.run

(* A file is open only over a buffer, and so only for the run it began in. *)
OpenInv ==
    /\ isConnected => run >= 1
    /\ ~alive => g_file = None /\ g_data = None
    /\ g_file # None =>
         /\ g_data # None
         /\ files[g_file].run = run
         /\ diskBufLen = bufLen
         /\ \A j \in DOMAIN files[g_file].samples : files[g_file].samples[j].len = diskBufLen

(* last is the latest lap of the samples, and sub their counts.            *)
Counted(sub, last, samples) ==
    /\ sub = Report(samples)
    /\ \A j \in DOMAIN samples : samples[j].lap <= last /\ samples[j].time <= sub.endTime
    /\ \E j \in DOMAIN samples : samples[j].time = sub.endTime
    /\ \E j \in DOMAIN samples : samples[j].lap = last

(* The counters in memory are those of the open file.                      *)
CountedInv ==
    g_file # None =>
      /\ Counted(g_diskSubHeader, g_diskLastLap, files[g_file].samples)
      /\ csv => files[g_file].sub = g_diskSubHeader

Conversion ==
    [pc : {"headers", "tables", "rows", "done", "failed"}, file : Nat, seen : Nat,
     found : {"open", "closed", "killed"}, sub : Headers, run : 0..MaxRuns,
     rows : Seq(Samples)]

(* The converter has read no further than the file went, and from a file   *)
(* that was at rest it reads what is there.                                *)
ConvOK ==
    conv.pc # "idle" =>
      /\ conv \in Conversion /\ ~csv /\ conv.file \in DOMAIN files
      /\ conv.found # "open" => Source.state = conv.found
      /\ conv.pc \in {"rows", "done"} =>
           /\ conv.run = Source.run
           /\ Len(conv.rows) <= Len(Source.samples) /\ Len(conv.rows) + 2 <= conv.seen
           /\ \A j \in DOMAIN conv.rows : conv.rows[j] = Source.samples[j]
           /\ Source.front >= 2
      /\ conv.pc \in {"headers", "tables"} => conv.rows = <<>>
      /\ conv.pc = "headers" => conv.sub = Empty
      /\ conv.pc # "headers" /\ conv.found # "open" => conv.sub = Source.sub
      /\ conv.pc = "done" /\ conv.found # "open" => Len(conv.rows) = Len(Source.samples)

AllFilesOK == \A i \in DOMAIN files : FileOK(i, files[i])

Inv ==
    /\ LoopTypeOK /\ FilesTypeOK /\ AllFilesOK
    /\ OpenInv /\ CountedInv /\ FilesDescribed /\ ConvOK

-----------------------------------------------------------------------------
(* Counting one more sample.                                               *)

LEMMA Constants ==
  /\ MaxRuns \in Nat /\ MaxSamples \in Nat /\ MaxFiles \in Nat
  /\ 0 \notin Layouts /\ Frames \subseteq [lap : Nat, time : Nat]
  /\ InCarOnly \in BOOLEAN /\ None \notin Nat /\ None \notin Layouts
BY RecorderAssumption DEF RecorderAssumption

LEMMA MaxIs ==
  ASSUME NEW S \in SUBSET Int, NEW m \in S, \A y \in S : y <= m
  PROVE  Max(S) = m
<1>1. \A y \in S : m >= y OBVIOUS
<1> DEFINE Top(x) == x \in S /\ \A y \in S : x >= y
<1>2. Max(S) \in S /\ \A y \in S : Max(S) >= y
  <2>1. Max(S) = CHOOSE x : Top(x) BY DEF Max
  <2>2. Top(m) BY <1>1
  <2> HIDE DEF Top
  <2>3. Top(Max(S)) BY <2>1, <2>2, Zenon
  <2> QED BY <2>3 DEF Top
<1>3. Max(S) >= m /\ m >= Max(S) BY <1>1, <1>2
<1>4. Max(S) \in Int /\ m \in Int BY <1>2
<1> QED BY <1>3, <1>4

(* The samples at which a lap begins: later than all laps before.          *)
NewLaps(samples) ==
    {i \in DOMAIN samples : \A j \in 1..(i - 1) : samples[j].lap < samples[i].lap}

LEMMA NewLapsAppend ==
  ASSUME NEW s \in Seq(Samples), NEW x \in Samples
  PROVE  /\ Cardinality(NewLaps(s)) \in Nat
         /\ Cardinality(NewLaps(Append(s, x))) =
              IF \A j \in DOMAIN s : s[j].lap < x.lap THEN Cardinality(NewLaps(s)) + 1
                                                     ELSE Cardinality(NewLaps(s))
<1> DEFINE t == Append(s, x)
<1>1. /\ DOMAIN t = DOMAIN s \cup {Len(s) + 1} /\ t[Len(s) + 1] = x
      /\ DOMAIN s = 1..Len(s) /\ Len(s) \in Nat
      /\ \A j \in DOMAIN s : t[j] = s[j]
  OBVIOUS
<1>2. IsFiniteSet(NewLaps(s))
  <2>1. IsFiniteSet(1..Len(s)) BY FS_Interval
  <2> QED BY <1>1, <2>1, FS_Subset DEF NewLaps
<1>3. NewLaps(t) = IF \A j \in DOMAIN s : s[j].lap < x.lap THEN NewLaps(s) \cup {Len(s) + 1}
                                                         ELSE NewLaps(s)
  <2> HIDE DEF t
  <2>1. ASSUME NEW i \in DOMAIN s PROVE i \in NewLaps(t) <=> i \in NewLaps(s)
    <3>1. \A j \in 1..(i - 1) : t[j] = s[j] BY <1>1
    <3> QED BY <1>1, <3>1 DEF NewLaps
  <2>2. Len(s) + 1 \in NewLaps(t) <=> \A j \in DOMAIN s : s[j].lap < x.lap
    <3>1. 1..(Len(s) + 1 - 1) = DOMAIN s BY <1>1
    <3> QED BY <1>1, <3>1 DEF NewLaps
  <2>3. NewLaps(t) \subseteq DOMAIN s \cup {Len(s) + 1} BY <1>1 DEF NewLaps
  <2>4. NewLaps(s) \subseteq DOMAIN s BY DEF NewLaps
  <2>5. CASE \A j \in DOMAIN s : s[j].lap < x.lap
    <3>1. NewLaps(t) = NewLaps(s) \cup {Len(s) + 1} BY <2>1, <2>2, <2>3, <2>4, <2>5
    <3> QED BY <2>5, <3>1
  <2>6. CASE ~\A j \in DOMAIN s : s[j].lap < x.lap
    <3>1. NewLaps(t) = NewLaps(s) BY <2>1, <2>2, <2>3, <2>4, <2>6
    <3> QED BY <2>6, <3>1
  <2> QED BY <2>5, <2>6
<1>4. Len(s) + 1 \notin NewLaps(s) BY <1>1 DEF NewLaps
<1>5. Cardinality(NewLaps(s) \cup {Len(s) + 1}) = Cardinality(NewLaps(s)) + 1
  BY <1>2, <1>4, FS_AddElement
<1>6. Cardinality(NewLaps(s)) \in Nat BY <1>2, FS_CardinalityType
<1> QED BY <1>3, <1>5, <1>6

(* The report on one more sample, when the extremes so far are known.      *)
LEMMA ReportAppend ==
  ASSUME NEW s \in Seq(Samples), NEW x \in Samples, NEW sub, NEW last, s # <<>>,
         Counted(sub, last, s)
  PROVE  /\ last \in Nat /\ sub.sampleCount = Len(s) /\ Len(s) > 0
         /\ sub.startTime \in Nat /\ sub.endTime \in Nat /\ sub.lapCount \in Nat
         /\ Report(Append(s, x)) =
              [sampleCount |-> sub.sampleCount + 1,
               startTime   |-> sub.startTime,
               endTime     |-> IF sub.endTime < x.time THEN x.time ELSE sub.endTime,
               lapCount    |-> IF last < x.lap THEN sub.lapCount + 1 ELSE sub.lapCount]
<1> DEFINE t == Append(s, x)
           times == {t[i].time : i \in DOMAIN t}
           latest == IF sub.endTime < x.time THEN x.time ELSE sub.endTime
<1>1. /\ DOMAIN t = DOMAIN s \cup {Len(s) + 1} /\ t[Len(s) + 1] = x
      /\ DOMAIN s = 1..Len(s) /\ Len(s) \in Nat /\ Len(t) = Len(s) + 1 /\ t # <<>>
      /\ \A j \in DOMAIN s : t[j] = s[j] /\ s[j] \in Samples
  OBVIOUS
<1>2. Len(s) > 0 /\ t[1] = s[1] BY <1>1
<1>3. PICK j \in DOMAIN s : s[j].time = sub.endTime BY DEF Counted
<1>4. PICK k \in DOMAIN s : s[k].lap = last BY DEF Counted
<1>5. /\ x.time \in Nat /\ x.lap \in Nat
      /\ \A i \in DOMAIN s : s[i].time \in Nat /\ s[i].lap \in Nat
  BY <1>1 DEF Samples
<1>6. sub.endTime \in Nat /\ last \in Nat BY <1>3, <1>4, <1>5
<1>7. Max(times) = latest
  <2>1. \A i \in DOMAIN t : t[i].time \in Nat /\ t[i].time <= latest
    <3> SUFFICES ASSUME NEW i \in DOMAIN t PROVE t[i].time \in Nat /\ t[i].time <= latest
      OBVIOUS
    <3>1. CASE i = Len(s) + 1 BY <1>1, <1>5, <1>6, <3>1
    <3>2. CASE i \in DOMAIN s
      <4>1. t[i] = s[i] /\ s[i].time <= sub.endTime BY <1>1, <3>2 DEF Counted
      <4> QED BY <1>5, <1>6, <3>2, <4>1
    <3> QED BY <1>1, <3>1, <3>2
  <2>2. latest \in times
    <3>1. t[j].time = sub.endTime /\ j \in DOMAIN t BY <1>1, <1>3
    <3>2. t[Len(s) + 1].time = x.time /\ Len(s) + 1 \in DOMAIN t BY <1>1
    <3> QED BY <3>1, <3>2
  <2>3. times \in SUBSET Int BY <2>1
  <2>4. \A y \in times : y <= latest BY <2>1
  <2> HIDE DEF times, latest
  <2> QED BY <2>2, <2>3, <2>4, MaxIs
<1>8. /\ sub.sampleCount = Len(s) /\ sub.startTime = s[1].time
      /\ sub.lapCount = Cardinality(NewLaps(s))
  BY DEF Counted, Report, NewLaps
<1>9. (\A i \in DOMAIN s : s[i].lap < x.lap) <=> last < x.lap
  <2>1. \A i \in DOMAIN s : s[i].lap <= last BY DEF Counted
  <2> QED BY <1>4, <1>5, <1>6, <2>1
<1>10. Report(t) = [sampleCount |-> Len(t), startTime |-> t[1].time, endTime |-> Max(times),
                    lapCount |-> Cardinality(NewLaps(t))]
  BY <1>1 DEF Report, NewLaps
<1>11. sub.startTime \in Nat /\ sub.lapCount \in Nat
  BY <1>1, <1>2, <1>5, <1>8, NewLapsAppend
<1>12. Cardinality(NewLaps(t)) = IF last < x.lap THEN sub.lapCount + 1 ELSE sub.lapCount
  BY <1>8, <1>9, NewLapsAppend
<1> HIDE DEF t, times
<1>13. Report(t) = [sampleCount |-> sub.sampleCount + 1, startTime |-> sub.startTime,
                    endTime |-> latest,
                    lapCount |-> IF last < x.lap THEN sub.lapCount + 1 ELSE sub.lapCount]
  BY <1>1, <1>2, <1>7, <1>8, <1>10, <1>12
<1> QED BY <1>2, <1>6, <1>8, <1>11, <1>13 DEF t

LEMMA HeaderRecord ==
  /\ \A n, a, e, l \in Nat :
       [sampleCount |-> n, startTime |-> a, endTime |-> e, lapCount |-> l] \in Headers
  /\ Empty \in Headers /\ Unset \in Headers
BY DEF Headers

(* Both programs count alike: of an open file, and of one with the first.  *)
LEMMA LoggedNext ==
  ASSUME NEW s \in Seq(Samples), NEW frame \in Frames, NEW x \in Samples,
         x.lap = frame.lap, x.time = frame.time,
         NEW sub, NEW last, s # <<>>, Counted(sub, last, s),
         NEW r, r \in {LogDataToIBT(sub, last, frame), LogDataToCSV(sub, last, frame)}
  PROVE  Counted(r.sub, r.last, Append(s, x)) /\ r.sub \in Headers /\ r.last \in Nat
<1> DEFINE t == Append(s, x)
           next == [sampleCount |-> sub.sampleCount + 1,
                    startTime   |-> sub.startTime,
                    endTime     |-> IF sub.endTime < x.time THEN x.time ELSE sub.endTime,
                    lapCount    |-> IF last < x.lap THEN sub.lapCount + 1 ELSE sub.lapCount]
           latest == IF last < x.lap THEN x.lap ELSE last
<1>1. /\ last \in Nat /\ sub.sampleCount = Len(s) /\ Len(s) > 0
      /\ sub.startTime \in Nat /\ sub.endTime \in Nat /\ sub.lapCount \in Nat
      /\ Report(t) = next
  BY ReportAppend
<1>2. x.lap \in Nat /\ x.time \in Nat BY DEF Samples
<1>3. sub.sampleCount # 0 /\ ~(sub.startTime < 0) BY <1>1
<1>4. r = [sub |-> next, last |-> latest]
  BY <1>3 DEF LogDataToIBT, LogDataToCSV
<1>5. /\ DOMAIN t = DOMAIN s \cup {Len(s) + 1} /\ t[Len(s) + 1] = x
      /\ \A j \in DOMAIN s : t[j] = s[j] /\ s[j].lap \in Nat /\ s[j].time \in Nat
  <2>1. /\ DOMAIN t = DOMAIN s \cup {Len(s) + 1} /\ t[Len(s) + 1] = x
        /\ \A j \in DOMAIN s : t[j] = s[j] /\ s[j] \in Samples
    OBVIOUS
  <2> QED BY <2>1 DEF Samples
<1>6. latest \in Nat /\ next.endTime \in Nat BY <1>1, <1>2
<1>7. ASSUME NEW j \in DOMAIN t PROVE t[j].lap <= latest /\ t[j].time <= next.endTime
  <2>1. CASE j = Len(s) + 1 BY <1>1, <1>2, <1>5, <2>1
  <2>2. CASE j \in DOMAIN s
    <3>1. s[j].lap <= last /\ s[j].time <= sub.endTime BY <2>2 DEF Counted
    <3> QED BY <1>1, <1>2, <1>5, <2>2, <3>1
  <2> QED BY <1>5, <2>1, <2>2
<1>8. \E j \in DOMAIN t : t[j].time = next.endTime
  <2>1. PICK j \in DOMAIN s : s[j].time = sub.endTime BY DEF Counted
  <2> QED BY <1>5, <2>1
<1>9. \E j \in DOMAIN t : t[j].lap = latest
  <2>1. PICK j \in DOMAIN s : s[j].lap = last BY DEF Counted
  <2> QED BY <1>5, <2>1
<1>10. next \in Headers
  <2>1. sub.sampleCount + 1 \in Nat /\ next.lapCount \in Nat BY <1>1
  <2> QED BY <1>1, <1>6, <2>1, HeaderRecord
<1> HIDE DEF t, next, latest
<1>11. Counted(next, latest, t) BY <1>1, <1>7, <1>8, <1>9 DEF Counted
<1> QED BY <1>4, <1>6, <1>10, <1>11 DEF t

LEMMA LoggedFirst ==
  ASSUME NEW frame \in Frames, NEW x \in Samples, x.lap = frame.lap, x.time = frame.time,
         NEW last,
         NEW r, r \in {LogDataToIBT(Empty, last, frame), LogDataToCSV(Unset, -1, frame)}
  PROVE  Counted(r.sub, r.last, <<x>>) /\ r.sub \in Headers /\ r.last \in Nat
<1> DEFINE first == [sampleCount |-> 1, startTime |-> x.time, endTime |-> x.time,
                     lapCount |-> 1]
<1>1. x.lap \in Nat /\ x.time \in Nat BY DEF Samples
<1>2. /\ Empty.sampleCount = 0 /\ Empty.lapCount = 0
      /\ Unset.sampleCount = 0 /\ Unset.lapCount = 0 /\ Unset.startTime = -1
  BY DEF Empty, Unset
<1>3. r = [sub |-> first, last |-> x.lap]
  <2>1. CASE r = LogDataToIBT(Empty, last, frame) BY <1>1, <1>2, <2>1 DEF LogDataToIBT
  <2>2. CASE r = LogDataToCSV(Unset, -1, frame) BY <1>1, <1>2, <2>2 DEF LogDataToCSV
  <2> QED BY <2>1, <2>2
<1>4. DOMAIN <<x>> = {1} /\ <<x>>[1] = x /\ Len(<<x>>) = 1 /\ <<x>> # <<>> OBVIOUS
<1>5. Max({<<x>>[i].time : i \in DOMAIN <<x>>}) = x.time
  <2>1. {<<x>>[i].time : i \in DOMAIN <<x>>} = {x.time} BY <1>4
  <2> QED BY <1>1, <2>1, MaxIs
<1>6. NewLaps(<<x>>) = {1} BY <1>4 DEF NewLaps
<1>7. Report(<<x>>) = first
  BY <1>4, <1>5, <1>6, FS_Singleton DEF Report, NewLaps
<1>8. first \in Headers BY <1>1, HeaderRecord
<1>9. Counted(first, x.lap, <<x>>) BY <1>1, <1>4, <1>7 DEF Counted
<1> QED BY <1>1, <1>3, <1>8, <1>9

-----------------------------------------------------------------------------
(* What the steps do to the files.                                         *)

(* files' differs from files in the file i, which may be a new one.        *)
Written(i, f) ==
    /\ i \in 1..(Len(files) + 1) /\ f \in File
    /\ files' \in Seq(File) /\ DOMAIN files' = DOMAIN files \cup {i}
    /\ files'[i] = f
    /\ \A k \in DOMAIN files : k # i => files'[k] = files[k]

LEMMA WrittenOld ==
  ASSUME FilesTypeOK, NEW i \in DOMAIN files, NEW f \in File,
         files' = [files EXCEPT ![i] = f]
  PROVE  Written(i, f)
<1>1. files \in Seq(File) BY DEF FilesTypeOK
<1>2. DOMAIN files = 1..Len(files) /\ Len(files) \in Nat BY <1>1
<1>3. files' \in Seq(File) /\ DOMAIN files' = DOMAIN files BY <1>1
<1>4. files'[i] = f /\ \A k \in DOMAIN files : k # i => files'[k] = files[k] BY <1>1
<1>5. i \in 1..(Len(files) + 1) BY <1>2
<1> QED BY <1>3, <1>4, <1>5 DEF Written

LEMMA WrittenNew ==
  ASSUME FilesTypeOK, NEW e \in File, NEW f \in File,
         files' = [Append(files, e) EXCEPT ![Len(files) + 1] = f]
  PROVE  Written(Len(files) + 1, f)
<1>1. files \in Seq(File) BY DEF FilesTypeOK
<1>2. /\ Append(files, e) \in Seq(File) /\ DOMAIN Append(files, e) = DOMAIN files \cup {Len(files) + 1}
      /\ \A k \in DOMAIN files : Append(files, e)[k] = files[k]
      /\ Len(files) \in Nat /\ Len(files) + 1 \notin DOMAIN files
  BY <1>1
<1>3. files' \in Seq(File) /\ DOMAIN files' = DOMAIN files \cup {Len(files) + 1} BY <1>2
<1>4. files'[Len(files) + 1] = f /\ \A k \in DOMAIN files : files'[k] = files[k] BY <1>2
<1>5. Len(files) + 1 \in 1..(Len(files) + 1) BY <1>2
<1> QED BY <1>3, <1>4, <1>5 DEF Written

(* The file the next sample goes into, before that.                        *)
Target == IF g_file # None THEN g_file ELSE Len(files) + 1
Base == IF g_file # None THEN files[g_file] ELSE NewFile

LEMMA OpenedIs ==
  /\ g_file # None =>
       /\ Opened.files = files /\ Opened.file = g_file
       /\ Opened.sub = g_diskSubHeader /\ Opened.last = g_diskLastLap
       /\ Opened.len = diskBufLen
  /\ g_file = None =>
       /\ Opened.files = Append(files, NewFile) /\ Opened.file = Len(files) + 1
       /\ Opened.sub = (IF csv THEN Unset ELSE Empty)
       /\ csv => Opened.last = -1
       /\ Opened.len = bufLen
BY DEF Opened, Open, openUniqueFile

LEMMA HeadersAreCounts == Headers \subseteq Counts
<1>1. Empty \in Counts /\ Unset \in Counts
  BY DEF Counts, Empty, Unset
<1>2. [sampleCount : Nat, startTime : Nat, endTime : Nat, lapCount : Nat] \subseteq Counts
  BY DEF Counts
<1> QED BY <1>1, <1>2 DEF Headers

LEMMA BaseIs ==
  ASSUME Inv, CanLog
  PROVE  /\ run \in 1..MaxRuns
         /\ Target \in 1..(Len(files) + 1) /\ Opened.file = Target /\ Opened.len = bufLen
         /\ Base \in File /\ Opened.files[Target] = Base
         /\ Base.state = "open" /\ Base.front = 2 /\ ~Base.part
         /\ Base.run = run
         /\ Base.sub = IF csv THEN Opened.sub ELSE Empty
         /\ \A j \in DOMAIN Base.samples : Base.samples[j].run = run /\ Base.samples[j].len = bufLen
<1>1. run \in 1..MaxRuns BY Constants DEF Inv, OpenInv, LoopTypeOK, CanLog
<1>2. CASE g_file # None
  <2>1. g_file \in DOMAIN files /\ files[g_file] \in File /\ DOMAIN files = 1..Len(files)
    BY <1>2 DEF Inv, FilesTypeOK
  <2>2. FileOK(g_file, files[g_file]) BY <2>1 DEF Inv, AllFilesOK
  <2>3. OpenInv /\ CountedInv BY DEF Inv
  <2>4. Base = files[g_file] /\ Target = g_file BY <1>2 DEF Base, Target
  <2>5. files[g_file].sub = IF csv THEN g_diskSubHeader ELSE Empty
    BY <1>2, <2>2, <2>3 DEF FileOK, CountedInv
  <2> QED BY <1>1, <1>2, <2>1, <2>2, <2>3, <2>4, <2>5, OpenedIs DEF FileOK, OpenInv
<1>3. CASE g_file = None
  <2>1. files \in Seq(File) BY DEF Inv, FilesTypeOK
  <2>2. Base = NewFile /\ Target = Len(files) + 1 BY <1>3 DEF Base, Target
  <2>3. (IF csv THEN Unset ELSE Empty) \in Counts BY HeaderRecord, HeadersAreCounts
  <2>4. NewFile \in File BY <1>1, <2>3, Constants DEF NewFile, File
  <2>5. /\ NewFile.state = "open" /\ NewFile.front = 2 /\ ~NewFile.part
        /\ NewFile.run = run /\ NewFile.sub = (IF csv THEN Unset ELSE Empty)
        /\ NewFile.samples = <<>>
    BY DEF NewFile
  <2>6. Append(files, NewFile)[Len(files) + 1] = NewFile BY <2>1
  <2> QED BY <1>1, <1>3, <2>1, <2>2, <2>4, <2>5, <2>6, OpenedIs
<1> QED BY <1>2, <1>3

LEMMA LoggedBase ==
  ASSUME Inv, CanLog, NEW frame \in Frames
  PROVE  /\ Sample(frame) \in Samples
         /\ LET r == Logged(Opened, frame)
            IN  /\ Counted(r.sub, r.last, Append(Base.samples, Sample(frame)))
                /\ r.sub \in Headers /\ r.last \in Nat
<1> DEFINE r == Logged(Opened, frame)
<1>1. run \in 1..MaxRuns /\ bufLen \in Layouts BY BaseIs DEF Inv, LoopTypeOK
<1>2. frame \in [lap : Nat, time : Nat] BY Constants
<1>3. /\ Sample(frame) \in Samples
      /\ Sample(frame).lap = frame.lap /\ Sample(frame).time = frame.time
  BY <1>1, <1>2 DEF Sample, Samples
<1>4. CASE g_file # None
  <2>1. g_file \in DOMAIN files /\ files[g_file] \in File BY <1>4 DEF Inv, FilesTypeOK
  <2>2. FileOK(g_file, files[g_file]) BY <2>1 DEF Inv, AllFilesOK
  <2>3. files[g_file].samples \in Seq(Samples) /\ files[g_file].samples # <<>>
    BY <2>1, <2>2 DEF File, FileOK
  <2>4. Counted(g_diskSubHeader, g_diskLastLap, files[g_file].samples)
    BY <1>4 DEF Inv, CountedInv
  <2>5. r \in {LogDataToIBT(g_diskSubHeader, g_diskLastLap, frame),
               LogDataToCSV(g_diskSubHeader, g_diskLastLap, frame)}
    BY <1>4, OpenedIs DEF Logged
  <2>6. Base = files[g_file] BY <1>4 DEF Base
  <2> HIDE DEF r
  <2> QED BY <1>3, <2>3, <2>4, <2>5, <2>6, LoggedNext DEF r
<1>5. CASE g_file = None
  <2>1. Base.samples = <<>> BY <1>5 DEF Base, NewFile
  <2>2. Append(Base.samples, Sample(frame)) = <<Sample(frame)>> BY <2>1
  <2>3. r = IF csv THEN LogDataToCSV(Unset, -1, frame)
                   ELSE LogDataToIBT(Empty, Opened.last, frame)
    BY <1>5, OpenedIs DEF Logged
  <2> HIDE DEF r
  <2> QED BY <1>3, <2>2, <2>3, LoggedFirst DEF r
<1> QED BY <1>4, <1>5

(* EXCEPT on the record of a file.                                         *)
LEMMA FileWith ==
  ASSUME NEW f \in File, NEW s, NEW h
  PROVE  [f EXCEPT !.samples = s, !.sub = h] =
           [samples |-> s, sub |-> h, front |-> f.front, part |-> f.part,
            run |-> f.run, text |-> f.text, state |-> f.state]
<1> DEFINE g == [samples |-> s, sub |-> f.sub, front |-> f.front, part |-> f.part,
                 run |-> f.run, text |-> f.text, state |-> f.state]
<1>1. [f EXCEPT !.samples = s] = g BY DEF File
<1>2. [f EXCEPT !.samples = s, !.sub = h] = [g EXCEPT !.sub = h] BY <1>1
<1> QED BY <1>2

LEMMA RecordResult ==
  ASSUME Inv, Record
  PROVE  \E x \in Samples, f \in File :
           /\ Written(Target, f)
           /\ f.samples = Append(Base.samples, x) /\ x.run = run /\ x.len = bufLen
           /\ f.sub = IF csv THEN g_diskSubHeader' ELSE Empty
           /\ f.front = 2 /\ ~f.part /\ f.run = run /\ f.state = "open"
           /\ g_file' = Target /\ diskBufLen' = bufLen
           /\ Counted(g_diskSubHeader', g_diskLastLap', f.samples)
           /\ g_diskSubHeader' \in Headers /\ g_diskLastLap' \in Nat
<1>1. CanLog BY DEF Record
<1>2. PICK frame \in Frames :
        /\ files' = [Opened.files EXCEPT ![Opened.file] =
             [Opened.files[Opened.file] EXCEPT
                !.samples = Append(@, Sample(frame)),
                !.sub = IF csv THEN Logged(Opened, frame).sub ELSE @]]
        /\ g_file' = Opened.file /\ diskBufLen' = Opened.len
        /\ g_diskSubHeader' = Logged(Opened, frame).sub
        /\ g_diskLastLap' = Logged(Opened, frame).last
  BY DEF Record
<1> DEFINE r == Logged(Opened, frame)
           x == Sample(frame)
           f == [samples |-> Append(Base.samples, x), sub |-> IF csv THEN r.sub ELSE Base.sub,
                 front |-> Base.front, part |-> Base.part, run |-> Base.run,
                 text |-> Base.text, state |-> Base.state]
<1>3. /\ x \in Samples /\ Counted(r.sub, r.last, Append(Base.samples, x))
      /\ r.sub \in Headers /\ r.last \in Nat
  BY <1>1, LoggedBase
<1>4. x.run = run /\ x.len = bufLen BY DEF Sample
<1>5. r.sub \in Counts BY <1>3, HeadersAreCounts
<1>6. Base \in File /\ Opened.file = Target /\ Opened.files[Target] = Base BY <1>1, BaseIs
<1> HIDE DEF r, x
<1>7. f \in File
  <2>1. Append(Base.samples, x) \in Seq(Samples) BY <1>3, <1>6 DEF File
  <2> QED BY <1>5, <1>6, <2>1 DEF File
<1>8. f = [Base EXCEPT !.samples = Append(@, x), !.sub = IF csv THEN r.sub ELSE @]
  <2> DEFINE s == Append(Base.samples, x)
             h == IF csv THEN r.sub ELSE Base.sub
  <2> HIDE DEF s, h
  <2>1. [Base EXCEPT !.samples = s, !.sub = h] =
          [samples |-> s, sub |-> h, front |-> Base.front, part |-> Base.part,
           run |-> Base.run, text |-> Base.text, state |-> Base.state]
    <3> DEFINE b == Base
    <3>1. b \in File BY <1>6
    <3> HIDE DEF b
    <3>2. [b EXCEPT !.samples = s, !.sub = h] =
            [samples |-> s, sub |-> h, front |-> b.front, part |-> b.part,
             run |-> b.run, text |-> b.text, state |-> b.state]
      BY <3>1, FileWith
    <3> QED BY <3>2 DEF b
  <2> QED BY <2>1 DEF s, h
<1>9. files' = [Opened.files EXCEPT ![Target] = f] BY <1>2, <1>6, <1>8 DEF r, x
<1>10. Written(Target, f)
  <2>1. FilesTypeOK BY DEF Inv
  <2>2. CASE g_file # None
    BY <1>7, <1>9, <2>1, <2>2, OpenedIs, WrittenOld DEF Target, FilesTypeOK
  <2>3. CASE g_file = None
    <3>1. NewFile \in File BY <1>6, <2>3 DEF Base
    <3> HIDE DEF f
    <3> QED BY <1>7, <1>9, <2>1, <2>3, <3>1, OpenedIs, WrittenNew DEF Target
  <2> QED BY <2>2, <2>3
<1>11. /\ f.samples = Append(Base.samples, x) /\ f.sub = (IF csv THEN r.sub ELSE Base.sub)
       /\ f.front = Base.front /\ f.part = Base.part /\ f.run = Base.run
       /\ f.state = Base.state
  OBVIOUS
<1>12. g_diskSubHeader' = r.sub /\ g_diskLastLap' = r.last BY <1>2 DEF r
<1> HIDE DEF f
<1> QED
  BY <1>1, <1>2, <1>3, <1>4, <1>6, <1>7, <1>10, <1>11, <1>12, BaseIs

LEMMA FillingIs ==
  ASSUME NEW old \in Counts, NEW new \in Counts, NEW sub \in Filling(old, new)
  PROVE  /\ sub \in Counts
         /\ \A k \in DOMAIN Empty : sub[k] \in {old[k], new[k]}
<1>1. CASE sub = old BY <1>1
<1>2. CASE sub = [old EXCEPT !.startTime = new.startTime] BY <1>2 DEF Counts, Empty
<1>3. CASE sub = [new EXCEPT !.sampleCount = old.sampleCount, !.lapCount = old.lapCount]
  <2>1. sub = [sampleCount |-> old.sampleCount, startTime |-> new.startTime,
               endTime |-> new.endTime, lapCount |-> old.lapCount]
    BY <1>3 DEF Counts
  <2> QED BY <2>1 DEF Counts, Empty
<1>4. CASE sub = [new EXCEPT !.sampleCount = old.sampleCount] BY <1>4 DEF Counts, Empty
<1> QED BY <1>1, <1>2, <1>3, <1>4 DEF Filling

(* Entry by entry, the counts with or without the last sample.             *)
Between(sub, samples) ==
    \A k \in DOMAIN Empty : sub[k] \in {Report(samples)[k], Report(Front(samples))[k]}

LEMMA KillInRecordResult ==
  ASSUME Inv, KillInRecord
  PROVE  \E x \in Samples, f \in File :
           /\ Written(Target, f)
           /\ f.samples = Append(Base.samples, x) /\ x.run = run
           /\ Between(f.sub, f.samples)
           /\ f.run = run /\ f.state = "killed"
<1>1. CanLog /\ csv BY DEF KillInRecord
<1>2. PICK frame \in Frames :
        \E sub \in Filling(Opened.sub, Logged(Opened, frame).sub) :
          files' = [Opened.files EXCEPT ![Opened.file] =
            [Opened.files[Opened.file] EXCEPT
               !.samples = Append(@, Sample(frame)), !.sub = sub, !.state = "killed"]]
  BY DEF KillInRecord
<1>3. PICK sub \in Filling(Opened.sub, Logged(Opened, frame).sub) :
        files' = [Opened.files EXCEPT ![Opened.file] =
          [Opened.files[Opened.file] EXCEPT
             !.samples = Append(@, Sample(frame)), !.sub = sub, !.state = "killed"]]
  BY <1>2
<1> DEFINE r == Logged(Opened, frame)
           x == Sample(frame)
           f == [samples |-> Append(Base.samples, x), sub |-> sub, front |-> Base.front,
                 part |-> Base.part, run |-> Base.run, text |-> Base.text,
                 state |-> "killed"]
<1>4. /\ x \in Samples /\ Counted(r.sub, r.last, Append(Base.samples, x))
      /\ r.sub \in Headers
  BY <1>1, LoggedBase
<1>5. x.run = run BY DEF Sample
<1>6. /\ Base \in File /\ Opened.file = Target /\ Opened.files[Target] = Base
      /\ Base.run = run /\ Base.sub = Opened.sub
  BY <1>1, BaseIs
<1>7. r.sub \in Counts /\ Opened.sub \in Counts
  BY <1>4, <1>6, HeadersAreCounts DEF File
<1>8. Opened.sub = Report(Base.samples)
  <2>1. CASE g_file # None BY <2>1, OpenedIs DEF Inv, CountedInv, Counted, Base
  <2>2. CASE g_file = None
    BY <1>1, <2>2, OpenedIs DEF Base, NewFile, Report
  <2> QED BY <2>1, <2>2
<1> HIDE DEF r, x
<1>9. sub \in Counts /\ \A k \in DOMAIN Empty : sub[k] \in {Opened.sub[k], r.sub[k]}
  BY <1>3, <1>7, FillingIs DEF r
<1>10. Append(Base.samples, x) \in Seq(Samples) /\ Front(Append(Base.samples, x)) = Base.samples
  BY <1>4, <1>6 DEF File, Front
<1>11. f \in File BY <1>6, <1>9, <1>10 DEF File
<1>12. f = [Base EXCEPT !.samples = Append(@, x), !.sub = sub, !.state = "killed"]
  <2> DEFINE b == Base
             s == Append(b.samples, x)
             g == [samples |-> s, sub |-> sub, front |-> b.front, part |-> b.part,
                   run |-> b.run, text |-> b.text, state |-> b.state]
  <2>1. b \in File BY <1>6
  <2> HIDE DEF b, s
  <2>2. [b EXCEPT !.samples = s, !.sub = sub] = g BY <2>1, FileWith
  <2>3. [b EXCEPT !.samples = s, !.sub = sub, !.state = "killed"] = [g EXCEPT !.state = "killed"]
    BY <2>2
  <2>4. [g EXCEPT !.state = "killed"] =
          [samples |-> s, sub |-> sub, front |-> b.front, part |-> b.part,
           run |-> b.run, text |-> b.text, state |-> "killed"]
    OBVIOUS
  <2> QED BY <2>3, <2>4 DEF b, s
<1>13. files' = [Opened.files EXCEPT ![Target] = f] BY <1>3, <1>6, <1>12 DEF x
<1>14. Written(Target, f)
  <2>1. FilesTypeOK BY DEF Inv
  <2>2. CASE g_file # None
    BY <1>11, <1>13, <2>1, <2>2, OpenedIs, WrittenOld DEF Target, FilesTypeOK
  <2>3. CASE g_file = None
    <3>1. NewFile \in File BY <1>6, <2>3 DEF Base
    <3> HIDE DEF f
    <3> QED BY <1>11, <1>13, <2>1, <2>3, <3>1, OpenedIs, WrittenNew DEF Target
  <2> QED BY <2>2, <2>3
<1>15. Between(f.sub, f.samples) BY <1>4, <1>8, <1>9, <1>10 DEF Between, Counted
<1> QED BY <1>4, <1>5, <1>6, <1>11, <1>14, <1>15

LEMMA CloseResult ==
  ASSUME Inv, close_file, g_file # None
  PROVE  \E f \in File :
           /\ Written(g_file, f)
           /\ f.samples = files[g_file].samples /\ f.sub = g_diskSubHeader
           /\ f.front = 2 /\ ~f.part
           /\ f.run = run /\ f.text = run /\ f.state = "closed"
<1> DEFINE old == files[g_file]
           f == [samples |-> old.samples, sub |-> g_diskSubHeader, front |-> old.front,
                 part |-> old.part, run |-> old.run, text |-> run, state |-> "closed"]
<1>1. FilesTypeOK /\ LoopTypeOK /\ OpenInv /\ CountedInv /\ AllFilesOK BY DEF Inv
<1>2. g_file \in DOMAIN files /\ old \in File BY <1>1 DEF FilesTypeOK
<1>3. FileOK(g_file, old) BY <1>1, <1>2 DEF AllFilesOK
<1>4. old.run = run /\ old.front = 2 /\ ~old.part BY <1>1, <1>3 DEF FileOK, OpenInv
<1>5. csv => old.sub = g_diskSubHeader BY <1>1 DEF CountedInv
<1>6. files' = [files EXCEPT ![g_file] = [logStateToFile(logCloseIBT(old)) EXCEPT !.state = "closed"]]
  BY DEF close_file
<1>7. [logStateToFile(logCloseIBT(old)) EXCEPT !.state = "closed"] = f
  <2> DEFINE b == old
             g == [samples |-> b.samples, sub |-> g_diskSubHeader, front |-> b.front,
                   part |-> b.part, run |-> b.run, text |-> b.text, state |-> b.state]
  <2>1. b \in File /\ (csv => b.sub = g_diskSubHeader) BY <1>2, <1>5
  <2>2. logCloseIBT(b) = g
    <3> HIDE DEF b
    <3>1. [b EXCEPT !.sub = g_diskSubHeader] = g BY <2>1 DEF File
    <3>2. csv => b = g BY <2>1 DEF File
    <3> QED BY <3>1, <3>2 DEF logCloseIBT
  <2> DEFINE h == [samples |-> b.samples, sub |-> g_diskSubHeader, front |-> b.front,
                   part |-> b.part, run |-> b.run, text |-> run, state |-> b.state]
  <2>3. logStateToFile(g) = h BY DEF logStateToFile
  <2>4. logStateToFile(logCloseIBT(b)) = h BY <2>2, <2>3
  <2>5. [h EXCEPT !.state = "closed"] = f OBVIOUS
  <2> QED BY <2>4, <2>5, Zenon
<1>8. g_diskSubHeader \in Counts BY <1>1, HeadersAreCounts DEF LoopTypeOK
<1>9. f \in File BY <1>1, <1>2, <1>8, Constants DEF File, LoopTypeOK
<1> HIDE DEF old
<1>10. Written(g_file, f) BY <1>1, <1>2, <1>6, <1>7, <1>9, WrittenOld DEF old
<1> QED BY <1>4, <1>9, <1>10 DEF old

LEMMA MinTwo ==
  ASSUME NEW n \in Nat
  PROVE  Min({n, 2}) \in Nat /\ (n >= 2 => Min({n, 2}) = 2)
BY DEF Min

LEMMA CutIs ==
  ASSUME NEW f \in File, NEW n \in Nat, n <= Len(f.samples) + 2, NEW p \in BOOLEAN
  PROVE  /\ [Cut(f, n) EXCEPT !.part = p] =
              [samples |-> SubSeq(f.samples, 1, n - 2), sub |-> f.sub, front |-> Min({n, 2}),
               part |-> p, run |-> f.run, text |-> f.text, state |-> "killed"]
         /\ [Cut(f, n) EXCEPT !.part = p] \in File
         /\ Len(SubSeq(f.samples, 1, n - 2)) <= Len(f.samples)
         /\ n >= 2 => Len(SubSeq(f.samples, 1, n - 2)) = n - 2
         /\ \A j \in DOMAIN SubSeq(f.samples, 1, n - 2) :
              j \in DOMAIN f.samples /\ SubSeq(f.samples, 1, n - 2)[j] = f.samples[j]
<1> DEFINE s == SubSeq(f.samples, 1, n - 2)
           m == Min({n, 2})
           g == [samples |-> f.samples, sub |-> f.sub, front |-> f.front, part |-> f.part,
                 run |-> f.run, text |-> f.text, state |-> "killed"]
           c == [samples |-> s, sub |-> f.sub, front |-> m, part |-> f.part,
                 run |-> f.run, text |-> f.text, state |-> "killed"]
           d == [samples |-> s, sub |-> f.sub, front |-> m, part |-> p,
                 run |-> f.run, text |-> f.text, state |-> "killed"]
<1>1. f.samples \in Seq(Samples) BY DEF File
<1>2. /\ s \in Seq(Samples) /\ Len(s) <= Len(f.samples)
      /\ n >= 2 => Len(s) = n - 2
      /\ \A j \in DOMAIN s : j \in DOMAIN f.samples /\ s[j] = f.samples[j]
  BY <1>1
<1>3. m \in Nat BY MinTwo
<1> HIDE DEF s, m
<1>4. Cut(f, n) = c
  <2>1. [f EXCEPT !.state = "killed"] = g BY DEF File
  <2>2. [f EXCEPT !.state = "killed", !.front = m, !.samples = s] =
          [[g EXCEPT !.front = m] EXCEPT !.samples = s]
    BY <2>1
  <2>3. Cut(f, n) = [f EXCEPT !.state = "killed", !.front = m, !.samples = s]
    BY DEF Cut, s, m
  <2> QED BY <2>2, <2>3
<1>5. [c EXCEPT !.part = p] = d OBVIOUS
<1>6. [Cut(f, n) EXCEPT !.part = p] = d BY <1>4, <1>5, Zenon
<1>7. d \in File
  <2>1. /\ f.sub \in Counts /\ f.run \in 1..MaxRuns /\ f.text \in 0..MaxRuns
    BY DEF File
  <2> QED BY <1>2, <1>3, <2>1 DEF File
<1> HIDE DEF d
<1> QED BY <1>2, <1>6, <1>7 DEF s, m, d

LEMMA KillResult ==
  ASSUME Inv, Kill, g_file # None
  PROVE  \E f \in File :
           /\ Written(g_file, f)
           /\ f.state = "killed" /\ f.run = run /\ Len(f.samples) <= Len(files[g_file].samples)
           /\ \A j \in DOMAIN f.samples :
                j \in DOMAIN files[g_file].samples /\ f.samples[j] = files[g_file].samples[j]
           /\ csv => f.samples = files[g_file].samples /\ f.sub = files[g_file].sub
           /\ ~csv => f.sub = Empty
           /\ conv.pc # "idle" /\ conv.file = g_file /\ conv.seen >= 2 =>
                f.front = 2 /\ Len(f.samples) >= conv.seen - 2
<1> DEFINE old == files[g_file]
           seen == IF conv.pc # "idle" /\ conv.file = g_file THEN conv.seen ELSE 0
<1>1. FilesTypeOK /\ LoopTypeOK /\ OpenInv /\ ConvOK /\ AllFilesOK BY DEF Inv
<1>2. g_file \in DOMAIN files /\ old \in File BY <1>1 DEF FilesTypeOK
<1>3. FileOK(g_file, old) BY <1>1, <1>2 DEF AllFilesOK
<1>4. old.run = run /\ old.front = 2 BY <1>1, <1>3 DEF FileOK, OpenInv
<1>5. PICK f \in Left(g_file) : files' = [files EXCEPT ![g_file] = f] BY DEF Kill
<1>6. old.samples \in Seq(Samples) BY <1>2 DEF File
<1>7. CASE csv
  <2> DEFINE g == [samples |-> old.samples, sub |-> old.sub, front |-> old.front,
                   part |-> old.part, run |-> old.run, text |-> old.text, state |-> "killed"]
  <2>1. f = [old EXCEPT !.state = "killed"] BY <1>5, <1>7 DEF Left
  <2>2. f = g
    <3> DEFINE b == old
    <3>1. b \in File BY <1>2
    <3> HIDE DEF b
    <3>2. [b EXCEPT !.state = "killed"] =
            [samples |-> b.samples, sub |-> b.sub, front |-> b.front, part |-> b.part,
             run |-> b.run, text |-> b.text, state |-> "killed"]
      BY <3>1 DEF File
    <3> QED BY <2>1, <3>2 DEF b
  <2>3. g \in File BY <1>2 DEF File
  <2>4. Written(g_file, f) BY <1>1, <1>2, <1>5, <2>2, <2>3, WrittenOld
  <2>5. conv.pc = "idle" BY <1>1, <1>7 DEF ConvOK
  <2>6. /\ f.samples = old.samples /\ f.sub = old.sub /\ f.run = old.run
        /\ f.state = "killed" /\ f \in File
    BY <2>2, <2>3
  <2>7. Len(old.samples) <= Len(old.samples) BY <1>6
  <2> QED BY <1>4, <1>7, <2>4, <2>5, <2>6, <2>7
<1>8. CASE ~csv
  <2>1. PICK n \in seen .. Units(old), p \in BOOLEAN : f = [Cut(old, n) EXCEPT !.part = p]
    BY <1>5, <1>8 DEF Left
  <2>2. seen \in Nat
    <3>1. conv.pc # "idle" => conv.seen \in Nat BY <1>1 DEF ConvOK, Conversion
    <3> QED BY <3>1
  <2>3. Units(old) = 2 + Len(old.samples) BY <1>4 DEF Units
  <2>4. n \in Nat /\ n <= Len(old.samples) + 2 /\ n >= seen BY <1>6, <2>1, <2>2, <2>3
  <2> DEFINE s == SubSeq(old.samples, 1, n - 2)
  <2>5. /\ f = [samples |-> s, sub |-> old.sub, front |-> Min({n, 2}),
                part |-> p, run |-> old.run, text |-> old.text, state |-> "killed"]
        /\ f \in File
        /\ Len(s) <= Len(old.samples)
        /\ n >= 2 => Len(s) = n - 2
        /\ \A j \in DOMAIN s : j \in DOMAIN old.samples /\ s[j] = old.samples[j]
    <3> HIDE DEF old
    <3>1. old \in File BY <1>2 DEF old
    <3>2. n \in Nat /\ n <= Len(old.samples) + 2 /\ p \in BOOLEAN BY <2>4 DEF old
    <3> QED BY <2>1, <3>1, <3>2, CutIs
  <2>6. /\ f.samples = s /\ f.sub = old.sub /\ f.front = Min({n, 2}) /\ f.run = run
        /\ f.state = "killed"
    BY <1>4, <2>5
  <2>7. old.sub = Empty
    <3>1. old.state = "open" BY <1>3 DEF FileOK
    <3> QED BY <1>3, <1>8, <3>1 DEF FileOK
  <2>8. n >= 2 => Min({n, 2}) = 2 BY <2>4, MinTwo
  <2>9. conv.pc # "idle" /\ conv.file = g_file /\ conv.seen >= 2 =>
          f.front = 2 /\ Len(f.samples) >= conv.seen - 2
    <3> SUFFICES ASSUME conv.pc # "idle", conv.file = g_file, conv.seen >= 2
                 PROVE  f.front = 2 /\ Len(f.samples) >= conv.seen - 2
      OBVIOUS
    <3>1. seen = conv.seen OBVIOUS
    <3> HIDE DEF seen, s
    <3>2. n >= 2 BY <2>2, <2>4, <3>1
    <3> QED BY <2>2, <2>4, <2>5, <2>6, <2>8, <3>1, <3>2
  <2>10. Written(g_file, f) BY <1>1, <1>2, <1>5, <2>5, WrittenOld
  <2> HIDE DEF s
  <2> QED BY <1>8, <2>5, <2>6, <2>7, <2>9, <2>10
<1> QED BY <1>7, <1>8

-----------------------------------------------------------------------------
(* The invariant is inductive.                                             *)

LEMMA LoopTypeStep == Inv /\ [Next]_vars => LoopTypeOK'
<1> SUFFICES ASSUME Inv, [Next]_vars PROVE LoopTypeOK'
  OBVIOUS
<1> USE DEF LoopTypeOK
<1>1. LoopTypeOK BY DEF Inv
<1>2. CASE UNCHANGED <<simVars, recVars>>
  BY <1>1, <1>2 DEF simVars, recVars, fileVars
<1>3. CASE Connect
  <2>1. isConnected' \in BOOLEAN BY <1>3 DEF Connect
  <2>2. run' \in 0..MaxRuns BY <1>1, <1>3, Constants DEF Connect
  <2> QED BY <1>1, <1>3, <2>1, <2>2 DEF Connect, fileVars
<1>4. CASE Disconnect
  <2>1. isConnected' \in BOOLEAN BY <1>4 DEF Disconnect
  <2> QED BY <1>1, <1>4, <2>1 DEF Disconnect, recVars, fileVars
<1>5. CASE Record BY <1>1, <1>5, RecordResult DEF Record, simVars
<1>6. CASE initData BY <1>1, <1>6 DEF initData, simVars, fileVars
<1>7. CASE LeftCar BY <1>1, <1>7 DEF LeftCar, close_file, simVars
<1>8. CASE EndSession BY <1>1, <1>8 DEF EndSession, end_session, close_file, simVars
<1>9. CASE Quit
  <2>1. alive' \in BOOLEAN BY <1>9 DEF Quit
  <2> QED BY <1>1, <1>9, <2>1 DEF Quit, end_session, close_file, simVars
<1>10. ASSUME Killed PROVE alive' \in BOOLEAN BY <1>10 DEF Killed
<1>11. CASE Kill BY <1>1, <1>10, <1>11 DEF Kill, Killed, simVars
<1>12. CASE KillInRecord BY <1>1, <1>10, <1>12 DEF KillInRecord, Killed, simVars
<1>13. CASE Restart
  <2>1. alive' \in BOOLEAN BY <1>13 DEF Restart
  <2> QED BY <1>1, <1>13, <2>1, HeaderRecord DEF Restart, simVars
<1>14. Converter => UNCHANGED <<simVars, recVars>>
  BY DEF Converter, OpenSource, ReadHeaders, ReadTables, ReadRow
<1> QED
  BY <1>2, <1>3, <1>4, <1>5, <1>6, <1>7, <1>8, <1>9, <1>11, <1>12, <1>13, <1>14
     DEF Next, Recorder, vars

(* The steps by what they do to the files.                                 *)
LEMMA Steps ==
  ASSUME [Next]_vars
  PROVE  /\ csv' = csv
         /\ \/ Record \/ KillInRecord
            \/ close_file
            \/ Kill
            \/ UNCHANGED <<files, g_file>>
<1>1. CASE Connect \/ Disconnect \/ Converter \/ UNCHANGED vars
  BY <1>1 DEF Connect, Disconnect, Converter, OpenSource, ReadHeaders, ReadTables, ReadRow,
          vars, recVars, fileVars
<1>2. CASE Record \/ KillInRecord \/ Kill BY <1>2 DEF Record, KillInRecord, Kill
<1>3. CASE initData \/ Restart BY <1>3 DEF initData, Restart, fileVars
<1>4. CASE LeftCar \/ EndSession \/ Quit
  BY <1>4 DEF LeftCar, EndSession, Quit, end_session
<1> QED BY <1>1, <1>2, <1>3, <1>4 DEF Next, Recorder

LEMMA NoneIsNoFile ==
  ASSUME Inv
  PROVE  /\ None \notin DOMAIN files /\ DOMAIN files = 1..Len(files) /\ Len(files) \in Nat
         /\ g_file # None => g_file \in DOMAIN files /\ files[g_file] \in File
                             /\ FileOK(g_file, files[g_file])
<1>1. files \in Seq(File) /\ g_file \in DOMAIN files \cup {None} BY DEF Inv, FilesTypeOK
<1>2. DOMAIN files = 1..Len(files) /\ Len(files) \in Nat BY <1>1
<1>3. None \notin DOMAIN files BY <1>2, Constants
<1> QED BY <1>1, <1>2, <1>3 DEF Inv, AllFilesOK

LEMMA WrittenOK ==
  ASSUME Inv, NEW i, NEW f \in File, i = Target, Written(Target, f), csv' = csv,
         g_file' = i \/ g_file' = None, FileOK(i, f)'
  PROVE  FilesTypeOK' /\ AllFilesOK'
<1>1. /\ files' \in Seq(File) /\ DOMAIN files' = DOMAIN files \cup {i} /\ files'[i] = f
      /\ \A k \in DOMAIN files : k # i => files'[k] = files[k]
  BY DEF Written
<1>2. FilesTypeOK' BY <1>1 DEF FilesTypeOK
<1>3. ASSUME NEW k \in DOMAIN files, k # i PROVE FileOK(k, files[k])'
  <2>1. FileOK(k, files[k]) /\ files'[k] = files[k] BY <1>1, <1>3 DEF Inv, AllFilesOK
  <2>2. g_file # k /\ g_file' # k BY <1>3, NoneIsNoFile DEF Target
  <2> DEFINE g == files[k]
  <2>3. (g.state = "open" <=> g_file = k) /\ files'[k] = g BY <2>1 DEF FileOK
  <2>4. g.state # "open" BY <2>2, <2>3
  <2> QED BY <2>1, <2>2, <2>4 DEF FileOK
<1>4. FileOK(i, files[i])' BY <1>1
<1>5. \A k \in DOMAIN files' : k = i \/ (k \in DOMAIN files /\ k # i) BY <1>1
<1>6. AllFilesOK' BY <1>3, <1>4, <1>5 DEF AllFilesOK
<1> QED BY <1>2, <1>6

LEMMA FilesStep == Inv /\ [Next]_vars => FilesTypeOK' /\ AllFilesOK'
<1> SUFFICES ASSUME Inv, [Next]_vars PROVE FilesTypeOK' /\ AllFilesOK'
  OBVIOUS
<1>1. csv' = csv BY Steps
<1>2. CASE Record
  <2>1. PICK x \in Samples, f \in File :
           /\ Written(Target, f)
           /\ f.samples = Append(Base.samples, x) /\ x.run = run
           /\ f.sub = IF csv THEN g_diskSubHeader' ELSE Empty
           /\ f.front = 2 /\ ~f.part /\ f.run = run /\ f.state = "open"
           /\ g_file' = Target
           /\ g_diskSubHeader' \in Headers
    BY <1>2, RecordResult
  <2>2. CanLog BY <1>2 DEF Record
  <2>3. /\ Base.samples \in Seq(Samples)
        /\ \A j \in DOMAIN Base.samples : Base.samples[j].run = run
    BY <2>2, BaseIs DEF File
  <2>4. f.samples # <<>> BY <2>1, <2>3
  <2>5. \A j \in DOMAIN f.samples : f.samples[j].run = run BY <2>1, <2>3
  <2>6. f.sub \in Headers /\ (csv \/ f.sub = Empty) BY <2>1, HeaderRecord
  <2>7. PICK i : i = Target OBVIOUS
  <2>8. g_file' = i BY <2>1, <2>7
  <2>9. FileOK(i, f)' BY <1>1, <2>1, <2>4, <2>5, <2>6, <2>8 DEF FileOK
  <2> QED BY <1>1, <2>1, <2>7, <2>8, <2>9, WrittenOK
<1>3. CASE KillInRecord
  <2>1. PICK x \in Samples, f \in File :
           /\ Written(Target, f)
           /\ f.samples = Append(Base.samples, x) /\ x.run = run
           /\ f.run = run /\ f.state = "killed"
    BY <1>3, KillInRecordResult
  <2>2. CanLog /\ csv /\ g_file' = None BY <1>3 DEF KillInRecord, Killed
  <2>3. PICK i : i = Target OBVIOUS
  <2>4. /\ Base.samples \in Seq(Samples)
        /\ \A j \in DOMAIN Base.samples : Base.samples[j].run = run
        /\ i \in 1..(Len(files) + 1)
    BY <2>2, <2>3, BaseIs DEF File
  <2>5. \A j \in DOMAIN f.samples : f.samples[j].run = run BY <2>1, <2>4
  <2>6. g_file' # i
    <3>1. i \in Nat BY <2>4, NoneIsNoFile
    <3> QED BY <2>2, <3>1, Constants
  <2>7. FileOK(i, f)' BY <1>1, <2>1, <2>2, <2>5, <2>6 DEF FileOK
  <2> QED BY <1>1, <2>1, <2>2, <2>3, <2>7, WrittenOK
<1>4. CASE UNCHANGED <<files, g_file>> BY <1>1, <1>4 DEF Inv, FilesTypeOK, AllFilesOK, FileOK
<1>5. CASE close_file
  <2>1. g_file' = None BY <1>5 DEF close_file
  <2>2. CASE g_file = None
    <3>1. files' = files BY <1>5, <2>2 DEF close_file
    <3> QED BY <1>4, <2>1, <2>2, <3>1
  <2>3. CASE g_file # None
    <3>1. PICK f \in File :
             /\ Written(g_file, f)
             /\ f.samples = files[g_file].samples /\ f.sub = g_diskSubHeader
             /\ f.front = 2 /\ ~f.part
             /\ f.run = run /\ f.text = run /\ f.state = "closed"
      BY <1>5, <2>3, CloseResult
    <3>2. g_file \in DOMAIN files /\ FileOK(g_file, files[g_file]) BY <2>3, NoneIsNoFile
    <3>3. files[g_file].run = run BY <2>3 DEF Inv, OpenInv
    <3>4. files[g_file].samples # <<>> BY <3>2 DEF FileOK
    <3>5. \A j \in DOMAIN f.samples : f.samples[j].run = run BY <3>1, <3>2, <3>3 DEF FileOK
    <3>6. f.sub \in Headers BY <3>1 DEF Inv, LoopTypeOK
    <3>7. PICK i : i = g_file OBVIOUS
    <3>8. g_file' # i /\ i = Target BY <2>1, <2>3, <3>7 DEF Target
    <3>9. FileOK(i, f)' BY <1>1, <3>1, <3>4, <3>5, <3>6, <3>8 DEF FileOK
    <3> QED BY <1>1, <2>1, <3>1, <3>7, <3>8, <3>9, WrittenOK
  <2> QED BY <2>2, <2>3
<1>6. CASE Kill
  <2>1. g_file' = None BY <1>6 DEF Kill, Killed
  <2>2. CASE g_file = None
    <3>1. files' = files BY <1>6, <2>2 DEF Kill
    <3> QED BY <1>4, <2>1, <2>2, <3>1
  <2>3. CASE g_file # None
    <3>1. PICK f \in File :
             /\ Written(g_file, f)
             /\ f.state = "killed" /\ f.run = run
             /\ \A j \in DOMAIN f.samples :
                  j \in DOMAIN files[g_file].samples /\ f.samples[j] = files[g_file].samples[j]
             /\ ~csv => f.sub = Empty
      BY <1>6, <2>3, KillResult
    <3>2. g_file \in DOMAIN files /\ FileOK(g_file, files[g_file]) BY <2>3, NoneIsNoFile
    <3>3. files[g_file].run = run BY <2>3 DEF Inv, OpenInv
    <3>4. \A j \in DOMAIN f.samples : f.samples[j].run = run BY <3>1, <3>2, <3>3 DEF FileOK
    <3>5. PICK i : i = g_file OBVIOUS
    <3>6. g_file' # i /\ i = Target BY <2>1, <2>3, <3>5 DEF Target
    <3>7. FileOK(i, f)' BY <1>1, <3>1, <3>4, <3>6 DEF FileOK
    <3> QED BY <1>1, <2>1, <3>1, <3>5, <3>6, <3>7, WrittenOK
  <2> QED BY <2>2, <2>3
<1> QED BY <1>2, <1>3, <1>4, <1>5, <1>6, Steps

LEMMA OpenStep == Inv /\ [Next]_vars => OpenInv'
<1> SUFFICES ASSUME Inv, [Next]_vars PROVE OpenInv'
  OBVIOUS
<1>1. OpenInv /\ LoopTypeOK BY DEF Inv
<1>2. CASE Record
  <2>1. CanLog BY <1>2 DEF Record
  <2>2. PICK x \in Samples, f \in File :
           /\ Written(Target, f)
           /\ f.samples = Append(Base.samples, x) /\ x.len = bufLen
           /\ f.run = run /\ g_file' = Target /\ diskBufLen' = bufLen
    BY <1>2, RecordResult
  <2>3. /\ Base.samples \in Seq(Samples)
        /\ \A j \in DOMAIN Base.samples : Base.samples[j].len = bufLen
    BY <2>1, BaseIs DEF File
  <2>4. \A j \in DOMAIN f.samples : f.samples[j].len = bufLen BY <2>2, <2>3
  <2>5. files'[g_file'] = f BY <2>2 DEF Written
  <2>6. UNCHANGED <<isConnected, run, bufLen, alive, g_data>> /\ alive /\ g_data # None
    BY <1>2 DEF Record, CanLog, simVars
  <2> QED BY <1>1, <2>2, <2>4, <2>5, <2>6 DEF OpenInv
<1>3. CASE UNCHANGED <<run, bufLen, g_data, files, g_file, diskBufLen, alive>>
             /\ (isConnected' => isConnected)
  BY <1>1, <1>3 DEF OpenInv
<1>4. CASE Connect BY <1>1, <1>4, Constants DEF Connect, OpenInv, LoopTypeOK, fileVars
<1>5. CASE initData BY <1>1, <1>5, Constants DEF initData, OpenInv, LoopTypeOK, fileVars, simVars
<1>6. CASE LeftCar \/ EndSession \/ Quit
  BY <1>1, <1>6 DEF LeftCar, EndSession, Quit, end_session, close_file, OpenInv, simVars, CanLog
<1>7. CASE Kill \/ KillInRecord
  <2>1. g_file' = None /\ g_data' = None /\ UNCHANGED <<isConnected, run>>
    BY <1>7 DEF Kill, KillInRecord, Killed, simVars
  <2> QED BY <1>1, <2>1 DEF OpenInv
<1>8. CASE Restart BY <1>1, <1>8 DEF Restart, OpenInv, simVars
<1>9. CASE Disconnect BY <1>3, <1>9 DEF Disconnect, recVars, fileVars
<1>10. CASE Converter \/ UNCHANGED vars
  <2>1. UNCHANGED <<simVars, recVars>>
    BY <1>10 DEF Converter, OpenSource, ReadHeaders, ReadTables, ReadRow, vars
  <2> QED BY <1>3, <2>1 DEF simVars, recVars, fileVars
<1> QED
  BY <1>2, <1>4, <1>5, <1>6, <1>7, <1>8, <1>9, <1>10 DEF Next, Recorder

LEMMA CountedStep == Inv /\ [Next]_vars => CountedInv'
<1> SUFFICES ASSUME Inv, [Next]_vars PROVE CountedInv'
  OBVIOUS
<1>1. CountedInv /\ OpenInv BY DEF Inv
<1>2. CASE Record
  <2>1. PICK x \in Samples, f \in File :
           /\ Written(Target, f)
           /\ f.sub = IF csv THEN g_diskSubHeader' ELSE Empty
           /\ g_file' = Target
           /\ Counted(g_diskSubHeader', g_diskLastLap', f.samples)
    BY <1>2, RecordResult
  <2>2. files'[g_file'] = f BY <2>1 DEF Written
  <2>3. csv' = csv BY Steps
  <2>4. Counted(g_diskSubHeader, g_diskLastLap, files[g_file].samples)'
    BY <2>1, <2>2 DEF Counted
  <2> QED BY <2>1, <2>2, <2>3, <2>4 DEF CountedInv
<1>3. CASE g_file' = None BY <1>3 DEF CountedInv
<1>4. CASE UNCHANGED <<fileVars, csv>> BY <1>1, <1>4 DEF CountedInv, Counted, fileVars
<1>5. CASE Restart
  <2>1. g_file' = None BY <1>1, <1>5 DEF Restart, OpenInv
  <2> QED BY <1>3, <2>1
<1>6. CASE LeftCar \/ EndSession \/ Quit \/ Kill \/ KillInRecord
  <2>1. g_file' = None
    BY <1>6 DEF LeftCar, EndSession, Quit, end_session, close_file, Kill, KillInRecord, Killed
  <2> QED BY <1>3, <2>1
<1>7. Connect \/ initData => UNCHANGED <<fileVars, csv>> BY DEF Connect, initData
<1>8. Disconnect \/ Converter \/ UNCHANGED vars => UNCHANGED <<fileVars, csv>>
  BY DEF Disconnect, Converter, OpenSource, ReadHeaders, ReadTables, ReadRow, vars, recVars
<1> QED BY <1>2, <1>4, <1>5, <1>6, <1>7, <1>8 DEF Next, Recorder

(* What FilesDescribed says of one file.                                   *)
Described(f) ==
    /\ f.state = "closed" \/ (csv /\ f.state = "open") => f.sub = Report(f.samples)
    /\ csv /\ f.state = "killed" => Between(f.sub, f.samples)

LEMMA DescribedStep == Inv /\ [Next]_vars => FilesDescribed'
<1> SUFFICES ASSUME Inv, [Next]_vars PROVE FilesDescribed'
  OBVIOUS
<1>1. csv' = csv BY Steps
<1>2. \A i \in DOMAIN files : Described(files[i])
  BY DEF Inv, FilesDescribed, Described, Between
<1>3. ASSUME \A i \in DOMAIN files' : Described(files'[i]) PROVE FilesDescribed'
  BY <1>1, <1>3 DEF FilesDescribed, Described, Between
<1>4. ASSUME NEW i, NEW f \in File, Written(i, f), Described(f) PROVE FilesDescribed'
  BY <1>2, <1>3, <1>4 DEF Written
<1>5. CASE Record
  <2>1. PICK x \in Samples, f \in File :
           /\ Written(Target, f)
           /\ f.sub = IF csv THEN g_diskSubHeader' ELSE Empty
           /\ f.state = "open"
           /\ Counted(g_diskSubHeader', g_diskLastLap', f.samples)
    BY <1>5, RecordResult
  <2>2. Described(f) BY <2>1 DEF Described, Counted
  <2> QED BY <1>4, <2>1, <2>2
<1>6. CASE KillInRecord
  <2>1. PICK x \in Samples, f \in File :
           /\ Written(Target, f) /\ Between(f.sub, f.samples) /\ f.state = "killed"
    BY <1>6, KillInRecordResult
  <2>2. Described(f) BY <2>1 DEF Described
  <2> QED BY <1>4, <2>1, <2>2
<1>7. CASE UNCHANGED files BY <1>2, <1>3, <1>7
<1>8. CASE close_file
  <2>1. CASE g_file = None BY <1>7, <1>8, <2>1 DEF close_file
  <2>2. CASE g_file # None
    <3>1. PICK f \in File :
             /\ Written(g_file, f)
             /\ f.samples = files[g_file].samples /\ f.sub = g_diskSubHeader
             /\ f.state = "closed"
      BY <1>8, <2>2, CloseResult
    <3>2. g_diskSubHeader = Report(f.samples) BY <2>2, <3>1 DEF Inv, CountedInv, Counted
    <3>3. Described(f) BY <3>1, <3>2 DEF Described
    <3> QED BY <1>4, <3>1, <3>3
  <2> QED BY <2>1, <2>2
<1>9. CASE Kill
  <2>1. CASE g_file = None BY <1>7, <1>9, <2>1 DEF Kill
  <2>2. CASE g_file # None
    <3>1. PICK f \in File :
             /\ Written(g_file, f) /\ f.state = "killed"
             /\ csv => f.samples = files[g_file].samples /\ f.sub = files[g_file].sub
      BY <1>9, <2>2, KillResult
    <3>2. csv => files[g_file].sub = Report(files[g_file].samples)
      BY <2>2 DEF Inv, CountedInv, Counted
    <3>3. Described(f) BY <3>1, <3>2 DEF Described, Between
    <3> QED BY <1>4, <3>1, <3>3
  <2> QED BY <2>1, <2>2
<1> QED BY <1>5, <1>6, <1>7, <1>8, <1>9, Steps

(* A step that writes a file keeps what the converter has of it.           *)
LEMMA ConvKept ==
  ASSUME Inv, UNCHANGED <<conv, csv>>, NEW i, NEW f \in File, Written(i, f),
         i \in DOMAIN files =>
           /\ files[i].state = "open" /\ f.run = files[i].run
           /\ \A j \in DOMAIN f.samples :
                j \in DOMAIN files[i].samples => f.samples[j] = files[i].samples[j],
         conv.pc \in {"rows", "done"} /\ conv.file = i =>
           f.front >= 2 /\ Len(conv.rows) <= Len(f.samples)
  PROVE  ConvOK'
<1> SUFFICES ASSUME conv.pc # "idle" PROVE ConvOK'
  BY DEF ConvOK
<1>1. ConvOK BY DEF Inv
<1>2. conv \in Conversion /\ ~csv /\ conv.file \in DOMAIN files BY <1>1 DEF ConvOK
<1>3. conv.file \in DOMAIN files' BY <1>2 DEF Written
<1>4. CASE conv.file # i
  <2>1. Source' = Source BY <1>2, <1>4 DEF Source, Written
  <2> QED BY <1>1, <1>3, <2>1 DEF ConvOK
<1>5. CASE conv.file = i
  <2>1. Source' = f /\ Source = files[i] BY <1>5 DEF Source, Written
  <2>2. conv.found = "open" BY <1>1, <1>2, <1>5, <2>1 DEF ConvOK
  <2>3. Source.samples \in Seq(Samples) /\ f.samples \in Seq(Samples)
    <3>1. files \in Seq(File) BY DEF Inv, FilesTypeOK
    <3>2. files[i] \in File BY <1>2, <1>5, <3>1
    <3> QED BY <2>1, <3>2 DEF File
  <2>4. conv.rows \in Seq(Samples) BY <1>2 DEF Conversion
  <2>5. ASSUME conv.pc \in {"rows", "done"}
        PROVE  /\ conv.run = f.run /\ Len(conv.rows) <= Len(f.samples)
               /\ Len(conv.rows) + 2 <= conv.seen /\ f.front >= 2
               /\ \A j \in DOMAIN conv.rows : conv.rows[j] = f.samples[j]
    <3>1. /\ conv.run = Source.run /\ Len(conv.rows) <= Len(Source.samples)
          /\ Len(conv.rows) + 2 <= conv.seen
          /\ \A j \in DOMAIN conv.rows : conv.rows[j] = Source.samples[j]
      BY <1>1, <2>5 DEF ConvOK
    <3>2. f.front >= 2 /\ Len(conv.rows) <= Len(f.samples) BY <1>5, <2>5
    <3>3. \A j \in DOMAIN conv.rows : j \in DOMAIN f.samples /\ j \in DOMAIN Source.samples
      BY <2>3, <2>4, <3>1, <3>2
    <3> QED BY <1>2, <1>5, <2>1, <3>1, <3>2, <3>3
  <2>6. /\ conv.pc \in {"headers", "tables"} => conv.rows = <<>>
        /\ conv.pc = "headers" => conv.sub = Empty
    BY <1>1 DEF ConvOK
  <2> QED BY <1>2, <1>3, <2>1, <2>2, <2>5, <2>6 DEF ConvOK
<1> QED BY <1>4, <1>5

(* What the converter can read of its source.                              *)
LEMMA ReadableIs ==
  ASSUME Inv, conv.pc # "idle", NEW n \in Readable
  PROVE  /\ conv \in Conversion /\ Source \in File /\ FileOK(conv.file, Source)
         /\ Source.sub \in Headers
         /\ n \in Nat
         /\ Source.front < 2 => n < 2
         /\ Source.front >= 2 => n <= 2 + Len(Source.samples)
         /\ Source.state = "open" => n >= conv.seen
         /\ Source.state # "open" /\ Source.front >= 2 => n = 2 + Len(Source.samples)
<1>1. ConvOK BY DEF Inv
<1>2. conv \in Conversion /\ ~csv /\ conv.file \in DOMAIN files BY <1>1 DEF ConvOK
<1>3. Source \in File BY <1>2 DEF Source, Inv, FilesTypeOK
<1>4. FileOK(conv.file, Source) BY <1>2 DEF Source, Inv, AllFilesOK
<1>5. Source.sub \in Headers BY <1>2, <1>4, HeaderRecord DEF FileOK
<1>6. Source.samples \in Seq(Samples) /\ Source.front \in Nat BY <1>3 DEF File
<1>7. Len(Source.samples) \in Nat BY <1>6
<1>8. conv.seen \in Nat BY <1>2 DEF Conversion
<1>9. CASE Source.state = "open"
  <2>1. n \in conv.seen .. Units(Source) BY <1>9 DEF Readable
  <2>2. Source.front = 2 BY <1>4, <1>9 DEF FileOK
  <2> QED BY <1>2, <1>3, <1>4, <1>5, <1>7, <1>8, <1>9, <2>1, <2>2 DEF Units
<1>10. CASE Source.state # "open"
  <2>1. n = Units(Source) BY <1>10 DEF Readable
  <2> QED BY <1>2, <1>3, <1>4, <1>5, <1>6, <1>7, <1>10, <2>1 DEF Units
<1> QED BY <1>9, <1>10

(* EXCEPT on the record of the converter.                                  *)
LEMMA ConvAt ==
  ASSUME NEW c \in Conversion, NEW p, NEW n
  PROVE  [c EXCEPT !.pc = p, !.seen = n] =
           [pc |-> p, file |-> c.file, seen |-> n, found |-> c.found,
            sub |-> c.sub, run |-> c.run, rows |-> c.rows]
<1> DEFINE d == [pc |-> p, file |-> c.file, seen |-> c.seen, found |-> c.found,
                 sub |-> c.sub, run |-> c.run, rows |-> c.rows]
<1>1. [c EXCEPT !.pc = p] = d BY DEF Conversion
<1>2. [c EXCEPT !.pc = p, !.seen = n] = [d EXCEPT !.seen = n] BY <1>1
<1> QED BY <1>2

LEMMA ConvDone ==
  ASSUME NEW c \in Conversion, NEW p, NEW n
  PROVE  [c EXCEPT !.seen = n, !.pc = p] =
           [pc |-> p, file |-> c.file, seen |-> n, found |-> c.found,
            sub |-> c.sub, run |-> c.run, rows |-> c.rows]
<1> DEFINE d == [pc |-> c.pc, file |-> c.file, seen |-> n, found |-> c.found,
                 sub |-> c.sub, run |-> c.run, rows |-> c.rows]
<1>1. [c EXCEPT !.seen = n] = d BY DEF Conversion
<1>2. [c EXCEPT !.seen = n, !.pc = p] = [d EXCEPT !.pc = p] BY <1>1
<1> QED BY <1>2

LEMMA ConvRow ==
  ASSUME NEW c \in Conversion, NEW n, NEW w
  PROVE  [c EXCEPT !.seen = n, !.rows = w] =
           [pc |-> c.pc, file |-> c.file, seen |-> n, found |-> c.found,
            sub |-> c.sub, run |-> c.run, rows |-> w]
<1> DEFINE d == [pc |-> c.pc, file |-> c.file, seen |-> n, found |-> c.found,
                 sub |-> c.sub, run |-> c.run, rows |-> c.rows]
<1>1. [c EXCEPT !.seen = n] = d BY DEF Conversion
<1>2. [c EXCEPT !.seen = n, !.rows = w] = [d EXCEPT !.rows = w] BY <1>1
<1> QED BY <1>2

LEMMA ConvSub ==
  ASSUME NEW c \in Conversion, NEW p, NEW n, NEW h
  PROVE  [c EXCEPT !.pc = p, !.seen = n, !.sub = h] =
           [pc |-> p, file |-> c.file, seen |-> n, found |-> c.found,
            sub |-> h, run |-> c.run, rows |-> c.rows]
<1> DEFINE d == [pc |-> p, file |-> c.file, seen |-> n, found |-> c.found,
                 sub |-> c.sub, run |-> c.run, rows |-> c.rows]
<1>1. [c EXCEPT !.pc = p, !.seen = n] = d BY ConvAt
<1>2. [c EXCEPT !.pc = p, !.seen = n, !.sub = h] = [[c EXCEPT !.pc = p, !.seen = n] EXCEPT !.sub = h]
  OBVIOUS
<1>3. [d EXCEPT !.sub = h] =
        [pc |-> p, file |-> c.file, seen |-> n, found |-> c.found,
         sub |-> h, run |-> c.run, rows |-> c.rows]
  OBVIOUS
<1> QED BY <1>1, <1>2, <1>3, Zenon

LEMMA ConvRun ==
  ASSUME NEW c \in Conversion, NEW p, NEW r, NEW n
  PROVE  [[c EXCEPT !.pc = p, !.run = r] EXCEPT !.seen = n] =
           [pc |-> p, file |-> c.file, seen |-> n, found |-> c.found,
            sub |-> c.sub, run |-> r, rows |-> c.rows]
<1> DEFINE d == [pc |-> p, file |-> c.file, seen |-> c.seen, found |-> c.found,
                 sub |-> c.sub, run |-> c.run, rows |-> c.rows]
           e == [pc |-> p, file |-> c.file, seen |-> c.seen, found |-> c.found,
                 sub |-> c.sub, run |-> r, rows |-> c.rows]
<1>1. [c EXCEPT !.pc = p] = d BY DEF Conversion
<1>2. [c EXCEPT !.pc = p, !.run = r] = [d EXCEPT !.run = r] BY <1>1
<1>3. [d EXCEPT !.run = r] = e OBVIOUS
<1>4. [c EXCEPT !.pc = p, !.run = r] = e BY <1>2, <1>3
<1>5. [e EXCEPT !.seen = n] =
        [pc |-> p, file |-> c.file, seen |-> n, found |-> c.found,
         sub |-> c.sub, run |-> r, rows |-> c.rows]
  OBVIOUS
<1> QED BY <1>4, <1>5, Zenon

LEMMA ConvOpenSource == Inv /\ OpenSource => ConvOK'
<1> SUFFICES ASSUME Inv, OpenSource PROVE ConvOK'
  OBVIOUS
<1>1. PICK i \in DOMAIN files :
        conv' = [pc |-> "headers", file |-> i, seen |-> 0, found |-> files[i].state,
                 sub |-> Empty, run |-> 0, rows |-> <<>>]
  BY DEF OpenSource
<1>2. ~csv /\ UNCHANGED <<csv, files>> BY DEF OpenSource, recVars, fileVars
<1>3. i \in Nat /\ files[i] \in File BY DEF Inv, FilesTypeOK
<1>4. conv' \in Conversion
  BY <1>1, <1>3, HeaderRecord, Constants DEF Conversion, File
<1>5. Source' = files[i] BY <1>1, <1>2 DEF Source
<1> QED BY <1>1, <1>2, <1>4, <1>5 DEF ConvOK

LEMMA ConvReadHeaders == Inv /\ ReadHeaders => ConvOK'
<1> SUFFICES ASSUME Inv, ReadHeaders PROVE ConvOK'
  OBVIOUS
<1>1. conv.pc = "headers" /\ UNCHANGED <<csv, files>> BY DEF ReadHeaders, recVars, fileVars
<1>2. PICK n \in Readable :
        IF n < 1 THEN conv' = [conv EXCEPT !.pc = "failed", !.seen = n]
        ELSE conv' = [conv EXCEPT !.pc = "tables", !.seen = n, !.sub = Source.sub]
  BY DEF ReadHeaders, ReadFailed
<1>3. /\ conv \in Conversion /\ FileOK(conv.file, Source) /\ Source.sub \in Headers
      /\ n \in Nat
      /\ Source.state # "open" /\ Source.front >= 2 => n = 2 + Len(Source.samples)
      /\ Source \in File
  BY <1>1, ReadableIs
<1>4. /\ ~csv /\ conv.file \in DOMAIN files
      /\ conv.found # "open" => Source.state = conv.found
      /\ conv.rows = <<>>
  BY <1>1 DEF Inv, ConvOK
<1> DEFINE failed == [pc |-> "failed", file |-> conv.file, seen |-> n, found |-> conv.found,
                      sub |-> conv.sub, run |-> conv.run, rows |-> conv.rows]
           tables == [pc |-> "tables", file |-> conv.file, seen |-> n, found |-> conv.found,
                      sub |-> Source.sub, run |-> conv.run, rows |-> conv.rows]
<1>5. conv' = IF n < 1 THEN failed ELSE tables
  <2>1. CASE n < 1 BY <1>2, <1>3, <2>1, ConvAt
  <2>2. CASE ~(n < 1)
    <3>1. conv' = [conv EXCEPT !.pc = "tables", !.seen = n, !.sub = Source.sub] BY <1>2, <2>2
    <3>2. conv' = tables BY <1>3, <3>1, ConvSub
    <3> QED BY <2>2, <3>2
  <2> QED BY <2>1, <2>2
<1>6. conv' \in Conversion BY <1>3, <1>5 DEF Conversion
<1>7. Source' = Source BY <1>1, <1>5 DEF Source
<1>8. conv.found # "open" /\ n < 1 => conv.sub = Source.sub
  <2> SUFFICES ASSUME conv.found # "open", n < 1 PROVE conv.sub = Source.sub
    OBVIOUS
  <2>1. Source.state # "open" BY <1>4
  <2>2. Len(Source.samples) \in Nat BY <1>3 DEF File
  <2>3. Source.front # 2 BY <1>3, <2>1, <2>2
  <2>4. Source.state = "killed" BY <1>3, <2>3 DEF FileOK
  <2>5. Source.sub = Empty BY <1>3, <1>4, <2>4 DEF FileOK
  <2>6. conv.sub = Empty BY <1>1 DEF Inv, ConvOK
  <2> QED BY <2>5, <2>6
<1> QED BY <1>1, <1>4, <1>5, <1>6, <1>7, <1>8 DEF ConvOK

LEMMA ConvReadTables == Inv /\ ReadTables => ConvOK'
<1> SUFFICES ASSUME Inv, ReadTables PROVE ConvOK'
  OBVIOUS
<1>1. conv.pc = "tables" /\ UNCHANGED <<csv, files>> BY DEF ReadTables, recVars, fileVars
<1>2. PICK n \in Readable :
        IF n < 2 THEN conv' = [conv EXCEPT !.pc = "failed", !.seen = n]
        ELSE conv' = [[conv EXCEPT !.pc = "rows", !.run = Source.run] EXCEPT !.seen = n]
  BY DEF ReadTables, ReadFailed, writeCSVSessionString
<1>3. /\ conv \in Conversion /\ Source \in File /\ n \in Nat
      /\ Source.front < 2 => n < 2
  BY <1>1, ReadableIs
<1>4. /\ ~csv /\ conv.file \in DOMAIN files
      /\ conv.found # "open" => Source.state = conv.found
      /\ conv.rows = <<>>
      /\ conv.found # "open" => conv.sub = Source.sub
  BY <1>1 DEF Inv, ConvOK
<1> DEFINE failed == [pc |-> "failed", file |-> conv.file, seen |-> n, found |-> conv.found,
                      sub |-> conv.sub, run |-> conv.run, rows |-> conv.rows]
           rows == [pc |-> "rows", file |-> conv.file, seen |-> n, found |-> conv.found,
                    sub |-> conv.sub, run |-> Source.run, rows |-> conv.rows]
<1>5. conv' = IF n < 2 THEN failed ELSE rows
  <2>1. CASE n < 2 BY <1>2, <1>3, <2>1, ConvAt
  <2>2. CASE ~(n < 2)
    <3>1. conv' = [[conv EXCEPT !.pc = "rows", !.run = Source.run] EXCEPT !.seen = n]
      BY <1>2, <2>2
    <3>2. conv' = rows BY <1>3, <3>1, ConvRun
    <3> QED BY <2>2, <3>2
  <2> QED BY <2>1, <2>2
<1>6. Source.run \in 0..MaxRuns /\ Source.front \in Nat /\ Source.samples \in Seq(Samples)
  BY <1>3, Constants DEF File
<1>7. conv' \in Conversion BY <1>3, <1>5, <1>6 DEF Conversion
<1>8. Source' = Source BY <1>1, <1>5 DEF Source
<1>9. n >= 2 => Source.front >= 2 BY <1>3, <1>6
<1>10. /\ Len(conv.rows) = 0 /\ DOMAIN conv.rows = {} /\ Len(Source.samples) \in Nat
  BY <1>4, <1>6
<1>11. CASE n < 2 BY <1>1, <1>4, <1>5, <1>7, <1>8, <1>11 DEF ConvOK
<1>12. CASE ~(n < 2)
  <2>1. conv' = rows BY <1>5, <1>12
  <2>2. /\ conv'.pc = "rows" /\ conv'.file = conv.file /\ conv'.seen = n
        /\ conv'.found = conv.found /\ conv'.sub = conv.sub /\ conv'.run = Source.run
        /\ conv'.rows = conv.rows
    BY <2>1
  <2>3. n >= 2 BY <1>3, <1>12
  <2> QED BY <1>1, <1>3, <1>4, <1>7, <1>8, <1>9, <1>10, <2>2, <2>3 DEF ConvOK
<1> QED BY <1>11, <1>12

LEMMA ConvReadRow == Inv /\ ReadRow => ConvOK'
<1> SUFFICES ASSUME Inv, ReadRow PROVE ConvOK'
  OBVIOUS
<1>1. conv.pc = "rows" /\ UNCHANGED <<csv, files>> BY DEF ReadRow, recVars, fileVars
<1> DEFINE next == Len(conv.rows) + 1
           more == Append(conv.rows, Source.samples[next])
<1>2. PICK n \in Readable :
        conv' = IF n >= 2 + next THEN [conv EXCEPT !.seen = n, !.rows = more]
                                ELSE [conv EXCEPT !.seen = n, !.pc = "done"]
  BY DEF ReadRow
<1>3. /\ conv \in Conversion /\ Source \in File /\ n \in Nat
      /\ Source.front >= 2 => n <= 2 + Len(Source.samples)
      /\ Source.state = "open" => n >= conv.seen
      /\ Source.state # "open" /\ Source.front >= 2 => n = 2 + Len(Source.samples)
  BY <1>1, ReadableIs
<1>4. /\ ~csv /\ conv.file \in DOMAIN files
      /\ conv.found # "open" => Source.state = conv.found
      /\ conv.run = Source.run
      /\ Len(conv.rows) <= Len(Source.samples) /\ Len(conv.rows) + 2 <= conv.seen
      /\ \A j \in DOMAIN conv.rows : conv.rows[j] = Source.samples[j]
      /\ Source.front >= 2
      /\ conv.found # "open" => conv.sub = Source.sub
  BY <1>1 DEF Inv, ConvOK
<1>5. /\ Source.samples \in Seq(Samples) /\ conv.rows \in Seq(Samples) /\ conv.seen \in Nat
      /\ Len(conv.rows) \in Nat /\ Len(Source.samples) \in Nat
  BY <1>3 DEF File, Conversion
<1> DEFINE row == [pc |-> conv.pc, file |-> conv.file, seen |-> n, found |-> conv.found,
                   sub |-> conv.sub, run |-> conv.run, rows |-> more]
           done == [pc |-> "done", file |-> conv.file, seen |-> n, found |-> conv.found,
                    sub |-> conv.sub, run |-> conv.run, rows |-> conv.rows]
<1>6. conv' = IF n >= 2 + next THEN row ELSE done BY <1>2, <1>3, ConvRow, ConvDone
<1>7. CASE n >= 2 + next
  <2>1. next \in DOMAIN Source.samples BY <1>3, <1>4, <1>5, <1>7
  <2>2. /\ more \in Seq(Samples) /\ Len(more) = next
        /\ \A j \in DOMAIN more : more[j] = Source.samples[j]
    <3>1. Source.samples[next] \in Samples BY <1>5, <2>1
    <3>2. \A j \in DOMAIN more : j = next \/ j \in DOMAIN conv.rows BY <1>5
    <3>3. more[next] = Source.samples[next] /\ \A j \in DOMAIN conv.rows : more[j] = conv.rows[j]
      BY <1>5
    <3> QED BY <1>4, <1>5, <3>1, <3>2, <3>3
  <2>3. next <= Len(Source.samples) /\ next + 2 <= n BY <1>3, <1>4, <1>5, <1>7
  <2> HIDE DEF more, next
  <2>4. conv' = row BY <1>6, <1>7
  <2>5. /\ conv'.pc = "rows" /\ conv'.file = conv.file /\ conv'.seen = n
        /\ conv'.found = conv.found /\ conv'.sub = conv.sub /\ conv'.run = conv.run
        /\ conv'.rows = more
    BY <1>1, <2>4
  <2>6. conv' \in Conversion BY <1>3, <2>2, <2>4 DEF Conversion
  <2>7. Source' = Source BY <1>1, <2>5 DEF Source
  <2> QED BY <1>1, <1>4, <2>2, <2>3, <2>5, <2>6, <2>7 DEF ConvOK
<1>8. CASE ~(n >= 2 + next)
  <2>1. n < 3 + Len(conv.rows) BY <1>3, <1>5, <1>8
  <2>2. Len(conv.rows) + 2 <= n BY <1>3, <1>4, <1>5
  <2>3. conv.found # "open" => Len(conv.rows) = Len(Source.samples)
    <3> SUFFICES ASSUME conv.found # "open" PROVE Len(conv.rows) = Len(Source.samples)
      OBVIOUS
    <3>1. n = 2 + Len(Source.samples) BY <1>3, <1>4
    <3> QED BY <1>4, <1>5, <2>1, <3>1
  <2>4. conv' = done BY <1>6, <1>8
  <2>5. /\ conv'.pc = "done" /\ conv'.file = conv.file /\ conv'.seen = n
        /\ conv'.found = conv.found /\ conv'.sub = conv.sub /\ conv'.run = conv.run
        /\ conv'.rows = conv.rows
    BY <2>4
  <2>6. conv' \in Conversion BY <1>3, <2>4 DEF Conversion
  <2>7. Source' = Source BY <1>1, <2>5 DEF Source
  <2> QED BY <1>1, <1>4, <2>2, <2>3, <2>5, <2>6, <2>7 DEF ConvOK
<1> QED BY <1>7, <1>8

LEMMA ConvStep == Inv /\ [Next]_vars => ConvOK'
<1> SUFFICES ASSUME Inv, [Next]_vars PROVE ConvOK'
  OBVIOUS
<1>1. csv' = csv BY Steps
<1>2. CASE Converter
  BY <1>2, ConvOpenSource, ConvReadHeaders, ConvReadTables, ConvReadRow DEF Converter
<1>3. conv' = conv \/ Converter
  BY DEF Next, Recorder, Connect, Disconnect, Record, initData, LeftCar, EndSession, Quit,
         Kill, KillInRecord, Restart, vars
<1>4. CASE conv' = conv /\ UNCHANGED <<files, g_file>>
  <2>1. Source' = Source BY <1>4 DEF Source
  <2> QED BY <1>1, <1>4, <2>1 DEF Inv, ConvOK
<1>5. ConvOK BY DEF Inv
<1>6. CASE conv' = conv /\ Record
  <2>1. PICK x \in Samples, f \in File :
           /\ Written(Target, f)
           /\ f.samples = Append(Base.samples, x)
           /\ f.front = 2 /\ f.run = run
    BY <1>6, RecordResult
  <2>2. PICK i : i = Target OBVIOUS
  <2>3. Base \in File BY <1>6, BaseIs DEF Record
  <2>4. /\ Base.samples \in Seq(Samples)
        /\ Len(f.samples) = Len(Base.samples) + 1
        /\ \A j \in DOMAIN Base.samples : f.samples[j] = Base.samples[j]
    BY <2>1, <2>3 DEF File
  <2>5. i \in DOMAIN files => g_file # None /\ i = g_file /\ Base = files[i]
    BY <2>2, NoneIsNoFile DEF Target, Base
  <2>6. i \in DOMAIN files =>
          /\ files[i].state = "open" /\ f.run = files[i].run
          /\ \A j \in DOMAIN f.samples :
               j \in DOMAIN files[i].samples => f.samples[j] = files[i].samples[j]
    BY <2>1, <2>4, <2>5, NoneIsNoFile DEF FileOK, Inv, OpenInv
  <2>7. conv.pc \in {"rows", "done"} /\ conv.file = i => Len(conv.rows) <= Len(f.samples)
    <3> SUFFICES ASSUME conv.pc \in {"rows", "done"}, conv.file = i
                 PROVE  Len(conv.rows) <= Len(f.samples)
      OBVIOUS
    <3>1. /\ conv.file \in DOMAIN files /\ Len(conv.rows) <= Len(Source.samples)
          /\ conv \in Conversion
      BY <1>5 DEF ConvOK
    <3>2. Source = Base BY <2>5, <3>1 DEF Source
    <3>3. Len(conv.rows) \in Nat BY <3>1 DEF Conversion
    <3>4. Len(Base.samples) \in Nat BY <2>4
    <3> QED BY <2>4, <3>1, <3>2, <3>3, <3>4
  <2>8. f.front >= 2 BY <2>1
  <2>9. Written(i, f) BY <2>1, <2>2
  <2> QED BY <1>1, <1>6, <2>6, <2>7, <2>8, <2>9, ConvKept
<1>7. CASE KillInRecord
  <2>1. conv.pc = "idle" /\ conv' = conv BY <1>5, <1>7 DEF KillInRecord, ConvOK
  <2> QED BY <2>1 DEF ConvOK
<1>8. CASE conv' = conv /\ close_file
  <2>1. CASE g_file = None
    <3>1. UNCHANGED <<files, g_file>> BY <1>8, <2>1 DEF close_file
    <3> QED BY <1>4, <1>8, <3>1
  <2>2. CASE g_file # None
    <3>1. PICK f \in File :
             /\ Written(g_file, f)
             /\ f.samples = files[g_file].samples
             /\ f.front = 2 /\ f.run = run
      BY <1>8, <2>2, CloseResult
    <3>2. /\ files[g_file].state = "open" /\ f.run = files[g_file].run
          /\ \A j \in DOMAIN f.samples : f.samples[j] = files[g_file].samples[j]
      BY <2>2, <3>1, NoneIsNoFile DEF FileOK, Inv, OpenInv
    <3>3. conv.pc \in {"rows", "done"} /\ conv.file = g_file =>
            f.front >= 2 /\ Len(conv.rows) <= Len(f.samples)
      BY <1>5, <3>1 DEF ConvOK, Source
    <3>4. PICK i : i = g_file OBVIOUS
    <3> QED BY <1>1, <1>8, <3>1, <3>2, <3>3, <3>4, ConvKept
  <2> QED BY <2>1, <2>2
<1>9. CASE Kill
  <2>1. conv' = conv BY <1>9 DEF Kill
  <2>2. CASE g_file = None
    <3>1. UNCHANGED <<files, g_file>> BY <1>9, <2>2 DEF Kill, Killed
    <3> QED BY <1>4, <2>1, <3>1
  <2>3. CASE g_file # None
    <3>1. PICK f \in File :
             /\ Written(g_file, f) /\ f.run = run
             /\ \A j \in DOMAIN f.samples :
                  j \in DOMAIN files[g_file].samples /\ f.samples[j] = files[g_file].samples[j]
             /\ conv.pc # "idle" /\ conv.file = g_file /\ conv.seen >= 2 =>
                  f.front = 2 /\ Len(f.samples) >= conv.seen - 2
      BY <1>9, <2>3, KillResult
    <3>2. /\ files[g_file].state = "open" /\ f.run = files[g_file].run
          /\ \A j \in DOMAIN f.samples : f.samples[j] = files[g_file].samples[j]
      BY <2>3, <3>1, NoneIsNoFile DEF FileOK, Inv, OpenInv
    <3>3. conv.pc \in {"rows", "done"} /\ conv.file = g_file =>
            f.front >= 2 /\ Len(conv.rows) <= Len(f.samples)
      <4> SUFFICES ASSUME conv.pc \in {"rows", "done"}, conv.file = g_file
                   PROVE  f.front >= 2 /\ Len(conv.rows) <= Len(f.samples)
        OBVIOUS
      <4>1. conv \in Conversion /\ Len(conv.rows) + 2 <= conv.seen BY <1>5 DEF ConvOK
      <4>2. Len(conv.rows) \in Nat /\ conv.seen \in Nat BY <4>1 DEF Conversion
      <4>3. Len(f.samples) \in Nat BY DEF File
      <4>4. conv.seen >= 2 BY <4>1, <4>2
      <4> QED BY <3>1, <4>1, <4>2, <4>3, <4>4
    <3>4. PICK i : i = g_file OBVIOUS
    <3> QED BY <1>1, <2>1, <3>1, <3>2, <3>3, <3>4, ConvKept
  <2> QED BY <2>2, <2>3
<1> QED BY <1>2, <1>3, <1>4, <1>6, <1>7, <1>8, <1>9, Steps

LEMMA Initially == Init => Inv
<1> SUFFICES ASSUME Init PROVE Inv
  OBVIOUS
<1> USE DEF Init
<1>1. isConnected \in BOOLEAN /\ alive \in BOOLEAN OBVIOUS
<1>2. csv \in BOOLEAN OBVIOUS
<1>3. g_diskSubHeader \in Headers BY HeaderRecord
<1>4. LoopTypeOK BY <1>1, <1>2, <1>3, Constants DEF LoopTypeOK
<1>5. DOMAIN files = {} /\ files \in Seq(File) OBVIOUS
<1>6. FilesTypeOK /\ AllFilesOK /\ FilesDescribed
  BY <1>5 DEF FilesTypeOK, AllFilesOK, FilesDescribed
<1>7. OpenInv /\ CountedInv BY DEF OpenInv, CountedInv
<1>8. ConvOK BY DEF ConvOK
<1> QED BY <1>4, <1>6, <1>7, <1>8 DEF Inv

-----------------------------------------------------------------------------
(* Inv holds of the recorder and the converter at every moment.            *)
THEOREM Invariance == Spec => []Inv
<1>1. Init => Inv BY Initially
<1>2. Inv /\ [Next]_vars => Inv'
  BY LoopTypeStep, FilesStep, OpenStep, CountedStep, DescribedStep, ConvStep DEF Inv
<1> QED BY <1>1, <1>2, PTL DEF Spec

(* Every variable has its type, a file that is open or closed holds a      *)
(* sample below a whole front, and the file that the recorder writes is    *)
(* the only one that is open.                                              *)
THEOREM TypeCorrect == Spec => []TypeOK
<1>1. Inv => TypeOK
  <2> SUFFICES ASSUME Inv PROVE TypeOK
    OBVIOUS
  <2>1. LoopTypeOK /\ FilesTypeOK BY DEF Inv
  <2>2. ASSUME NEW i \in DOMAIN files
        PROVE  LET f == files[i] IN
               /\ f.state \in {"open", "closed", "killed"} /\ (f.state = "open") = (g_file = i)
               /\ \A j \in DOMAIN f.samples : f.samples[j] \in Samples
               /\ f.state # "killed" => f.samples # <<>> /\ f.front = 2 /\ ~f.part
               /\ csv \/ f.state = "closed" \/ f.sub = Empty
    <3> DEFINE f == files[i]
    <3>1. f \in File BY <2>1 DEF FilesTypeOK
    <3>2. FileOK(i, f) BY DEF Inv, AllFilesOK
    <3>3. f.state \in {"open", "closed", "killed"} /\ f.samples \in Seq(Samples)
      BY <3>1 DEF File
    <3>4. \A j \in DOMAIN f.samples : f.samples[j] \in Samples BY <3>3
    <3> QED BY <3>2, <3>3, <3>4 DEF FileOK
  <2>3. conv.pc # "idle" => conv.rows \in Seq(Samples) /\ conv.sub \in Headers
    BY DEF Inv, ConvOK, Conversion
  <2> QED BY <2>1, <2>2, <2>3 DEF TypeOK, LoopTypeOK, FilesTypeOK
<1> QED BY <1>1, Invariance, PTL

(* The counts at the front of a file are those of its samples, however     *)
(* the process that wrote it ended.                                        *)
THEOREM DescribedHolds == Spec => []FilesDescribed
<1>1. Inv => FilesDescribed BY DEF Inv
<1> QED BY <1>1, Invariance, PTL

(* A file never mixes two runs of the simulator or two lengths of frames.  *)
THEOREM OneRunHolds == Spec => []OneRun
<1>1. Inv => OneRun
  <2> SUFFICES ASSUME Inv PROVE OneRun
    OBVIOUS
  <2>1. \A i \in DOMAIN files : FileOK(i, files[i]) BY DEF Inv, AllFilesOK
  <2>2. \A i \in DOMAIN files :
          /\ \A j \in DOMAIN files[i].samples : files[i].samples[j].run = files[i].run
          /\ files[i].state = "closed" => files[i].text = files[i].run
    BY <2>1 DEF FileOK
  <2> QED BY <2>2 DEF Inv, OpenInv, OneRun
<1> QED BY <1>1, Invariance, PTL

(* The rows of a conversion are true to its source, and of a closed file   *)
(* its counts are those of all the rows.                                   *)
THEOREM ConvertedHolds == Spec => []Converted
<1>1. Inv => Converted
  <2> SUFFICES ASSUME Inv, conv.pc = "done" PROVE Converted
    BY DEF Converted
  <2>1. /\ conv \in Conversion /\ conv.file \in DOMAIN files /\ conv.run = Source.run
        /\ conv.found # "open" => Source.state = conv.found
        /\ Len(conv.rows) <= Len(Source.samples)
        /\ \A j \in DOMAIN conv.rows : conv.rows[j] = Source.samples[j]
        /\ conv.found # "open" => conv.sub = Source.sub
        /\ conv.found # "open" => Len(conv.rows) = Len(Source.samples)
    BY DEF Inv, ConvOK
  <2>2. Source \in File /\ FileOK(conv.file, Source)
    BY <2>1 DEF Source, Inv, FilesTypeOK, AllFilesOK
  <2>3. conv.rows \in Seq(Samples) /\ Source.samples \in Seq(Samples)
    BY <2>1, <2>2 DEF File, Conversion
  <2>4. conv.rows = SubSeq(Source.samples, 1, Len(conv.rows))
    BY <2>1, <2>3
  <2>5. \A j \in DOMAIN conv.rows : conv.rows[j].run = conv.run
    <3>1. \A j \in DOMAIN conv.rows : j \in DOMAIN Source.samples BY <2>1, <2>3
    <3> QED BY <2>1, <2>2, <3>1 DEF FileOK
  <2>6. conv.found # "open" => conv.rows = Source.samples BY <2>1, <2>3
  <2>7. conv.found = "closed" => Source.sub = Report(Source.samples)
    BY <2>1 DEF Inv, FilesDescribed, Source
  <2> QED BY <2>1, <2>4, <2>5, <2>6, <2>7 DEF Converted
<1> QED BY <1>1, Invariance, PTL
=============================================================================
