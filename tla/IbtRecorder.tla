---------------------------- MODULE IbtRecorder -----------------------------
(***************************************************************************)
(* The recorder (writetest.cpp) and the converter (readtest.cpp), which    *)
(* share nothing but the files.                                            *)
(*                                                                         *)
(* The recorder's main loop copies frames from the simulator into g_data   *)
(* and appends them to the open file.  Built with LOG_TO_CSV it writes     *)
(* text, with the number of samples, their times and laps in space         *)
(* reserved at the front, filled in again after every sample.  Otherwise   *)
(* it writes an .ibt file: those are the sub header, written when the file *)
(* is closed.  The converter makes a .csv file of an .ibt file, also of    *)
(* one that is still being written, of which it sees what was flushed, and *)
(* of one that a killed recorder left.                                     *)
(*                                                                         *)
(* A frame is its run, its length, its Lap and its SessionTime.  The front *)
(* of an .ibt file is two units, the header and sub header, and the tables *)
(* (variable headers and session text); each sample is one more.  One turn *)
(* of the recorder's loop is one step, between two of which, or in the     *)
(* middle of one that writes, the process may be killed.                   *)
(*                                                                         *)
(* Assumptions: ctrl-c, whose handler closes the file on a thread of its   *)
(* own while the main loop goes on, does not happen; fwrite succeeds; Lap  *)
(* and SessionTime are among the variables; the simulator does not start   *)
(* again before the loop, which looks every 16 ms, found it gone (the loop *)
(* writes on into the open file otherwise): with a buffer that the loop    *)
(* still holds no run starts.                                              *)
(***************************************************************************)
EXTENDS Integers, FiniteSetsExt, SequencesExt

CONSTANTS
    Layouts,     \* the values of DataHeader::bufLen
    Frames,      \* the values of Lap and SessionTime in a frame
    InCarOnly,   \* built with LOG_IN_CAR_ONLY
    MaxRuns,     \* bound: simulator runs
    MaxSamples,  \* bound: samples in a file
    MaxFiles,    \* bound: files
    None         \* no buffer, no file

ASSUME RecorderAssumption ==
    /\ 0 \notin Layouts /\ Frames \subseteq [lap : Nat, time : Nat]
    /\ InCarOnly \in BOOLEAN
    /\ MaxRuns \in Nat /\ MaxSamples \in Nat /\ MaxFiles \in Nat
    /\ None \notin Nat /\ None \notin Layouts

VARIABLES
    isConnected, run, bufLen,      \* the simulator
    files,                         \* the recordings in the directory, oldest first
    g_data,                        \* None, or the length of the buffer
    g_nData,
    g_file,                        \* None, or the index of the open file
    diskBufLen,                    \* g_diskHeader.bufLen
    g_diskSubHeader,               \* or startTime, endTime, lapCount, recordCount
    g_diskLastLap,                 \* or lastLap
    csv,                           \* built with LOG_TO_CSV
    alive,                         \* the process runs
    conv                           \* the converter

simVars == <<isConnected, run, bufLen>>
fileVars == <<files, g_file, diskBufLen, g_diskSubHeader, g_diskLastLap>>
recVars == <<g_data, g_nData, fileVars, csv, alive>>
vars == <<simVars, recVars, conv>>

Empty == [sampleCount |-> 0, startTime |-> 0, endTime |-> 0, lapCount |-> 0]
Unset == [sampleCount |-> 0, startTime |-> -1, endTime |-> -1, lapCount |-> 0]

Init ==
    /\ isConnected = FALSE /\ run = 0 /\ bufLen \in Layouts /\ files = <<>>
    /\ g_data = None /\ g_nData = 0 /\ g_file = None
    /\ diskBufLen = 0 /\ g_diskSubHeader = Empty /\ g_diskLastLap = -1
    /\ csv \in BOOLEAN /\ alive = TRUE
    /\ conv = [pc |-> "idle"]

-----------------------------------------------------------------------------
(* The simulator (external).                                               *)

Connect ==
    /\ ~isConnected /\ run < MaxRuns /\ g_data = None
    /\ isConnected' = TRUE /\ run' = run + 1 /\ bufLen' \in Layouts
    /\ UNCHANGED <<csv, g_data, g_nData, fileVars, alive, conv>>

Disconnect ==
    /\ isConnected /\ isConnected' = FALSE
    /\ UNCHANGED <<run, bufLen, recVars, conv>>

-----------------------------------------------------------------------------
(* logDataToIBT: the sub header in memory after one more frame.            *)
LogDataToIBT(sub, last, frame) ==
    LET lap == frame.lap
        time == frame.time
        first == sub.sampleCount = 0
        seen  == IF first THEN lap - 1 ELSE last
    IN  [sub  |-> [sampleCount |-> sub.sampleCount + 1,
                   startTime   |-> IF first THEN time ELSE sub.startTime,
                   endTime     |-> IF first \/ sub.endTime < time THEN time ELSE sub.endTime,
                   lapCount    |-> IF seen < lap THEN sub.lapCount + 1 ELSE sub.lapCount],
         last |-> IF seen < lap THEN lap ELSE seen]

(* logDataToCSV: the same counters, told to be unset by a time of -1.      *)
LogDataToCSV(sub, last, frame) ==
    LET lap == frame.lap
        time == frame.time
        first == sub.startTime < 0
    IN  [sub  |-> [sampleCount |-> sub.sampleCount + 1,
                   startTime   |-> IF first THEN time ELSE sub.startTime,
                   endTime     |-> IF first \/ sub.endTime < time THEN time ELSE sub.endTime,
                   lapCount    |-> IF last < lap THEN sub.lapCount + 1 ELSE sub.lapCount],
         last |-> IF last < lap THEN lap ELSE last]

(* The fronts a .csv file has while logDataToCSV fills them in, after the  *)
(* row: the times, the laps, the count.                                    *)
Filling(old, new) ==
    {old, [old EXCEPT !.startTime = new.startTime],
     [new EXCEPT !.sampleCount = old.sampleCount, !.lapCount = old.lapCount],
     [new EXCEPT !.sampleCount = old.sampleCount]}

(* logHeaderToIBT leaves zeros for the sub header, logHeaderToCSV blanks.  *)
NewFile ==
    [samples |-> <<>>, sub |-> IF csv THEN Unset ELSE Empty, front |-> 2, part |-> FALSE,
     run |-> run, text |-> 0, state |-> "open"]

(* A file whose name no file in the directory has.                         *)
openUniqueFile == Append(files, NewFile)

(* What the next frame is appended to: the open file, or a new one (when   *)
(* it does not open the frame is lost, which changes nothing).             *)
Open == [files |-> files, file |-> g_file, sub |-> g_diskSubHeader, last |-> g_diskLastLap,
         len |-> diskBufLen]

(* Mutant: only the position of the sub header is reserved.                *)
OpenedKeepingSub ==
    IF g_file # None THEN Open
    ELSE [Open EXCEPT !.files = openUniqueFile, !.file = Len(files) + 1,
                      !.sub = IF csv THEN Unset ELSE @,
                      !.last = IF csv THEN -1 ELSE @, !.len = bufLen]

Opened ==
    IF g_file # None THEN Open
    ELSE [Open EXCEPT !.files = openUniqueFile, !.file = Len(files) + 1,
                      !.sub = IF csv THEN Unset ELSE Empty,
                      !.last = IF csv THEN -1 ELSE @, !.len = bufLen]

Logged(o, frame) ==
    IF csv THEN LogDataToCSV(o.sub, o.last, frame) ELSE LogDataToIBT(o.sub, o.last, frame)

Sample(frame) == [run |-> run, len |-> bufLen, lap |-> frame.lap, time |-> frame.time]

(* The turn of the loop has a frame in a buffer that fits.                 *)
CanLog == alive /\ isConnected /\ g_data # None /\ g_nData = bufLen

(* waitForDataReady returned true for a buffer that fits: the frame is     *)
(* appended.                                                               *)
Record ==
    /\ CanLog /\ Len(Opened.files) <= MaxFiles
    /\ \E frame \in Frames :
         LET o == Opened
             r == Logged(o, frame)
             f == o.files[o.file]
         IN  /\ Len(f.samples) < MaxSamples
             /\ files' = [o.files EXCEPT ![o.file] =
                  [f EXCEPT !.samples = Append(@, Sample(frame)),
                            !.sub = IF csv THEN r.sub ELSE @]]
             /\ g_file' = o.file /\ diskBufLen' = o.len
             /\ g_diskSubHeader' = r.sub /\ g_diskLastLap' = r.last
    /\ UNCHANGED <<simVars, g_data, g_nData, csv, alive, conv>>

(* Mutant: the file is opened with the buffer.                             *)
InitDataOpening ==
    /\ alive /\ isConnected /\ (g_data = None \/ g_nData # bufLen)
    /\ g_nData' = bufLen /\ g_data' = bufLen
    /\ Len(files) < MaxFiles
    /\ files' = openUniqueFile /\ g_file' = Len(files) + 1
    /\ g_diskSubHeader' = Empty /\ diskBufLen' = bufLen
    /\ UNCHANGED <<simVars, g_diskLastLap, csv, alive, conv>>

(* initData, for the first frame or one of another length.                 *)
initData ==
    /\ alive /\ isConnected /\ (g_data = None \/ g_nData # bufLen)
    /\ g_nData' = bufLen /\ g_data' = bufLen
    /\ UNCHANGED <<simVars, fileVars, csv, alive, conv>>

(* The sub header of an .ibt file is written over the zeros.               *)
logCloseIBT(f) == IF csv THEN f ELSE [f EXCEPT !.sub = g_diskSubHeader]

(* The session text as it is now, into a file beside the recording.        *)
logStateToFile(f) == [f EXCEPT !.text = run]

close_file ==
    /\ g_file' = None
    /\ files' = IF g_file = None THEN files
                ELSE [files EXCEPT ![g_file] =
                        [logStateToFile(logCloseIBT(@)) EXCEPT !.state = "closed"]]
    /\ UNCHANGED <<diskBufLen, g_diskSubHeader, g_diskLastLap>>

end_session == close_file /\ g_data' = None

(* canLogToFile: not with the driver out of the car.                       *)
LeftCar ==
    /\ InCarOnly /\ CanLog /\ close_file
    /\ UNCHANGED <<simVars, g_data, g_nData, csv, alive, conv>>

(* Mutant: a file outlives its session.                                    *)
EndSessionKeepingFile ==
    /\ alive /\ ~isConnected /\ g_data' = None
    /\ UNCHANGED <<simVars, g_nData, fileVars, csv, alive, conv>>

(* No frame, and not connected: end_session(false).                        *)
EndSession ==
    /\ alive /\ ~isConnected /\ end_session
    /\ UNCHANGED <<simVars, g_nData, csv, alive, conv>>

(* A key was hit: end_session(true).                                       *)
Quit ==
    /\ alive /\ alive' = FALSE /\ end_session
    /\ UNCHANGED <<simVars, g_nData, csv, conv>>

-----------------------------------------------------------------------------
(* The process is killed.  Of an .ibt file what was flushed stays, at      *)
(* least what the converter has seen, at most part of a sample more than   *)
(* was whole; each seek of logDataToCSV flushes a .csv file.               *)

Units(f) == IF f.front < 2 THEN f.front ELSE 2 + Len(f.samples)

Cut(f, n) ==
    [f EXCEPT !.state = "killed", !.front = Min({n, 2}),
              !.samples = SubSeq(@, 1, n - 2)]

Left(i) ==
    LET f == files[i]
        seen == IF conv.pc # "idle" /\ conv.file = i THEN conv.seen ELSE 0
    IN  IF csv THEN {[f EXCEPT !.state = "killed"]}
        ELSE {[Cut(f, n) EXCEPT !.part = p] : n \in seen .. Units(f), p \in BOOLEAN}

Killed == alive' = FALSE /\ g_file' = None /\ g_data' = None

Kill ==
    /\ alive /\ Killed
    /\ IF g_file = None THEN UNCHANGED files
       ELSE \E f \in Left(g_file) : files' = [files EXCEPT ![g_file] = f]
    /\ UNCHANGED <<simVars, g_nData, diskBufLen, g_diskSubHeader, g_diskLastLap, csv, conv>>

(* In the middle of Record, for a .csv file (an .ibt file that is killed   *)
(* then is one that Kill leaves): the row is there, the front not yet.     *)
KillInRecord ==
    /\ csv /\ CanLog /\ Killed /\ Len(Opened.files) <= MaxFiles
    /\ \E frame \in Frames :
         LET o == Opened
             f == o.files[o.file]
         IN  /\ Len(f.samples) < MaxSamples
             /\ \E sub \in Filling(o.sub, Logged(o, frame).sub) :
                  files' = [o.files EXCEPT ![o.file] =
                    [f EXCEPT !.samples = Append(@, Sample(frame)), !.sub = sub,
                              !.state = "killed"]]
    /\ UNCHANGED <<simVars, g_nData, diskBufLen, g_diskSubHeader, g_diskLastLap, csv, conv>>

(* The program is started again.                                           *)
Restart ==
    /\ ~alive /\ alive' = TRUE
    /\ g_nData' = 0 /\ diskBufLen' = 0 /\ g_diskSubHeader' = Empty /\ g_diskLastLap' = -1
    /\ UNCHANGED <<simVars, files, g_data, g_file, csv, conv>>

-----------------------------------------------------------------------------
(* The converter.                                                          *)

Source == files[conv.file]

(* How far the source is readable: an open file as far as it was flushed.  *)
Readable ==
    IF Source.state = "open" THEN conv.seen .. Units(Source) ELSE {Units(Source)}

(* fopen of an .ibt file.                                                  *)
OpenSource ==
    /\ conv.pc = "idle" /\ ~csv
    /\ \E i \in DOMAIN files :
         conv' = [pc |-> "headers", file |-> i, seen |-> 0, found |-> files[i].state,
                  sub |-> Empty, run |-> 0, rows |-> <<>>]
    /\ UNCHANGED <<simVars, recVars>>

(* A read that comes out short: the converter ends without an output.      *)
ReadFailed(n) == conv' = [conv EXCEPT !.pc = "failed", !.seen = n]

ReadHeaders ==
    /\ conv.pc = "headers"
    /\ \E n \in Readable :
         IF n < 1 THEN ReadFailed(n)
         ELSE conv' = [conv EXCEPT !.pc = "tables", !.seen = n, !.sub = Source.sub]
    /\ UNCHANGED <<simVars, recVars>>

(* The front of the output: the session text, the counts of the sub        *)
(* header.                                                                 *)
writeCSVSessionString == [conv EXCEPT !.pc = "rows", !.run = Source.run]

(* The session text and the variable headers are read, the output begins.  *)
ReadTables ==
    /\ conv.pc = "tables"
    /\ \E n \in Readable :
         IF n < 2 THEN ReadFailed(n)
         ELSE conv' = [writeCSVSessionString EXCEPT !.seen = n]
    /\ UNCHANGED <<simVars, recVars>>

(* Mutant: as many rows as the sub header counts.                          *)
ReadRowCounted ==
    /\ conv.pc = "rows"
    /\ \E n \in Readable :
         LET next == Len(conv.rows) + 1
         IN  conv' = IF next <= conv.sub.sampleCount /\ n >= 2 + next
                       THEN [conv EXCEPT !.seen = n, !.rows = Append(@, Source.samples[next])]
                       ELSE [conv EXCEPT !.seen = n, !.pc = "done"]
    /\ UNCHANGED <<simVars, recVars>>

(* Samples are read until one is not there whole.                          *)
ReadRow ==
    /\ conv.pc = "rows"
    /\ \E n \in Readable :
         LET next == Len(conv.rows) + 1
         IN  conv' = IF n >= 2 + next
                       THEN [conv EXCEPT !.seen = n, !.rows = Append(@, Source.samples[next])]
                       ELSE [conv EXCEPT !.seen = n, !.pc = "done"]
    /\ UNCHANGED <<simVars, recVars>>

-----------------------------------------------------------------------------
Recorder == Record \/ initData \/ LeftCar \/ EndSession \/ Quit \/ Kill \/ KillInRecord \/ Restart

Converter == OpenSource \/ ReadHeaders \/ ReadTables \/ ReadRow

Next == Connect \/ Disconnect \/ Recorder \/ Converter

Spec == Init /\ [][Next]_vars
-----------------------------------------------------------------------------
Headers ==
    [sampleCount : Nat, startTime : Nat, endTime : Nat, lapCount : Nat] \cup {Empty, Unset}
Samples == [run : 1..MaxRuns, len : Layouts, lap : Nat, time : Nat]

(* Types.  A file that is open or closed holds a sample; an .ibt file has  *)
(* the sub header of zeros unless it was closed.                           *)
TypeOK ==
    /\ isConnected \in BOOLEAN /\ csv \in BOOLEAN /\ alive \in BOOLEAN
    /\ run \in 0..MaxRuns /\ bufLen \in Layouts
    /\ g_data \in Layouts \cup {None} /\ g_nData \in Layouts \cup {0}
    /\ diskBufLen \in Layouts \cup {0} /\ g_diskSubHeader \in Headers
    /\ g_diskLastLap \in Nat \cup {-1}
    /\ g_file \in DOMAIN files \cup {None}
    /\ \A i \in DOMAIN files :
         LET f == files[i] IN
         /\ f.state \in {"open", "closed", "killed"} /\ (f.state = "open") = (g_file = i)
         /\ \A j \in DOMAIN f.samples : f.samples[j] \in Samples
         /\ f.state # "killed" => f.samples # <<>> /\ f.front = 2 /\ ~f.part
         /\ csv \/ f.state = "closed" \/ f.sub = Empty
    /\ conv.pc # "idle" => conv.rows \in Seq(Samples) /\ conv.sub \in Headers

(* Two separate ways to the sub header: the samples, looked at all         *)
(* together, with the laps begun and the extreme times.                    *)
Report(samples) ==
    IF samples = <<>> THEN Unset
    ELSE [sampleCount |-> Len(samples), startTime |-> samples[1].time,
          endTime |-> Max({samples[i].time : i \in DOMAIN samples}),
          lapCount |-> Cardinality({i \in DOMAIN samples :
                         \A j \in 1..(i - 1) : samples[j].lap < samples[i].lap})]

(* The sub header of an .ibt file that was closed describes the samples in *)
(* that file and in no other: DiskClient plays sampleCount samples of it.  *)
(* The front of a .csv file does at any time; when the process is killed   *)
(* over a row, each of its entries is that with or that without the row.   *)
FilesDescribed ==
    \A i \in DOMAIN files :
      LET f == files[i] IN
      /\ f.state = "closed" \/ (csv /\ f.state = "open") => f.sub = Report(f.samples)
      /\ csv /\ f.state = "killed" =>
           \A k \in DOMAIN Empty :
             f.sub[k] \in {Report(f.samples)[k], Report(Front(f.samples))[k]}

(* A file holds samples of one run of the simulator only: that of the      *)
(* session text and the variable headers at its front, and of the text     *)
(* left beside it.  What fwrite takes for a sample is as long as the       *)
(* frame.                                                                  *)
OneRun ==
    /\ \A i \in DOMAIN files :
         /\ \A j \in DOMAIN files[i].samples : files[i].samples[j].run = files[i].run
         /\ files[i].state = "closed" => files[i].text = files[i].run
    /\ g_file # None =>
         \A j \in DOMAIN files[g_file].samples : files[g_file].samples[j].len = diskBufLen

(* What the converter puts out, whatever the recorder does meanwhile: rows *)
(* are samples of the file from its first on, of the run of its session    *)
(* text.  Of a file that was at rest all the samples that are whole come   *)
(* out; of one that was closed, below the counts that are theirs.          *)
Converted ==
    conv.pc = "done" =>
      /\ conv.rows = SubSeq(Source.samples, 1, Len(conv.rows))
      /\ \A j \in DOMAIN conv.rows : conv.rows[j].run = conv.run
      /\ conv.found # "open" => conv.rows = Source.samples
      /\ conv.found = "closed" => conv.sub = Report(conv.rows)
=============================================================================
