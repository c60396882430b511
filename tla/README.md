# Formal models of the iRacing C++ SDK

The SDK gives C++ programs the telemetry of the iRacing simulator: live, through
shared memory that the simulator writes, or from `.ibt` recordings. This
directory holds TLA+ models of the parts that have state, the TLC
configurations that check them on small instances, and TLAPS proofs for eight
of them. `PROJECT.json` says for every definition which lines of the source it
stands for, and lists the hazards of the code with the properties that cover
them. In this file `sdk/` is `src/packages/sdk/` and `examples/` is
`src/packages/examples/`.

## The system

| Component | State it keeps | Operations | Talks to |
| --- | --- | --- | --- |
| `LiveConnection` (`sdk/src/LiveConnection.cpp`) | handles of the mapping, the view and the event; `gIsInitialized`; `gLastTickCount`; `gLastValidTime` | `initialize`, `cleanup`, `getNewData`, `waitForDataReady`, `isConnected`, `getSessionTickCount`, broadcast messages | the simulator, through shared memory and an event |
| `LiveClient` | the frame buffer `data_`, its length, the parsed session message and the count it was read at, the "changed" flag | `waitForData`, `getSessionInfo(Str)`, `wasSessionInfoUpdated`, variable lookups | `LiveConnection`; registered in `ClientManager` |
| `DiskClient` | the file and its position, `sampleIndex_`, the offset of the first valid sample, the sample buffer, session info | `openFile`, `next`, `seek`, `seekToSessionNum`, `hasNext`, `close`, `updateSessionInfo` | file helpers; registered in `ClientManager` |
| `DiskClientDataFrameProcessor` | none between runs | `run` | a `DiskClient` and the caller's callback |
| Session info overrides | the queue of texts by tick, the one taken last | `CreateForRaceRecording`, `updateSessionInfo` | part of `DiskClient` |
| `ClientManager` | the registered clients, the active id | `add`, `remove`, `setActive`, `get`, `getActive` | holders ask it, clients register |
| `VarHolder` | a name, the cached index and the client id it is for | `setVarName`, `isAvailable`, getters | `ClientManager` and the active client |
| `RunnableThread`, `FnIndefiniteThread` | `running_`, `thread_`, `mutex_` | `start`, `stop`, `join`, `isRunning` | the thread it runs |
| Lap timing program (`examples/lap_timing`) | last time and position, lap start and lap time of each car, driver table | one loop | `LiveClient` |
| Recorder (`examples/write_test`) | frame buffer, open file, headers in memory | one loop | `LiveConnection`; the files |
| Converter (`examples/read_test`) | an open file, a `.csv` file | one pass | the files, also while the recorder writes them |
| Session info model (`sdk/include/IRacingSDK/SessionInfo`) | a message | `decode`, `encode` of 33 structs | both clients and `LiveConnection` decode the session text |
| `YamlParser` | none between calls | `ParseYaml` | recorder, applications |
| `EventEmitter`, `Buffer`, file helpers, logging, string and type helpers, message test program | little or none | | |

What is hard here:

* the reader of the shared memory takes no lock against the simulator: it reads
  a tickCount, copies, and reads the tickCount again;
* the simulator dies, restarts with ticks that start over, or changes the number
  and order of its variables while the SDK keeps what it cached;
* the session text is rewritten in place while it is parsed;
* in a recording, the file position, the sample index and the buffer are moved
  separately by five operations, and files may be cut short;
* a recorder is killed in the middle of a sample, or writes while another program
  reads the file;
* one value that is missing in the session text is an exception out of a decode
  whose cache has been told already;
* a stop of a thread meets starts of the same object and the thread's own end;
* the two programs recognise a new session or connection by indirect signs.

What makes each part correct, in a sentence: a frame is delivered whole, once and
in order, and never from before a (re)connection (`LiveConnection`); buffer and
message belong to the connection that is up (`LiveClient`); buffer and index
agree, and no search passes a match over (`DiskClient`); the override in force is
the one due at the sample (overrides); a getter returns the variable it is
named for (`VarHolder`); no access to a thread object that is null or still
joinable (`RunnableThread`); a message is of one
whole text (session info); a lap time lies between the last two crossings of
this session (lap timing); the sub header of a file describes its samples
(recorder), and what is converted is what was recorded (converter).

## The modules

Each component has a module of its own. Where one component uses another, its
module takes the other by what that one was shown to do, or extends it:
`VarReads` composes `VarHolder` with `VarData`, `LapDisplay` extends `LapTiming`,
`SessionMessage` extends `SessionSchema`, and `IbtRecorder` holds two programs.
`TelemetryFeed` and `Playback` are abstract specifications that `LiveConnection`
and `DiskClient` implement. `MC*` modules instantiate a module for TLC.

**LiveConnection**: the simulator (external, from what the reader relies on)
rotates over `NumBuf` buffers, writes a frame in two halves and then stores its
tickCount; it may stop anywhere and start again, ticks starting over. In
`getNewData` every read of shared memory is a step: `CheckStatus`, one `Scan`
step per buffer, `TestNewer`, `TestOlder`/`Resync` or `TakeTick`, and `ReadTick`,
`CopyLo`, `CopyHi`, `Accept`/`Reject`, twice at most. `waitForDataReady` is a
call that after a first failure waits (`WakeUp`) and tries again. `initialize`
keeps what it opened when a later handle fails. A frame is represented by its
number, each half separately, so that a torn copy can be seen. `floor`, `got` and
`late` are history: what must never be delivered again, what was delivered last, and
whether a delivery was one for which the simulator had come round to the buffer
during the call (`~InTime`).

**TelemetryFeed**: what an application may rely on. `LiveConnection` implements
it (`FeedSpec`), with `n`, `floor`, `got` and `late` as the refinement mapping. Once
a delivery was overrun, what is handed over is left open (`Overrun`).

**LiveClient**: `waitForData` up to the wait, after it (`WakeUp`), the
reallocation and the second `getNewData` (`Reallocate`, `Refill`), the end of a
session (`NoFrameReady`) and `onNewClientData`/`updateSessionInfo`
(`CheckCount`, `Parse`), which `getSessionInfo` enters as well. `LiveConnection`
appears as `NewFrame` and `NoFrame`: a whole frame of the current run, or none,
the first poll of a (re)connection being lost to the resynchronisation. The
simulator changes the text (`UpdateText`, `FinishText`) and then the count; a
text read half-written parses or throws, and a whole one that lacks a value
without a default (`~decodes`) throws, with `first` assigned and perhaps an empty
message created (`Parse`).

**DiskClient**: a recording is its number of samples by the header, how much of
it is stored (in half samples), where the valid ticks begin and which samples a
search matches. `openFile` is the initial predicate; `next`, `seek`, `close` are
one step under `ibtFileMutex_`; `seekToSessionNum` is a step per sample;
`updateSessionInfo`, which takes no lock, moves the file to its first sample;
`DiskClientDataFrameProcessor::run` is `RunNext`, `RunTime`, `RunIndex`,
`Callback`, between which other threads may use the client unless `alone`.
`FileReadDataFully` does what `FileHelpers.cpp` does with a short read.

**Playback**: what a caller may rely on: a cursor over samples. `DiskClient`
implements it (`PlaysBack`): the cursor is `sampleIndex_`, the sample handed out
is what both halves of `varBuf_` belong to. The file position does not appear in
it; a look ahead (`next(readOnly)`) and a re-read session text put the client out
of step until the next seek, and only then, or beyond the end of a file cut
short, is the sample handed out left open.

**SessionOverrides**: `CreateForRaceRecording`'s queue from a directory of files
(`Init`: the number a name begins with, its minus dropped, and how `ReadTextFile`
ends), and `updateSessionInfo` with or without `onlyCheckOverrides`. Texts are
named by their place in the queue. `findSessionInfoFileOverride` is the loop of
the code, `Due` says what it is to find. `furthest` is history, the largest tick at
which an update was made: after a seek back the client goes on showing what holds
there, and `InForce` says so.

**SessionSchema**, **SessionMessage**: every converter of `ModelParser.h` that is
reached, as the set of its fields with a default, without one, and written but
never read; `Field` and `Decode` say what becomes of a text with some places
damaged. `SessionMessage` runs the four readers of such texts (`LiveClient`,
`DiskClient`, `LiveConnection::getSessionInfo`, an application's
`as<CarSetup>()`) through `LoadYaml`, a `DecodeSection` per section and `Assign`.
What stands when a decode fails is part of it: `LiveClient`'s message that is created
first (`Empty`), or the one of an earlier text under the new count.

**RunnableThread**: `start` in three steps (test, launch, assign, under
`mutex_`), `stop` in four (`StopClear`, `StopJoin`, `Joined`, `StopReset`), the
wrapper around `runnable()`. What the C++ library makes the end of the process
is a `fault`.

**LapTiming**: one turn of `run()` is a `Frame` or `NoFrame` and then
`monitorConnectionStatus`. A lap has a first tenth, a last tenth and a middle; a
crossing time is the pair of frames it is interpolated between. Cars leave the world
and come back anywhere. `sight`, `line` and `lineBefore` are history: where a car was seen
last and its last two crossings, by the frames that the program got in this session since
`monitorConnectionStatus` saw the connection.

**LapDisplay**: extends `LapTiming` by the screen that `updateDisplay` writes in
each frame: the flags by `IsFlagSet`, states, and the lines of the cars.

**IbtRecorder**: one turn of the recorder's main loop is a step (`Record`,
`initData`, `LeftCar`, `EndSession`, `Quit`); the process may be killed between
two (`Kill`) or in the middle of a write (`KillInRecord`), leaving any prefix of
what it wrote, and started again. `csv` tells the builds apart: a `.csv` file gets
its counters after every sample, an `.ibt` file when it is closed. The converter
(`OpenSource`, `ReadHeaders`, `ReadTables`, `ReadRow`) reads an `.ibt` file at its
own pace while the recorder goes on, closes or dies.

**VarHolder**: `VarHolder`, `ClientManager` and the opening and closing of
clients. A getter is two steps, `Get` (`isAvailable`) and `GetValue`, between
which the simulator may go. Every client may come up, and come back, with any of the
lists of variables; `renewed` is history: the client that the holder looked its index up
in has come up with another list since.

**VarData**, **VarReads**: the layout of a row (types, counts, offsets), the
conversions of the getters, and what each client's getters answer by name and by
index, for indices and entries in and out of range. A row in a buffer keeps the
list it was laid out by, which may not be the one the headers have by then.

**YamlParser**: `ParseYaml`, a step per line of the text; how characters make up a
line's depth, key and value is taken by what it does. `Selected` says, by the
structure of the text and with no scan, which line a path means.

## The runs

| Run | Instance | Question |
| --- | --- | --- |
| `reader` | 3 buffers, 4 frames, up to 3 frames published during a call | Is a frame whole unless the simulator is writing over it (`NoTornFrame`), in order and delivered once until then (`InOrder`, `FeedSpec`), and the newest there was when the scan began (`Freshest`)? Does the reader catch up (`CatchesUp`) and notice a dead simulator (`CrashNoticed`)? |
| `session` | 2 runs, buffers of 2 lengths, 3 texts per run | Are buffer and message of the current run, and long enough (`FrameOfRun`, `SessionOfRun`)? Does the last text arrive, when it can be decoded (`SessionCurrent`)? |
| `message` | every text with one thing wrong at one of 300 places, or with two structs or lists wrong that one struct holds or one of which holds the other, then a whole, broken, thinner or unloadable one; four readers | Is a message always empty or of one whole text (`MessageSays`), does a call fail exactly when something without a default is missing (`FailsOnlyOnNeeded`), and is the count kept that of the message, or what stands under it when its text fails (`CountOfMessage`)? |
| `play` | every recording of 3 samples, complete or cut short | Is the client a cursor over the samples (`PlaysBack`), no invalid one among them and the tick that of the index (`ValidOnly`)? Does a search pass nothing over (`FindsFirst`), do callbacks come in order (`RunInOrder`), do a search and a `run()` end (`LoopsEnd`)? |
| `short_read` | as `play` | violated: `NextReadsSample` |
| `overrides` | every directory of up to 3 files, ticks 0 to 3 | Is the override that is due at the furthest sample in force, before and after a seek back (`InForce`), and are text and message of one override, or which message stands under a text that fails (`TextOfMessage`)? |
| `thread` | 3 threads that start, one of them stops | `NoFault`, `RunningIsAlive`, `StopStops`, `StopReturns` |
| `laps` | 2 cars, 2 sessions, 5 frames each | Does a car have a lap time exactly when the program was shown two crossings, that between the last two (`LapsTrue`)? Is the table of this connection (`TableOfConnection`)? |
| `flags` | 1 car, 4 words of flags | violated: `FlagsShown` |
| `recorder` | 2 runs, 2 lengths, 2 files of 2 samples, .ibt and .csv, kills and restarts, a converter | Do the counters describe the file (`FilesDescribed`), is a file of one run (`OneRun`), and are the rows converted the samples recorded (`Converted`)? |
| `var_reads` | 2 names, one of an array, 2 recordings and the live client, 2 lists of variables that any client comes up and back with, 2 rows of values | Is the value read that of the variable named (`ReadsItsVariable`, `ValueOfVariable`), and does a read throw only when the connection goes (`ThrowsOnlyIfLost`), or the client is back with another list since the look-up? |
| `lookup` | 4 paths, every text of 1 or 2 sections with up to 2 plain values and a list of up to 2 entries (the second section at most 3 lines below its first) | Does `ParseYaml` return what the path selects, and nothing else; and from where at most, in texts and for paths where it does not (`FindsSelected`)? |

Every passing run but `message` and `lookup` also checks its module's `TypeOK`.

The two violated properties are sentences of the repository that the code does
not keep:

* `short_read`: `FileReadDataFully` is documented to return false when nothing was
  read (`sdk/src/Utils/FileHelpers.cpp:40,47`); it returns true, and `next`
  counts a sample that is not there.
* `flags`: `IsFlagSet` is documented to return true if the flag is set in the mask
  (`sdk/include/IRacingSDK/Types.h:251`); it computes `flag & (bitmask > 0)`, so
  the display shows the checkered flag, and no other, whenever any flag is set.

Two more were met that the models show without a run of their own:
`LiveConnection::getSessionInfo` is documented to return null when parsing fails
(`sdk/src/LiveConnection.cpp:336`) and lets the parser's exception through
(`Failed` in `SessionMessage`); `wasSessionInfoUpdated` is documented to say
whether the update count changed (`sdk/src/LiveClient.cpp:391`), and a
`getSessionInfo` between two frames takes the change away from it
(`getSessionInfo` in `LiveClient`).

### Bounds, and why they are enough

* `reader`: four frames are one more than the buffers, so every buffer is
  overwritten while it is copied; the run restarts at any of the frames. During a
  call the simulator may publish two frames, after which it is in the buffer being
  copied, or three, after which the copy is rejected. A second rejection of the same
  call needs three more frames, beyond the bound; the proofs cover it.
  `IntMax` = 9 is above every tick, as INT_MAX is. `CommTimeout` = 1: only whether
  the time-out has passed is looked at. The proofs lift these bounds.
* `session`: a property relates the current run to the one before; two lengths
  give both a grown and a shrunk buffer.
* `play`: with three samples there is a first, a last and one between; the first
  valid one may be any or none; the file may end inside any sample. The code
  treats all samples alike.
* `message`: what decoding one place does depends on the places above it, and on those
  beside it where a struct is held twice; so one damage at a time, or two that belong
  together, meet every converter; the second text meets the caches. The proof has any
  combination of damage.
* `overrides`: three files give every order, a repeated tick, and an override
  skipped between two; ticks lie before, on, between and after them.
* `laps`: two crossings need at least a lap of three positions, five frames have
  two of them; cars do not influence each other, the second one is there for the
  first element of an array that `{-1}` initialises alone.
* `recorder`: both builds, with and without `LOG_TO_CSV`; two samples are the first
  and the last of a file, with a lap that begins, goes on or goes back; two files
  are the one being read and the one being written, or the one a killed
  recorder left and its successor. The two lengths are alike (symmetry).
* `flags`: no flag, one flag, the checkered one, several.
* `var_reads`: one list has both names and the other only the second, so that an index
  kept from either is another variable, or none, in the other; the values lie on either side of 0 and 1, with and without a fraction. The ids
  of recordings are alike (symmetry).
* `lookup`: the same keys occur in both sections, in the list and beside it, and a
  path has two, three or four steps, with and without a value to pick an entry by.

Deadlock is checked except in `overrides`, where a closed client ends the
behaviour, and in `flags`, whose question is one frame.

### Fairness

* `LiveConnection`: weak fairness of the call in progress, of the application's
  polls with data, and of the clock. Nothing is assumed of the simulator.
* `LiveClient`: weak fairness of the call in progress; strong fairness of
  `waitForData`, since a `getSessionInfo` now and then makes a poll impossible for
  a while but the application polls again; weak fairness of a running
  simulator's frames (60 per second) and of a text update that began.
* `DiskClient`: weak fairness of the two loops, which never wait.
* `RunnableThread`: weak fairness of every thread that is not waiting for a lock
  or a join, and `fn_` returns, as `FnIndefiniteThread` needs to look at
  `running_` again.

### Assumptions

* `LiveConnection`: a simulator does not stop and start again within one
  `getNewData` (microseconds). How many frames it publishes during one is bounded
  for TLC (`MaxLag`); the proofs hold for any number.
* `LiveClient`: a new run starts only after a poll noticed the end of the last
  one, which is what `waitForData`'s recognition of a connection by a null
  `data_` relies on.
* `DiskClient`: nobody calls `reset()`, or `close()` during another call; the file
  holds its session text whole.
* `SessionOverrides`: file names begin with numbers of 32 bits (beyond, `std::stoi`
  throws what `CreateForRaceRecording` does not catch).
* `SessionOverrides`, `VarHolder`: one thread. `VarHolder`: the connection is not
  lost inside `isAvailable`, ids outlive the views of them, and no two open
  clients share one.
* `RunnableThread`: one thread stops and joins, and only after a `start` has
  assigned `thread_`; otherwise `stop` reads through null (line 13). The `std::thread`
  constructor does not throw; if it did (line 34), `running_` would stay true, set a
  line before, without a worker.
* `LapTiming`: no car passes a whole tenth between two frames; the connection is
  lost between frames and comes back after the program saw it gone; a new
  session's first frame has an earlier SessionTime.
* `YamlParser`: every line ends with a newline. That the answer is the selected one is said
  of paths that are `Straight` and texts that are `Tidy` for the path, as both paths
  in the repository are and session texts are for them. Outside of that the search may be
  wrong, and `FindsSelected` says only that what it finds carries the last step and is below
  or beside a line that carries the step before (`InReach`). Then a
  key that is missing in its entry or right below its section is found in the next entry
  or section; in a list within an entry (`Sessions`, `ResultsPositions`) a driver missing in
  the results of the session that was asked for is found in those of the next one; and
  the search ends early where a key that it did not choose by value is there twice
  and only the second has the rest of the path below it.
* `IbtRecorder`: no ctrl-c; `fwrite` succeeds; the loop sees the end of a run
  before the next begins.

## What is proved

The theorems hold for every value of the constants that satisfies the module's
`ASSUME`.

**LiveConnectionProofs.** The inductive invariant `Inv` consists of
* `Ring`: the rotation determines which frame each buffer's tickCount names
  (`Frame`), so the buffer at `wbuf` always holds the oldest;
* `Halves`: a buffer the simulator is not inside holds both halves of that frame;
* `CallInv`: what the scan has secured at index `i`: once it has passed the buffer
  (`mark`) that was the newest when it began, `latest` is at least as new, although
  tickCounts rise during it;
* `NewerInv`, `FloorInv`: the tick kept is below the tick chosen, and covers
  everything that must not be delivered again;
* `SeenInv`: while the tickCount read before the copy still stands and the
  simulator is not inside the buffer, the halves copied are those of its frame.

None of the properties is inductive alone: that a copy is whole needs the rotation
and what was true when each half was read. All of it holds for a simulator of any
speed: `TypeCorrect`, `FreshestHolds`, and `NoTornFrameHolds`, that an accepted frame
is a mixture only when the simulator has come round during the call and is inside
the very buffer. A delivery is in time (`InTime`) when fewer than `NumBuf - 1` frames
were published during the call; then the frame is whole and its tick the one reported
(`TickOfFrameHolds`). `InOrderHolds` and `Implements`, the refinement of
`TelemetryFeed`, speak of the time until the first delivery that was not: from then on
a frame whose tickCount the simulator had not stored yet may have been handed over
already, and comes again. `NumBuf - 1` frames in one call are really enough for that:
with three buffers and two frames TLC finds a torn frame that is accepted.

**RunnableThreadProofs.** For any number of threads that start: `IInv` adds to
the types who is inside `stop` (`Alone`), that a launch holds `mutex_` with its
worker alive (`Launching`), that a null `thread_` outside a launch means no worker
(`NoWorker`), what holds at each place of `stop` (`InStop`), and that a joined
thread has ended. From it `NeverFaults`, `RunningIsAliveHolds`, `StopStopsHolds`.

**VarHolderProofs.** For any names, ids and lists, and clients that come up and back with
any of them: `CacheTrue`, that the cached index is the index of the holder's variable in
the client with the cached id unless that client was `renewed`, and `CallTrue`, that
between the halves of a getter only the simulator moves, give `ReadsItsVariableHolds`,
`FindsItsVariableHolds` and `ThrowsOnlyIfLostHolds`. `ComesUpKeeps` is the step in which
the list changes. What the properties except is what goes wrong, and it is no more than
that: the live client's id never changes, so after a simulator came back with other
variables the holder reads another variable at the old index, answers with the default or
throws, until another client is active or `setVarName` is called. Without `renewed` TLC
finds each of the properties violated.

`ValueHolds` carries this to `VarReads`: offsets that follow each other keep the
elements of all variables apart (`OffsetsApart`, `ElementsApart`), so that only one
element begins at an address (`StoredIs`), and a getter answers with that of its
variable, whatever the types, the counts and the order, as long as the row in the buffer
is of the variables the headers have (`Current`); it needs no more of the
number of variables than that it is below the index that a missing one gives.

**LiveClientProofs.** For any lengths of frames, any number of runs and of updates.
Neither `FrameOfRun` nor `SessionOfRun` is inductive, since a call is under way when the
simulator goes. `CallInv` says how far a call is, `NoticedInv` that nothing of a run is
left once a poll noticed its end (which is what makes a later run safe), `BufferInv`
that the buffer has the length and, once filled, the frames of the run, `TextInv` where the
text is ahead of its count, `MessageInv` that the message is of this run. From these
`FrameHolds` and `SessionHolds`. `CountHolds` is the safety part of `SessionCurrent`:
while no update is under way a count that is the simulator's goes with the simulator's text,
if that can be decoded at all, so that the text that is not read again is one the client
has. A whole text that cannot leaves the earlier message, or an empty one, under its count.

**DiskClientProofs.** For recordings of any number of samples that end anywhere, with any
first valid sample. `PosInv` ties the position to the cursor while nothing came
between, `CurrentInv` the buffer to both, `ValidInv` says where playback began and
that it has not gone back and how far the tick is from the index, `FindInv` what a search has passed over, `RunInv` at
each place of `run()` which sample its variables are of. They give `ValidOnlyHolds`, `FindsFirstHolds`,
`RunInOrderHolds` and, step by step, `Implements`: the client is the cursor of
`Playback`. What `openFile` reads before it finds a valid tick is the recursive function
`ReadUpTo`; `ReadAt` says the same without going through the samples, and `ReadUpToIs` shows
the two equal.

**SessionInfoProofs**, on `SessionOverrides`. For directories of any number of files in any order. That
`InForce` holds needs `PlaceInv`: over a sorted directory the override taken is the one due
at the furthest sample, which an update moves on and a seek back does not;
`TextInv` adds that the text is of the override taken, even when it does not parse.
`FoundIs` says what the loop of `findSessionInfoFileOverride` finds, and
`FoundIsDue` that in a sorted directory this is `Due`; `TypeCorrect` includes that in any
other order it finds an entry, too.

**SessionInfoProofs**, on `SessionMessage`. For any set of texts, each with any
combination of damage: `MessageAssumption` asks of a document only that what is wrong
with it is at places the schema has, in a way possible there (`IsDocument`), and that
`NoMessage` is none of them. Structs hold one another at most four deep, and two corners of
a chassis are held by more than one struct. So `Below`, `Above` and `Decode` are not
recursions over numbers; each exists because four rounds from any table come to it
(`TableExists`), and what holds of a struct when it does of those it holds, or of those
that hold it, holds of all (`RankInduction`). On these rest
* `DecodableIs`: decoding fails exactly when one of the places that are needed is broken
  and nothing above it is damaged. Tires and corners, which more than one field holds, are
  the difficult case: a damaged tire always breaks the struct around it, a corner never
  does (`DamagedSibling`, `CornersNeverFail`);
* `DecodeSays`, `RootSays`: what is decoded has its defaults and its unset fields exactly
  where `Says` puts them; all corners are one struct, so its places show the default as
  soon as one corner does;
* `MessageIInv`: `BuiltInv`, that what is built so far is of the sections before
  `section` and of the text being loaded, `MessageInv`, that a message is the empty
  one or says what some whole text says, this one or an earlier one, and `CountInv`.

`MessageSaysHolds`, `FailuresAreNeeded` and `CountIsOfMessage` follow.

**SessionInfoProofs**, on `YamlParser`. For texts of any length and paths of any number
of steps, `FindsSelectedHolds`. The invariant `ParseIInv` says that the scan has matched the
last step at a line that the path selects, and has met nothing since then that is less
deep or carries the next step (`UnderWay`), or has ended with the right answer (`Ended`).
That the next line to carry the next step is selected (`DescendsTo`) needs `NoneBelow`:
below a line that carries a step no line has the key of that step or of an earlier one;
where the step before picked an entry, that all entries have the same keys, so that the scan
cannot have left the entry. That there is no such line when the search ends (`EndOfText`)
needs `Ahead`: while the path selects something, the next step lies ahead, and nothing less
deep before it. Each part of `Tidy` is used in one of the two. `ReachInv` needs none
of it: the line that was matched last carries its step, and nothing from there on is less deep. The function that
`Selected` defines exists by `LoopRuns` (`SelectedIs`).

**LapTimingProofs.** For any number of cars, sessions and frames, with cars that leave the
world and come back anywhere: `TableHolds`, from
`TableInv`; and `LapsHold`: the program has seen nothing since its reset (`Fresh`), or is with the
last frame and has every car's crossings right (`Tracked`), or is still behind a change of
session, which the time of the next frame will show (`SessionChanged`).

**IbtRecorderProofs.** For any frames, any number of runs, files and samples, with
kills and restarts at any point. `AllFilesOK` says what the state of a file says of it
(one file is open, it is the recorder's; an `.ibt` file has no counts until it is
closed), `OpenInv` that an open file is of this run and of the length of its frames,
`CountedInv` that the counters in memory are those of the open file's samples, `ConvOK`
that the converter has read no further than the file went. Hence `DescribedHolds`,
`OneRunHolds` and `ConvertedHolds`.

Loops and recursive functions are proved by least counterexample: a nonempty set of
naturals has a least element (`Least`, from the library's `WFMin`), and the function
that the loop defines exists, because it does up to each index (`LoopRuns`,
`OffsetsExist`) or because a closed form is one (`ReadUpToIs`). The modules that use
`Least` have it each, as none of them extends another.

The theorems assume nothing but what the modules' `ASSUME` say of the constants; the bounds of the models (`MaxRuns`, `MaxFiles`, `MaxTick` and the like) are any
number there.

Only model-checked:
* `LoopsEnd`, `SessionCurrent`, `CatchesUp`, `CrashNoticed`, `StopReturns`: liveness under
  fairness, for which the prover has no support (`ENABLED`);
* the two violated properties, whose counterexamples are what is to be shown.

## What is not modelled

* Formatting, logging, console output, the columns of the display and of the
  converter's rows.
* The strings and numbers of the session info: a place of it is whole, missing,
  or of a form it is not read from. `ResultsPosition` and `ResultsFastestLap`, which
  no `decode` reaches.
* Which of several recordings in a directory `CreateForRaceRecording` takes.
* `LiveClient::getVarHeaders`, which nothing reads: see the hazard list.
* `EventEmitter`: nothing subscribes to it or publishes. `unsubscribe` takes the lock
  and does nothing (its body is a comment), so there is little to state but
  that `publish` holds a lock that is not recursive while listeners run.
* The read and write positions of `Buffer`, which nobody uses (`availableToRead` is a
  minimum with 0); the two clients use it as memory of a size.
* Broadcast messages: no state, and nothing comes back. Their test program
  `examples/msg_test` is not built: it has no `.enable` file, and it calls
  `irsdk_broadcastMsg`, which nothing defines.
* Data races on plain variables: `LiveClient::data_` (hazard list);
  `activeClientId_`; `gLogger`, which `getDefaultLogger` reads outside its mutex. Where
  two threads meet there every outcome is open. So is it when ctrl-c comes in the
  recorder: its handler closes the file on a thread of its own while the main
  loop writes.

## Plan

Done: the live reader with its abstract specification and proofs, the live
client, playback with its abstract specification, overrides, the session info
and its decoding, threads, the programs that time laps, record and convert,
variables by name and by index, path lookup in the session info.

All invariants, action properties and refinements that the passing runs check are
proved. Left:

1. `RunnableThread`: a bound on the steps `stop` takes, as the part of `StopReturns`
   that needs no fairness.
