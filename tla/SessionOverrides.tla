-------------------------- MODULE SessionOverrides --------------------------
(***************************************************************************)
(* The session info of a race recording: DiskClient::updateSessionInfo     *)
(* over the overrides that CreateForRaceRecording found beside the .ibt    *)
(* file, each the session text from some SessionTick on.                   *)
(*                                                                         *)
(* Texts are named by the place of their override in sessionInfoTickQueue, *)
(* 0 for the text in the .ibt file itself.  Playback (DiskClient.tla)      *)
(* appears as the SessionTick it leaves in the buffer.                     *)
(*                                                                         *)
(* Assumptions: one thread uses the client, nothing here takes a lock; the *)
(* numbers in file names fit into 32 bits (beyond, std::stoi throws what   *)
(* CreateForRaceRecording does not catch, and there is no client).         *)
(***************************************************************************)
EXTENDS Integers, FiniteSetsExt, SequencesExt

CONSTANTS
    MaxTick,   \* bound: the ticks of overrides and samples
    MaxFiles,  \* bound: files in the session-info directory
    NoTick,    \* a value Win32::IsWindowsMagicNumber knows
    None       \* no override, no message, no number in a name

ASSUME OverridesAssumption ==
    /\ MaxTick \in Nat /\ MaxFiles \in Nat /\ NoTick \in Nat /\ NoTick > MaxTick + 1
    /\ None \notin Int

VARIABLES
    queue,      \* extras_.sessionInfoTickQueue: SessionTick, and does the text parse?
    ownParses,  \* so does the text in the .ibt file
    tick,       \* SessionTick in varBuf_
    isAvailable,
    previousSessionInfoOverride_,  \* None or a place in queue
    sessionInfoBuf_,               \* the text getSessionInfoStr returns
    sessionInfo_,                  \* the text getSessionInfo's message is of
    furthest    \* history: the largest tick of a sample that updateSessionInfo
                \* was called at; openFile's call counts as at tick 0

recording == <<queue, ownParses>>
info == <<previousSessionInfoOverride_, sessionInfoBuf_, sessionInfo_>>
vars == <<recording, tick, isAvailable, info, furthest>>

Ticks == 0 .. MaxTick

(* A file of the session-info directory: the digits its name begins with,  *)
(* after a minus or not, and how reading it ends.                          *)
File == [name : -MaxTick .. MaxTick \cup {NoTick, None},
         is   : {"empty", "locked", "short", "broken", "text"}]
Texts == 0 .. Len(queue)

-----------------------------------------------------------------------------
(* The digits are taken without the minus before them.                     *)
TickOfName(name) == IF name \in Int /\ name < 0 THEN -name ELSE name

(* A file that is gone or empty, does not open, or ends before the size it *)
(* had a moment ago gives no text.                                         *)
ReadTextFile(file) ==
    IF file.is \in {"broken", "text"} THEN <<[parses |-> file.is = "text"]>> ELSE <<>>

Override(file) == [tick   |-> TickOfName(file.name),
                   parses |-> ReadTextFile(file)[1].parses]

(* Mutant: every number is a tick.                                         *)
IsAnyNumber(file) == file.name # None /\ ReadTextFile(file) # <<>>

(* A name that gives a tick, and a file that gives a text.                 *)
IsOverride(file) == file.name \notin {None, NoTick} /\ ReadTextFile(file) # <<>>

(* The other files are left out, these stay in the order of the directory. *)
CreateForRaceRecording(files) ==
    LET kept[i \in 0 .. Len(files)] ==
            IF i = 0 THEN <<>>
            ELSE IF IsOverride(files[i]) THEN Append(kept[i - 1], Override(files[i]))
            ELSE kept[i - 1]
    IN  kept[Len(files)]

hasSessionInfoFileOverride == queue # <<>>

(* static_cast to uint32_t: -1 is beyond every tick.                       *)
Unsigned(t) == IF t < 0 THEN MaxTick + 1 ELSE t

(* Mutant: an override counts only after its own tick.                     *)
FindStrictly(tickCount) ==
    LET current[i \in 1 .. Len(queue)] ==
            IF i = 1 THEN 1
            ELSE IF /\ queue[current[i - 1]].tick <= queue[i].tick
                    /\ queue[i].tick < tickCount
                 THEN i ELSE current[i - 1]
    IN  current[Len(queue)]

(* The loop of findSessionInfoFileOverride over the queue, by its place.   *)
findSessionInfoFileOverride(tickCount) ==
    LET current[i \in 1 .. Len(queue)] ==
            IF i = 1 THEN 1
            ELSE IF /\ queue[current[i - 1]].tick <= queue[i].tick
                    /\ queue[i].tick <= tickCount
                 THEN i ELSE current[i - 1]
    IN  current[Len(queue)]

Parses(text) == IF text = 0 THEN ownParses ELSE queue[text].parses

(* openFile's call, before the file counts as open: the override for tick  *)
(* 0.  When its text does not parse the file is not opened; openFile may   *)
(* also fail later.                                                        *)
Init ==
    /\ \E files \in SeqOf(File, MaxFiles) : queue = CreateForRaceRecording(files)
    /\ ownParses \in BOOLEAN
    /\ tick \in Ticks \cup {-1, NoTick}
    /\ LET first == IF hasSessionInfoFileOverride THEN findSessionInfoFileOverride(0) ELSE 0
       IN  /\ previousSessionInfoOverride_ = IF first = 0 THEN None ELSE first
           /\ sessionInfoBuf_ = first
           /\ sessionInfo_ = IF Parses(first) THEN first ELSE None
           /\ isAvailable \in {FALSE, Parses(first)}
    /\ furthest = 0

-----------------------------------------------------------------------------
(* next, seek, seekToSessionNum put another sample into varBuf_; only a    *)
(* recording without any valid SessionTick shows an invalid one.           *)
Move ==
    /\ isAvailable /\ tick \in Ticks
    /\ tick' \in Ticks
    /\ UNCHANGED <<recording, isAvailable, info, furthest>>

close ==
    /\ isAvailable /\ isAvailable' = FALSE
    /\ UNCHANGED <<recording, tick, info, furthest>>

Found == findSessionInfoFileOverride(Unsigned(tick))

(* "the same as previous": at or before it.                                *)
IsPrevious ==
    /\ previousSessionInfoOverride_ # None
    /\ queue[Found].tick <= queue[previousSessionInfoOverride_].tick

Skip == isAvailable /\ hasSessionInfoFileOverride /\ tick # NoTick /\ IsPrevious

(* Mutant: the message is replaced, the text kept.                         *)
LoadWithoutText(text) ==
    /\ sessionInfo_' = IF Parses(text) THEN text ELSE sessionInfo_
    /\ UNCHANGED sessionInfoBuf_

(* The text into sessionInfoBuf_, then into the message if it parses.      *)
Load(text) ==
    /\ sessionInfoBuf_' = text
    /\ sessionInfo_' = IF Parses(text) THEN text ELSE sessionInfo_

UseOverride ==
    /\ hasSessionInfoFileOverride /\ tick # NoTick /\ ~IsPrevious
    /\ previousSessionInfoOverride_' = Found /\ Load(Found)

UseOwnText ==
    /\ ~hasSessionInfoFileOverride /\ Load(0)
    /\ UNCHANGED previousSessionInfoOverride_

(* updateSessionInfo(nullptr, onlyCheckOverrides) on an open file.         *)
updateSessionInfo(onlyCheckOverrides) ==
    /\ isAvailable
    /\ \/ UseOverride
       \/ ~onlyCheckOverrides /\ UseOwnText
       \/ Skip /\ UNCHANGED info
       \/ /\ \/ hasSessionInfoFileOverride /\ tick = NoTick
             \/ ~hasSessionInfoFileOverride /\ onlyCheckOverrides
          /\ UNCHANGED info
    /\ furthest' = IF tick = NoTick \/ Unsigned(tick) <= furthest THEN furthest
                   ELSE Unsigned(tick)
    /\ UNCHANGED <<recording, tick, isAvailable>>

Next == Move \/ close \/ \E only \in BOOLEAN : updateSessionInfo(only)

Spec == Init /\ [][Next]_vars
-----------------------------------------------------------------------------
(* Every variable stays in its type.                                       *)
TypeOK ==
    /\ queue \in SeqOf([tick : Ticks, parses : BOOLEAN], MaxFiles)
    /\ ownParses \in BOOLEAN /\ isAvailable \in BOOLEAN
    /\ furthest \in 0 .. MaxTick + 1
    /\ tick \in Ticks \cup {-1, NoTick}
    /\ previousSessionInfoOverride_ \in 1 .. Len(queue) \cup {None}
    /\ sessionInfoBuf_ \in Texts /\ sessionInfo_ \in Texts \cup {None}

(* The directory lists the overrides by their ticks.                       *)
Sorted == \A i, j \in DOMAIN queue : i < j => queue[i].tick < queue[j].tick

(* The override that holds at a tick: the last one up to it; before the    *)
(* first one, that one.                                                    *)
Due(t) ==
    LET upTo == {i \in DOMAIN queue : queue[i].tick <= Unsigned(t)}
    IN  IF upTo = {} THEN 1 ELSE Max(upTo)

(* Over a sorted directory, however playback is moved, forward and back,   *)
(* and however many overrides are passed over between two updates, the     *)
(* client shows the session info that holds at the furthest sample it was  *)
(* updated at: after a playback that goes forward that of the sample in    *)
(* the buffer, after a seek back still the later one.  An override that    *)
(* does not parse is taken all the same, and left with its sample.         *)
InForce ==
    hasSessionInfoFileOverride /\ Sorted =>
      /\ sessionInfoBuf_ = Due(furthest)
      /\ Parses(Due(furthest)) => sessionInfo_ = Due(furthest)

(* The text and the message a client hands out are of the same override.   *)
(* They differ only while the text does not parse; then the message of an  *)
(* open client is still that of an override, which did parse, from an      *)
(* earlier tick than the text's.                                           *)
TextOfMessage ==
    /\ Parses(sessionInfoBuf_) => sessionInfo_ = sessionInfoBuf_
    /\ isAvailable /\ ~Parses(sessionInfoBuf_) =>
         /\ sessionInfo_ \in DOMAIN queue /\ Parses(sessionInfo_)
         /\ queue[sessionInfo_].tick < queue[sessionInfoBuf_].tick
=============================================================================
