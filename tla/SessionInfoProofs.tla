-------------------------- MODULE SessionInfoProofs ---------------------------
(***************************************************************************)
(* Proofs about the session info of a client: which text is in force, what *)
(* the message made of a text says, and what a path finds in a text.       *)
(*                                                                         *)
(* SessionOverrides: for directories of any size, in any order and with    *)
(* files that end anyhow.                                                  *)
(*                                                                         *)
(* SessionMessage: for documents with any combination of damage and any    *)
(* number of texts.  What Below, Above and Decode recur over are the       *)
(* structs of ModelParser.h, which hold one another four deep: a table of  *)
(* them is what four rounds from any table come to (TableExists), and what *)
(* holds of a struct when it does of those it holds, or of those that hold *)
(* it, holds of all (RankInduction).                                       *)
(*                                                                         *)
(* YamlParser: for texts of any length and paths of any number of steps.   *)
(* What the scan meets next is what the path selects because a key of the  *)
(* path cannot be anywhere else before it (NoneBelow), and the scan leaves *)
(* a line only when nothing below or beside it is selected (Ahead).        *)
(***************************************************************************)
EXTENDS SessionOverrides, SessionMessage, YamlParser, WellFoundedInduction, TLAPS

-----------------------------------------------------------------------------
(* SessionOverrides.  The inductive invariant.                             *)

Queues == SeqOf([tick : Ticks, parses : BOOLEAN], MaxFiles)

(* With overrides beside the file, the text is the one last taken.         *)
TextInv ==
    hasSessionInfoFileOverride =>
      /\ previousSessionInfoOverride_ # None
      /\ sessionInfoBuf_ = previousSessionInfoOverride_

(* In a sorted directory that is the one due at the furthest sample an     *)
(* update was made at.                                                     *)
PlaceInv ==
    hasSessionInfoFileOverride /\ Sorted => previousSessionInfoOverride_ = Due(furthest)

Inv == TypeOK /\ TextInv /\ TextOfMessage /\ PlaceInv

-----------------------------------------------------------------------------
(* Loops.                                                                  *)

LEMMA Constants ==
  MaxTick \in Nat /\ MaxFiles \in Nat /\ NoTick \in Nat /\ NoTick > MaxTick + 1
    /\ None \notin Int
BY OverridesAssumption DEF OverridesAssumption

(* A nonempty set of naturals has a least element.                         *)
LEMMA Least ==
  ASSUME NEW T \in SUBSET Nat, T # {}
  PROVE  \E x \in T : \A y \in T : x <= y
<1> DEFINE R == {ss \in Nat \X Nat : ss[1] < ss[2]}
<1>1. IsWellFoundedOn(R, Nat) BY NatLessThanWellFounded DEF OpToRel
<1> HIDE DEF R
<1>2. PICK x \in T : \A y \in T : ~(<<y, x>> \in R) BY <1>1, WFMin
<1>3. \A y \in T : ~(y < x) BY <1>2 DEF R
<1> QED BY <1>3

(* A finite nonempty set of naturals has a greatest one.                   *)
LEMMA Greatest ==
  ASSUME NEW n \in Nat, NEW T \in SUBSET (0 .. n), T # {}
  PROVE  \E x \in T : \A y \in T : y <= x
<1> DEFINE U == {k \in 0 .. n : n - k \in T}
<1>1. ASSUME NEW y \in T PROVE n - y \in U /\ y \in 0 .. n
  <2>1. y \in 0 .. n /\ n - y \in 0 .. n /\ n - (n - y) = y OBVIOUS
  <2> QED BY <2>1
<1>2. U \in SUBSET Nat /\ U # {}
  <2>1. PICK y \in T : TRUE OBVIOUS
  <2>2. n - y \in U BY <1>1, <2>1
  <2>3. \A k \in U : k \in Nat OBVIOUS
  <2> HIDE DEF U
  <2> QED BY <2>2, <2>3
<1>3. PICK u \in U : \A v \in U : u <= v BY <1>2, Least
<1>4. u \in 0 .. n /\ n - u \in T OBVIOUS
<1>5. ASSUME NEW y \in T PROVE y <= n - u
  <2>1. u <= n - y /\ y \in 0 .. n BY <1>1, <1>3
  <2> QED BY <1>4, <2>1
<1> QED BY <1>4, <1>5

(* The results of a loop from a, with one step of table s for each index.  *)
LoopFrom(f, lo, hi, a, s) ==
    \A i \in lo .. hi : f[i] = IF i = lo THEN a ELSE s[<<i, f[i - 1]>>]

(* Such a loop has a result for every index, of the type its steps keep.   *)
LEMMA LoopRuns ==
  ASSUME NEW lo \in Nat, NEW hi \in Nat, NEW V, NEW a \in V,
         NEW s \in [(lo .. hi) \X V -> V]
  PROVE  \E f \in [lo .. hi -> V] : LoopFrom(f, lo, hi, a, s)
<1> DEFINE Runs(f, m) == \A i \in lo .. m : f[i] = IF i = lo THEN a ELSE s[<<i, f[i - 1]>>]
           Bad == {m \in Nat : m <= hi /\ ~(\E f \in [lo .. m -> V] : Runs(f, m))}
<1>1. Bad = {}
  <2> SUFFICES ASSUME Bad # {} PROVE FALSE
    OBVIOUS
  <2>1. PICK m \in Bad : \A k \in Bad : m <= k BY Least
  <2>2. m \in Nat /\ m <= hi OBVIOUS
  <2>3. CASE m < lo
    <3>1. lo .. m = {} BY <2>2, <2>3
    <3>2. [i \in lo .. m |-> a] \in [lo .. m -> V] OBVIOUS
    <3>3. Runs([i \in lo .. m |-> a], m) BY <3>1
    <3> HIDE DEF Runs
    <3> QED BY <2>1, <3>2, <3>3
  <2>4. CASE m = lo
    <3> DEFINE f == [i \in lo .. m |-> a]
    <3>1. f \in [lo .. m -> V] OBVIOUS
    <3>2. Runs(f, m) BY <2>4
    <3> HIDE DEF Runs, f
    <3> QED BY <2>1, <3>1, <3>2
  <2>5. CASE m > lo
    <3>1. m - 1 \in Nat /\ m - 1 <= hi /\ ~(m <= m - 1) BY <2>2, <2>5
    <3>2. m - 1 \notin Bad BY <2>1, <3>1
    <3>3. PICK g \in [lo .. m - 1 -> V] : Runs(g, m - 1) BY <3>1, <3>2
    <3> DEFINE f == [i \in lo .. m |-> IF i = m THEN s[<<m, g[m - 1]>>] ELSE g[i]]
    <3>4. m - 1 \in lo .. m - 1 /\ m \in lo .. hi BY <2>2, <2>5
    <3>5. g[m - 1] \in V /\ <<m, g[m - 1]>> \in (lo .. hi) \X V BY <3>4
    <3>6. s[<<m, g[m - 1]>>] \in V BY <3>5
    <3>7. f \in [lo .. m -> V] BY <2>2, <3>6
    <3>8. ASSUME NEW i \in lo .. m
          PROVE  f[i] = IF i = lo THEN a ELSE s[<<i, f[i - 1]>>]
      <4>1. CASE i = m
        <5>1. f[i] = s[<<m, g[m - 1]>>] /\ f[i - 1] = g[m - 1] BY <2>5, <3>4, <4>1
        <5>2. i # lo BY <2>2, <2>5, <4>1
        <5>3. s[<<i, f[i - 1]>>] = s[<<m, g[m - 1]>>] BY <4>1, <5>1
        <5> QED BY <5>1, <5>2, <5>3
      <4>2. CASE i # m
        <5>1. i \in lo .. m - 1 BY <2>2, <4>2
        <5>2. f[i] = g[i] BY <4>2
        <5>3. i # lo => f[i - 1] = g[i - 1] BY <2>2, <5>1
        <5>4. g[i] = IF i = lo THEN a ELSE s[<<i, g[i - 1]>>] BY <3>3, <5>1
        <5> QED BY <5>2, <5>3, <5>4
      <4> QED BY <4>1, <4>2
    <3>9. Runs(f, m) BY <3>8
    <3> HIDE DEF Runs, f
    <3> QED BY <2>1, <3>7, <3>9
  <2> QED BY <2>2, <2>3, <2>4, <2>5
<1>2. hi \notin Bad BY <1>1
<1> QED BY <1>2 DEF LoopFrom

-----------------------------------------------------------------------------
(* The queue.                                                              *)

QueueEntry == [tick : Ticks, parses : BOOLEAN]

LEMMA QueueIs ==
  ASSUME NEW q \in Queues
  PROVE  /\ Len(q) \in 0 .. MaxFiles /\ DOMAIN q = 1 .. Len(q)
         /\ \A i \in 1 .. Len(q) : q[i] \in QueueEntry /\ q[i].tick \in Ticks
         /\ q # <<>> => Len(q) >= 1
<1>1. MaxFiles \in Nat BY Constants
<1>2. PICK m \in 0 .. MaxFiles : q \in [1 .. m -> QueueEntry] BY DEF Queues, SeqOf, QueueEntry
<1>3. Len(q) = m /\ DOMAIN q = 1 .. m /\ q \in Seq(QueueEntry) BY <1>1, <1>2
<1>4. \A i \in 1 .. m : q[i] \in QueueEntry /\ q[i].tick \in Ticks BY <1>2 DEF QueueEntry
<1>5. q # <<>> => m >= 1 BY <1>1, <1>3
<1> QED BY <1>3, <1>4, <1>5

LEMMA OverrideIs ==
  ASSUME NEW file \in File, IsOverride(file)
  PROVE  Override(file) \in QueueEntry
<1>1. MaxTick \in Nat BY Constants
<1>2. file.name \in -MaxTick .. MaxTick BY DEF IsOverride, File
<1>3. TickOfName(file.name) \in Ticks BY <1>1, <1>2 DEF TickOfName, Ticks
<1>4. ReadTextFile(file) = <<[parses |-> file.is = "text"]>>
  <2>1. CASE file.is \in {"broken", "text"} BY <2>1 DEF ReadTextFile
  <2>2. CASE file.is \notin {"broken", "text"} BY <2>2 DEF ReadTextFile, IsOverride
  <2> QED BY <2>1, <2>2
<1>5. ReadTextFile(file)[1].parses \in BOOLEAN
  <2> DEFINE b == file.is = "text"
  <2>1. b \in BOOLEAN BY Zenon
  <2>2. ReadTextFile(file) = <<[parses |-> b]>> BY <1>4
  <2> HIDE DEF b, ReadTextFile
  <2>3. ReadTextFile(file)[1] = [parses |-> b] BY <2>2
  <2>4. [parses |-> b].parses = b OBVIOUS
  <2> QED BY <2>1, <2>3, <2>4, Zenon
<1> HIDE DEF ReadTextFile
<1> QED BY <1>3, <1>5 DEF Override, QueueEntry

(* What CreateForRaceRecording keeps are overrides, no more than there are *)
(* files.                                                                  *)
LEMMA QueueType ==
  ASSUME NEW files \in SeqOf(File, MaxFiles)
  PROVE  CreateForRaceRecording(files) \in Queues
<1> DEFINE n == Len(files)
           V == Seq(QueueEntry)
           Keep(i, k) == IF IsOverride(files[i]) THEN Append(k, Override(files[i])) ELSE k
           Def(f) == [i \in 0 .. n |-> IF i = 0 THEN <<>> ELSE Keep(i, f[i - 1])]
           s == [x \in (0 .. n) \X V |-> IF x[1] = 0 THEN <<>> ELSE Keep(x[1], x[2])]
           kept == CHOOSE f : f = Def(f)
<1>1. PICK m \in 0 .. MaxFiles : files \in [1 .. m -> File] BY DEF SeqOf
<1>2. MaxFiles \in Nat /\ n = m /\ n \in Nat /\ n <= MaxFiles BY <1>1, Constants
<1>3. \A i \in 1 .. n : files[i] \in File BY <1>1, <1>2
<1> HIDE DEF n
<1>4. ASSUME NEW i \in 1 .. n, NEW k \in V
      PROVE  Keep(i, k) \in V /\ Len(Keep(i, k)) \in {Len(k), Len(k) + 1}
  <2>1. CASE IsOverride(files[i])
    <3>1. Override(files[i]) \in QueueEntry BY <1>3, <2>1, OverrideIs
    <3> QED BY <2>1, <3>1
  <2>2. CASE ~IsOverride(files[i]) BY <2>2
  <2> QED BY <2>1, <2>2
<1>5. <<>> \in V OBVIOUS
<1> HIDE DEF V, Keep
<1>6. s \in [(0 .. n) \X V -> V]
  <2>1. ASSUME NEW x \in (0 .. n) \X V
        PROVE  (IF x[1] = 0 THEN <<>> ELSE Keep(x[1], x[2])) \in V
    <3>1. x[1] \in 0 .. n /\ x[2] \in V OBVIOUS
    <3>2. x[1] # 0 => x[1] \in 1 .. n BY <1>2, <3>1
    <3> QED BY <1>4, <1>5, <3>1, <3>2
  <2> QED BY <2>1
<1>7. \E f : f = Def(f)
  <2> HIDE DEF s
  <2>1. PICK f \in [0 .. n -> V] : LoopFrom(f, 0, n, <<>>, s)
    <3>1. 0 \in Nat /\ n \in Nat BY <1>2
    <3> QED BY <3>1, <1>5, <1>6, LoopRuns, Zenon
  <2>2. ASSUME NEW i \in 0 .. n, i # 0 PROVE s[<<i, f[i - 1]>>] = Keep(i, f[i - 1])
    <3>1. i - 1 \in 0 .. n BY <1>2, <2>2
    <3>2. <<i, f[i - 1]>> \in (0 .. n) \X V BY <3>1
    <3> QED BY <2>2, <3>2 DEF s
  <2>3. \A i \in 0 .. n : f[i] = Def(f)[i] BY <2>1, <2>2 DEF LoopFrom
  <2>4. f = Def(f) BY <2>3
  <2> QED BY <2>4
<1>8. kept = Def(kept)
  <2> HIDE DEF Def
  <2> QED BY <1>7
<1>9. CreateForRaceRecording(files) = kept[n] BY DEF CreateForRaceRecording, Keep, n
<1> HIDE DEF kept
<1> DEFINE Bad == {i \in Nat : i <= n /\ ~(kept[i] \in V /\ Len(kept[i]) <= i)}
<1>10. Bad = {}
  <2> SUFFICES ASSUME Bad # {} PROVE FALSE
    OBVIOUS
  <2>1. PICK i \in Bad : \A j \in Bad : i <= j BY Least
  <2>2. i \in 0 .. n BY <1>2
  <2>3. CASE i = 0
    <3>1. kept[i] = <<>> BY <1>8, <2>2, <2>3
    <3> QED BY <1>5, <2>3, <3>1
  <2>4. CASE i # 0
    <3>1. i - 1 \in Nat /\ i - 1 <= n /\ i \in 1 .. n /\ ~(i <= i - 1) BY <1>2, <2>2, <2>4
    <3>2. i - 1 \notin Bad BY <2>1, <3>1
    <3>3. kept[i - 1] \in V /\ Len(kept[i - 1]) <= i - 1 BY <3>1, <3>2
    <3>4. kept[i] = Keep(i, kept[i - 1]) BY <1>8, <2>2, <2>4
    <3>5. kept[i] \in V /\ Len(kept[i]) \in {Len(kept[i - 1]), Len(kept[i - 1]) + 1}
      BY <1>4, <3>1, <3>3, <3>4
    <3>6. Len(kept[i - 1]) \in Nat BY <3>3 DEF V
    <3>7. Len(kept[i]) <= i BY <3>1, <3>3, <3>5, <3>6
    <3> QED BY <3>5, <3>7
  <2> QED BY <2>3, <2>4
<1>11. kept[n] \in V /\ Len(kept[n]) <= n BY <1>2, <1>10
<1>12. kept[n] \in Seq(QueueEntry) /\ Len(kept[n]) \in 0 .. MaxFiles BY <1>2, <1>11 DEF V
<1>13. kept[n] \in [1 .. Len(kept[n]) -> QueueEntry] BY <1>12
<1> QED BY <1>9, <1>12, <1>13 DEF Queues, SeqOf, QueueEntry

-----------------------------------------------------------------------------
(* The override found for a tick.                                          *)

LEMMA FoundIs ==
  ASSUME queue \in Queues, queue # <<>>, NEW t \in Int
  PROVE  LET c == findSessionInfoFileOverride(t)
         IN  /\ c \in 1 .. Len(queue)
             /\ c = 1 \/ queue[c].tick <= t
             /\ Sorted => \A j \in 2 .. Len(queue) : queue[j].tick <= t => j <= c
<1> DEFINE n == Len(queue)
           V == 1 .. n
           Take(i, c) == IF queue[c].tick <= queue[i].tick /\ queue[i].tick <= t THEN i ELSE c
           Def(f) == [i \in 1 .. n |-> IF i = 1 THEN 1 ELSE Take(i, f[i - 1])]
           s == [x \in (1 .. n) \X V |-> IF x[1] = 1 THEN 1 ELSE Take(x[1], x[2])]
           current == CHOOSE f : f = Def(f)
<1>1. n \in Nat /\ n >= 1 /\ DOMAIN queue = 1 .. n BY QueueIs
<1>2. \A i \in 1 .. n : queue[i].tick \in Nat
  <2>1. MaxTick \in Nat BY Constants
  <2> QED BY <2>1, QueueIs DEF Ticks
<1> HIDE DEF n
<1>3. 1 \in V BY <1>1
<1>4. ASSUME NEW i \in 1 .. n, NEW c \in V PROVE Take(i, c) \in V /\ Take(i, c) \in {i, c}
  OBVIOUS
<1>5. s \in [(1 .. n) \X V -> V]
  <2> HIDE DEF Take, V
  <2>1. ASSUME NEW x \in (1 .. n) \X V
        PROVE  (IF x[1] = 1 THEN 1 ELSE Take(x[1], x[2])) \in V
    <3>1. x[1] \in 1 .. n /\ x[2] \in V OBVIOUS
    <3> QED BY <1>3, <1>4, <3>1
  <2> QED BY <2>1
<1>6. \E f : f = Def(f)
  <2> HIDE DEF s, Take, V
  <2>1. PICK f \in [1 .. n -> V] : LoopFrom(f, 1, n, 1, s)
    <3>1. 1 \in Nat /\ n \in Nat BY <1>1
    <3> QED BY <3>1, <1>3, <1>5, LoopRuns, Zenon
  <2>2. ASSUME NEW i \in 1 .. n, i # 1 PROVE s[<<i, f[i - 1]>>] = Take(i, f[i - 1])
    <3>1. i - 1 \in 1 .. n BY <1>1, <2>2
    <3>2. <<i, f[i - 1]>> \in (1 .. n) \X V BY <3>1
    <3> QED BY <2>2, <3>2 DEF s
  <2>3. \A i \in 1 .. n : f[i] = Def(f)[i] BY <2>1, <2>2 DEF LoopFrom
  <2>4. f = Def(f) BY <2>3
  <2> QED BY <2>4
<1>7. current = Def(current)
  <2> HIDE DEF Def
  <2> QED BY <1>6
<1>8. findSessionInfoFileOverride(t) = current[n] BY DEF findSessionInfoFileOverride, Take, n
<1> HIDE DEF current
<1> DEFINE Ok(i, c) ==
             /\ c \in 1 .. i
             /\ c = 1 \/ queue[c].tick <= t
             /\ Sorted => \A j \in 2 .. i : queue[j].tick <= t => j <= c
           Bad == {i \in Nat : i \in 1 .. n /\ ~Ok(i, current[i])}
<1>9. Bad = {}
  <2> SUFFICES ASSUME Bad # {} PROVE FALSE
    OBVIOUS
  <2>1. PICK i \in Bad : \A j \in Bad : i <= j
    <3> HIDE DEF Ok
    <3> QED BY Least
  <2>2. i \in 1 .. n OBVIOUS
  <2>3. CASE i = 1
    <3>1. current[i] = 1 BY <1>7, <2>2, <2>3
    <3>2. Ok(i, 1) BY <2>3
    <3> HIDE DEF Ok
    <3> QED BY <3>1, <3>2
  <2>4. CASE i # 1
    <3> DEFINE c == current[i - 1]
    <3>1. i - 1 \in Nat /\ i - 1 \in 1 .. n /\ ~(i <= i - 1) BY <1>1, <2>2, <2>4
    <3>2. Ok(i - 1, c)
      <4> HIDE DEF Ok
      <4>1. i - 1 \notin Bad BY <2>1, <3>1
      <4> QED BY <3>1, <4>1
    <3>3. current[i] = Take(i, c) BY <1>7, <2>2, <2>4
    <3> HIDE DEF c
    <3>4. c \in 1 .. i - 1 /\ c \in 1 .. n BY <1>1, <2>2, <3>2
    <3>5. queue[c].tick \in Nat /\ queue[i].tick \in Nat BY <1>2, <2>2, <3>4
    <3>6. CASE queue[c].tick <= queue[i].tick /\ queue[i].tick <= t
      <4>1. Take(i, c) = i BY <3>6
      <4>2. Ok(i, i) BY <2>2, <3>6
      <4> HIDE DEF Ok, Take
      <4> QED BY <3>3, <4>1, <4>2
    <3>7. CASE ~(queue[c].tick <= queue[i].tick /\ queue[i].tick <= t)
      <4>1. Take(i, c) = c BY <3>7
      <4>2. Sorted => ~(queue[i].tick <= t)
        <5>1. Sorted => queue[c].tick < queue[i].tick BY <1>1, <2>2, <3>4 DEF Sorted
        <5> QED BY <3>5, <3>7, <5>1
      <4>3. c \in 1 .. i /\ (c = 1 \/ queue[c].tick <= t) BY <2>2, <3>2, <3>4
      <4>4. ASSUME Sorted, NEW j \in 2 .. i, queue[j].tick <= t PROVE j <= c
        <5>1. j # i BY <4>2, <4>4
        <5>2. j \in 2 .. i - 1 BY <2>2, <5>1
        <5> QED BY <3>2, <4>4, <5>2
      <4>5. Ok(i, c) BY <4>3, <4>4
      <4> HIDE DEF Ok, Take
      <4> QED BY <3>3, <4>1, <4>5
    <3> QED BY <3>6, <3>7
  <2> QED BY <2>3, <2>4
<1>10. Ok(n, current[n])
  <2> HIDE DEF Ok
  <2>1. n \in 1 .. n BY <1>1
  <2> QED BY <1>1, <1>9, <2>1
<1> QED BY <1>8, <1>10 DEF n

(* The one that is due, by what makes it so.                               *)
LEMMA DueIs ==
  ASSUME queue \in Queues, queue # <<>>, NEW t \in Int
  PROVE  /\ Unsigned(t) \in Nat
         /\ Due(t) \in 1 .. Len(queue)
         /\ Due(t) = 1 \/ queue[Due(t)].tick <= Unsigned(t)
         /\ \A j \in 1 .. Len(queue) : queue[j].tick <= Unsigned(t) => j <= Due(t)
<1> DEFINE upTo == {i \in DOMAIN queue : queue[i].tick <= Unsigned(t)}
<1>1. Len(queue) \in Nat /\ Len(queue) >= 1 /\ DOMAIN queue = 1 .. Len(queue)
  <2>1. MaxFiles \in Nat BY Constants
  <2> QED BY <2>1, QueueIs
<1>2. Unsigned(t) \in Nat BY Constants DEF Unsigned
<1>3. CASE upTo = {}
  <2>1. Due(t) = 1 BY <1>3 DEF Due
  <2>2. \A j \in 1 .. Len(queue) : ~(queue[j].tick <= Unsigned(t)) BY <1>1, <1>3
  <2> QED BY <1>1, <1>2, <2>1, <2>2
<1>4. CASE upTo # {}
  <2> DEFINE Top == Max(upTo)
  <2>1. upTo \in SUBSET (0 .. Len(queue)) BY <1>1
  <2>2. Top \in upTo /\ \A j \in upTo : j <= Top
    <3> HIDE DEF upTo
    <3>1. \E x \in upTo : \A y \in upTo : y <= x BY <1>1, <1>4, <2>1, Greatest
    <3>2. \E x \in upTo : \A y \in upTo : x >= y BY <2>1, <3>1
    <3>3. Top \in upTo /\ \A j \in upTo : Top >= j BY <3>2 DEF Max
    <3> HIDE DEF Top
    <3> QED BY <2>1, <3>3
  <2>3. Due(t) = Top BY <1>4 DEF Due
  <2> HIDE DEF Top
  <2> QED BY <1>1, <1>2, <2>2, <2>3
<1> QED BY <1>3, <1>4

(* The loop of findSessionInfoFileOverride finds it in a sorted directory. *)
LEMMA FoundIsDue ==
  ASSUME queue \in Queues, queue # <<>>, Sorted, NEW t \in Int
  PROVE  findSessionInfoFileOverride(Unsigned(t)) = Due(t)
<1> DEFINE u == Unsigned(t)
           c == findSessionInfoFileOverride(u)
           d == Due(t)
           n == Len(queue)
<1>1. /\ u \in Nat /\ d \in 1 .. n /\ (d = 1 \/ queue[d].tick <= u)
      /\ \A j \in 1 .. n : queue[j].tick <= u => j <= d
  BY DueIs
<1>2. /\ c \in 1 .. n /\ (c = 1 \/ queue[c].tick <= u)
      /\ \A j \in 2 .. n : queue[j].tick <= u => j <= c
  <2>1. u \in Int BY <1>1
  <2> HIDE DEF u
  <2> QED BY <2>1, FoundIs
<1>3. n \in Nat BY QueueIs
<1> HIDE DEF u, c, d, n
<1>4. c <= d BY <1>1, <1>2, <1>3
<1>5. d <= c
  <2>1. CASE d = 1 BY <1>2, <1>3, <2>1
  <2>2. CASE d # 1 BY <1>1, <1>2, <1>3, <2>2
  <2> QED BY <2>1, <2>2
<1>6. c = d BY <1>1, <1>2, <1>3, <1>4, <1>5
<1> QED BY <1>6 DEF c, d, u

LEMMA DueGrows ==
  ASSUME queue \in Queues, queue # <<>>, NEW t \in Int, NEW u \in Int,
         Unsigned(t) <= Unsigned(u)
  PROVE  Due(t) <= Due(u)
<1> DEFINE a == Due(t)
           b == Due(u)
           n == Len(queue)
<1>1. /\ Unsigned(t) \in Nat /\ a \in 1 .. n
      /\ a = 1 \/ queue[a].tick <= Unsigned(t)
  BY DueIs
<1>2. /\ Unsigned(u) \in Nat /\ b \in 1 .. n
      /\ \A j \in 1 .. n : queue[j].tick <= Unsigned(u) => j <= b
  BY DueIs
<1>3. queue[a].tick \in Nat
  <2>1. MaxTick \in Nat BY Constants
  <2> QED BY <1>1, <2>1, QueueIs DEF Ticks
<1>4. n \in Nat BY QueueIs
<1> HIDE DEF a, b, n
<1>5. a <= b
  <2>1. CASE a = 1 BY <1>2, <1>4, <2>1
  <2>2. CASE a # 1
    <3>1. queue[a].tick <= Unsigned(u) BY <1>1, <1>2, <1>3, <2>2
    <3> QED BY <1>1, <1>2, <3>1
  <2> QED BY <2>1, <2>2
<1> QED BY <1>5 DEF a, b

LEMMA TickIs == tick \in Ticks \cup {-1, NoTick} => tick \in Int
BY Constants DEF Ticks

LEMMA FoundType ==
  ASSUME queue \in Queues, queue # <<>>, tick \in Ticks \cup {-1, NoTick}
  PROVE  Found \in 1 .. Len(queue)
<1>1. Unsigned(tick) \in Int BY TickIs, DueIs
<1> QED BY <1>1, FoundIs DEF Found

LEMMA ParsesType ==
  ASSUME queue \in Queues, ownParses \in BOOLEAN, NEW t \in Texts
  PROVE  Parses(t) \in BOOLEAN
<1>1. Len(queue) \in Nat BY QueueIs
<1>2. t # 0 => t \in 1 .. Len(queue) BY <1>1 DEF Texts
<1>3. t # 0 => queue[t].parses \in BOOLEAN BY <1>2, QueueIs DEF QueueEntry
<1> QED BY <1>3 DEF Parses

-----------------------------------------------------------------------------
LEMMA Initially == Init => Inv
<1> SUFFICES ASSUME Init PROVE Inv
  OBVIOUS
<1> DEFINE start == IF hasSessionInfoFileOverride THEN findSessionInfoFileOverride(0) ELSE 0
<1>1. queue \in Queues BY QueueType DEF Init
<1>2. Len(queue) \in Nat BY <1>1, QueueIs
<1>3. ownParses \in BOOLEAN /\ tick \in Ticks \cup {-1, NoTick} BY DEF Init
<1>4. queue # <<>> => start \in 1 .. Len(queue)
  BY <1>1, FoundIs DEF hasSessionInfoFileOverride
<1>5. queue = <<>> => start = 0 BY DEF hasSessionInfoFileOverride
<1>6. start \in Texts /\ (start # 0 <=> queue # <<>>) BY <1>2, <1>4, <1>5 DEF Texts
<1>7. /\ previousSessionInfoOverride_ = (IF start = 0 THEN None ELSE start)
      /\ sessionInfoBuf_ = start
      /\ sessionInfo_ = (IF Parses(start) THEN start ELSE None)
      /\ isAvailable \in {FALSE, Parses(start)}
  BY DEF Init
<1>8. furthest = 0 BY DEF Init
<1>9. queue # <<>> /\ Sorted => start = Due(0)
  <2>1. Unsigned(0) = 0 BY DEF Unsigned
  <2> QED BY <1>1, <2>1, FoundIsDue DEF hasSessionInfoFileOverride
<1> HIDE DEF start
<1>10. TypeOK
  <2>1. Parses(start) \in BOOLEAN BY <1>1, <1>3, <1>6, ParsesType
  <2>2. isAvailable \in BOOLEAN BY <1>7, <2>1
  <2>3. previousSessionInfoOverride_ \in 1 .. Len(queue) \cup {None}
    BY <1>4, <1>6, <1>7
  <2>4. sessionInfoBuf_ \in Texts /\ sessionInfo_ \in Texts \cup {None} BY <1>6, <1>7
  <2>5. furthest \in 0 .. MaxTick + 1 BY <1>8, Constants
  <2> QED BY <1>1, <1>3, <2>2, <2>3, <2>4, <2>5 DEF TypeOK, Queues
<1>11. TextInv
  <2>1. None \notin Int BY Constants
  <2> QED BY <1>4, <1>6, <1>7, <2>1 DEF TextInv, hasSessionInfoFileOverride
<1>12. TextOfMessage
  <2>1. isAvailable => Parses(sessionInfoBuf_) BY <1>7
  <2> QED BY <1>7, <2>1 DEF TextOfMessage
<1>13. PlaceInv BY <1>6, <1>7, <1>8, <1>9 DEF PlaceInv, hasSessionInfoFileOverride
<1> QED BY <1>10, <1>11, <1>12, <1>13 DEF Inv

(* What a call of updateSessionInfo leaves alone.                          *)
LEMMA UpdateKeeps ==
  ASSUME TypeOK, NEW only \in BOOLEAN, updateSessionInfo(only)
  PROVE  /\ UNCHANGED <<queue, ownParses, tick, isAvailable>> /\ isAvailable
         /\ furthest' = IF tick = NoTick \/ Unsigned(tick) <= furthest THEN furthest
                         ELSE Unsigned(tick)
         /\ furthest \in Nat /\ furthest' \in 0 .. MaxTick + 1
<1>1. /\ UNCHANGED <<queue, ownParses, tick, isAvailable>> /\ isAvailable
      /\ furthest' = IF tick = NoTick \/ Unsigned(tick) <= furthest THEN furthest
                      ELSE Unsigned(tick)
  BY DEF updateSessionInfo, recording
<1>2. tick # NoTick => Unsigned(tick) \in 0 .. MaxTick + 1
  BY Constants DEF TypeOK, Ticks, Unsigned
<1>3. furthest \in 0 .. MaxTick + 1 BY DEF TypeOK
<1> QED BY <1>1, <1>2, <1>3, Constants

(* The override found, when it is not the one taken before, is of a later  *)
(* tick: a message that is kept because its text does not parse is earlier.*)
LEMMA TakenIsLater ==
  ASSUME Inv, isAvailable, UseOverride, UNCHANGED <<queue, ownParses, isAvailable>>
  PROVE  TextOfMessage'
<1>1. /\ queue # <<>> /\ ~IsPrevious
      /\ sessionInfoBuf_' = Found
      /\ sessionInfo_' = IF Parses(Found) THEN Found ELSE sessionInfo_
  BY DEF UseOverride, Load, hasSessionInfoFileOverride
<1>2. queue \in Queues /\ tick \in Ticks \cup {-1, NoTick} BY DEF Inv, TypeOK, Queues
<1>3. Found \in 1 .. Len(queue) BY <1>1, <1>2, FoundType
<1>4. /\ sessionInfoBuf_ = previousSessionInfoOverride_
      /\ previousSessionInfoOverride_ \in 1 .. Len(queue)
      /\ previousSessionInfoOverride_ # None
  BY <1>1 DEF Inv, TypeOK, TextInv, hasSessionInfoFileOverride
<1>5. ~(queue[Found].tick <= queue[sessionInfoBuf_].tick) BY <1>1, <1>4 DEF IsPrevious
<1>6. DOMAIN queue = 1 .. Len(queue) /\ \A k \in 1 .. Len(queue) : queue[k].tick \in Nat
  <2>1. MaxTick \in Nat BY Constants
  <2> QED BY <1>2, <2>1, QueueIs DEF Ticks
<1>7. queue[sessionInfoBuf_].tick < queue[Found].tick BY <1>3, <1>4, <1>5, <1>6
<1>8. /\ sessionInfo_ \in DOMAIN queue /\ Parses(sessionInfo_)
      /\ queue[sessionInfo_].tick <= queue[sessionInfoBuf_].tick
  <2>1. CASE Parses(sessionInfoBuf_)
    BY <1>4, <1>6, <2>1 DEF Inv, TextOfMessage
  <2>2. CASE ~Parses(sessionInfoBuf_)
    <3>1. /\ sessionInfo_ \in DOMAIN queue /\ Parses(sessionInfo_)
          /\ queue[sessionInfo_].tick < queue[sessionInfoBuf_].tick
      BY <2>2 DEF Inv, TextOfMessage
    <3> QED BY <1>4, <1>6, <3>1
  <2> QED BY <2>1, <2>2
<1>9. queue[sessionInfo_].tick < queue[Found].tick BY <1>3, <1>4, <1>6, <1>7, <1>8
<1>10. CASE Parses(Found)
  <2>1. sessionInfo_' = Found /\ sessionInfoBuf_' = Found BY <1>1, <1>10
  <2>2. Parses(sessionInfoBuf_)' BY <1>10, <2>1 DEF Parses
  <2> QED BY <2>1, <2>2 DEF TextOfMessage
<1>11. CASE ~Parses(Found)
  <2>1. sessionInfo_' = sessionInfo_ /\ sessionInfoBuf_' = Found BY <1>1, <1>11
  <2>2. Parses(sessionInfo_)' /\ ~Parses(sessionInfoBuf_)' BY <1>8, <1>11, <2>1 DEF Parses
  <2> QED BY <1>8, <1>9, <2>1, <2>2 DEF TextOfMessage
<1> QED BY <1>10, <1>11

(* Without overrides the file's own text is loaded again, which parses.    *)
LEMMA OwnAgain ==
  ASSUME Inv, isAvailable, UseOwnText, UNCHANGED <<queue, ownParses, isAvailable>>
  PROVE  TextOfMessage'
<1>1. /\ queue = <<>> /\ sessionInfoBuf_' = 0
      /\ sessionInfo_' = IF Parses(0) THEN 0 ELSE sessionInfo_
  BY DEF UseOwnText, Load, hasSessionInfoFileOverride
<1>2. sessionInfoBuf_ = 0
  <2>1. sessionInfoBuf_ \in Texts BY DEF Inv, TypeOK
  <2>2. Len(queue) = 0 BY <1>1
  <2> QED BY <2>1, <2>2 DEF Texts
<1>3. DOMAIN queue = {} BY <1>1
<1>4. Parses(0) BY <1>2, <1>3 DEF Inv, TextOfMessage
<1>5. Parses(sessionInfoBuf_)' BY <1>1, <1>4 DEF Parses
<1> QED BY <1>1, <1>4, <1>5 DEF TextOfMessage

(* What a call of updateSessionInfo makes of the text and the message.     *)
LEMMA UpdateIs ==
  ASSUME Inv, NEW only \in BOOLEAN, updateSessionInfo(only)
  PROVE  TextOfMessage' /\ TextInv' /\ TypeOK'
<1>1. /\ UNCHANGED <<queue, ownParses, tick, isAvailable>> /\ isAvailable
      /\ furthest' \in 0 .. MaxTick + 1
  BY UpdateKeeps DEF Inv
<1>2. queue \in Queues /\ tick \in Ticks \cup {-1, NoTick} /\ ownParses \in BOOLEAN
  BY DEF Inv, TypeOK, Queues
<1>3. Len(queue) \in Nat BY <1>2, QueueIs
<1>4. CASE UNCHANGED info
  <2>1. UNCHANGED <<previousSessionInfoOverride_, sessionInfoBuf_, sessionInfo_>>
    BY <1>4 DEF info
  <2>2. /\ Parses(sessionInfoBuf_)' = Parses(sessionInfoBuf_)
        /\ Parses(sessionInfo_)' = Parses(sessionInfo_)
    BY <1>1, <2>1 DEF Parses
  <2>3. TextOfMessage' BY <1>1, <2>1, <2>2 DEF Inv, TextOfMessage
  <2> QED BY <1>1, <2>1, <2>3 DEF Inv, TypeOK, TextInv, hasSessionInfoFileOverride, Texts
<1>5. ASSUME NEW t \in Texts, Load(t)
      PROVE  /\ sessionInfoBuf_' = t
             /\ sessionInfoBuf_' \in Texts' /\ sessionInfo_' \in (Texts \cup {None})'
  <2>1. sessionInfoBuf_' = t /\ sessionInfo_' = IF Parses(t) THEN t ELSE sessionInfo_
    BY <1>5 DEF Load
  <2>2. Texts' = Texts BY <1>1 DEF Texts
  <2>3. sessionInfo_ \in Texts \cup {None} BY DEF Inv, TypeOK
  <2> QED BY <2>1, <2>2, <2>3
<1>6. CASE UseOverride
  <2>1. queue # <<>> /\ previousSessionInfoOverride_' = Found /\ Load(Found)
    BY <1>6 DEF UseOverride, hasSessionInfoFileOverride
  <2>2. Found \in 1 .. Len(queue) /\ Found \in Texts
    BY <1>2, <1>3, <2>1, FoundType DEF Texts
  <2>3. Found # None BY <2>2, Constants
  <2>4. /\ sessionInfoBuf_' = Found
        /\ sessionInfoBuf_' \in Texts' /\ sessionInfo_' \in (Texts \cup {None})'
    BY <1>5, <2>1, <2>2
  <2>5. TextInv' BY <2>1, <2>3, <2>4 DEF TextInv
  <2>6. TypeOK' BY <1>1, <2>1, <2>2, <2>4 DEF Inv, TypeOK
  <2> QED BY <1>1, <1>6, <2>5, <2>6, TakenIsLater
<1>7. CASE UseOwnText
  <2>1. queue = <<>> /\ Load(0) /\ UNCHANGED previousSessionInfoOverride_
    BY <1>7 DEF UseOwnText, hasSessionInfoFileOverride
  <2>2. 0 \in Texts BY <1>3 DEF Texts
  <2>3. sessionInfoBuf_' \in Texts' /\ sessionInfo_' \in (Texts \cup {None})'
    BY <1>5, <2>1, <2>2
  <2>4. TextInv' BY <1>1, <2>1 DEF TextInv, hasSessionInfoFileOverride
  <2>5. TypeOK' BY <1>1, <2>1, <2>3 DEF Inv, TypeOK
  <2> QED BY <1>1, <1>7, <2>4, <2>5, OwnAgain
<1> QED BY <1>4, <1>6, <1>7 DEF updateSessionInfo

(* An update takes the override that is due at its sample, unless one due  *)
(* at a later sample was taken.                                            *)
LEMMA UpdateTakes ==
  ASSUME Inv, NEW only \in BOOLEAN, updateSessionInfo(only)
  PROVE  PlaceInv'
<1> DEFINE previous == previousSessionInfoOverride_
<1>1. /\ UNCHANGED <<queue, ownParses, tick, isAvailable>>
      /\ furthest' = IF tick = NoTick \/ Unsigned(tick) <= furthest THEN furthest
                      ELSE Unsigned(tick)
      /\ furthest \in Nat /\ furthest' \in Nat
  BY UpdateKeeps, Constants DEF Inv
<1>2. queue \in Queues /\ tick \in Ticks \cup {-1, NoTick} /\ tick \in Int
  BY TickIs DEF Inv, TypeOK, Queues
<1>3. /\ Sorted' <=> Sorted
      /\ Due(furthest)' = Due(furthest')
      /\ hasSessionInfoFileOverride' <=> hasSessionInfoFileOverride
  BY <1>1 DEF Sorted, Due, Unsigned, hasSessionInfoFileOverride
<1> SUFFICES ASSUME queue # <<>>, Sorted
             PROVE  previous' = Due(furthest')
  BY <1>3 DEF PlaceInv, hasSessionInfoFileOverride
<1>4. Len(queue) \in Nat /\ DOMAIN queue = 1 .. Len(queue) BY <1>2, QueueIs
<1>5. previous = Due(furthest) /\ previous \in 1 .. Len(queue)
  BY DEF Inv, TypeOK, TextInv, PlaceInv, hasSessionInfoFileOverride
<1>6. Found = Due(tick) /\ Due(tick) \in 1 .. Len(queue) /\ Unsigned(tick) \in Nat
  BY <1>2, FoundIsDue, DueIs DEF Found
<1>7. /\ Unsigned(furthest) = furthest /\ Unsigned(Unsigned(tick)) = Unsigned(tick)
      /\ Due(Unsigned(tick)) = Due(tick)
  <2>1. /\ Unsigned(furthest) = furthest /\ Unsigned(Unsigned(tick)) = Unsigned(tick)
    BY <1>1, <1>6 DEF Unsigned
  <2>2. Due(Unsigned(tick)) = Due(tick) BY <2>1, Zenon DEF Due
  <2> QED BY <2>1, <2>2
<1>8. /\ Unsigned(tick) <= furthest => Due(tick) <= previous
      /\ furthest <= Unsigned(tick) => previous <= Due(tick)
  <2>1. furthest \in Int /\ Due(furthest) = previous BY <1>1, <1>5
  <2> HIDE DEF previous
  <2>2. Unsigned(tick) <= furthest => Due(tick) <= Due(furthest)
    BY <1>2, <1>7, <2>1, DueGrows
  <2>3. furthest <= Unsigned(tick) => Due(furthest) <= Due(tick)
    BY <1>2, <1>7, <2>1, DueGrows
  <2> QED BY <2>1, <2>2, <2>3
<1>9. /\ queue[Due(tick)].tick \in Nat /\ queue[previous].tick \in Nat
      /\ Due(tick) < previous => queue[Due(tick)].tick < queue[previous].tick
      /\ previous < Due(tick) => queue[previous].tick < queue[Due(tick)].tick
  <2>1. /\ queue[Due(tick)].tick \in Nat /\ queue[previous].tick \in Nat
    <3>1. MaxTick \in Nat BY Constants
    <3> QED BY <1>2, <1>5, <1>6, <3>1, QueueIs DEF Ticks
  <2> QED BY <1>4, <1>5, <1>6, <2>1 DEF Sorted
<1> HIDE DEF previous
<1>10. CASE UseOverride
  <2>1. previous' = Due(tick) /\ tick # NoTick /\ ~IsPrevious
    BY <1>6, <1>10 DEF UseOverride, previous
  <2>2. ~(queue[Due(tick)].tick <= queue[previous].tick)
    <3>1. previous # None BY <1>4, <1>5, Constants
    <3> QED BY <1>6, <2>1, <3>1 DEF IsPrevious, previous
  <2>3. ~(Due(tick) <= previous)
    <3>1. Due(tick) = previous => queue[Due(tick)].tick = queue[previous].tick OBVIOUS
    <3> QED BY <1>4, <1>5, <1>6, <1>9, <2>2, <3>1
  <2>4. furthest' = Unsigned(tick) BY <1>1, <1>6, <1>8, <2>1, <2>3
  <2> QED BY <1>7, <2>1, <2>4
<1>11. CASE IsPrevious /\ UNCHANGED info /\ tick # NoTick
  <2>1. queue[Due(tick)].tick <= queue[previous].tick
    BY <1>6, <1>11 DEF IsPrevious, previous
  <2>2. Due(tick) <= previous BY <1>4, <1>5, <1>6, <1>9, <2>1
  <2>3. previous' = previous BY <1>11 DEF info, previous
  <2>4. CASE Unsigned(tick) <= furthest BY <1>1, <1>5, <2>3, <2>4
  <2>5. CASE ~(Unsigned(tick) <= furthest)
    <3>1. furthest' = Unsigned(tick) /\ furthest <= Unsigned(tick)
      BY <1>1, <1>6, <1>11, <2>5
    <3>2. Due(tick) = previous BY <1>4, <1>5, <1>6, <1>8, <2>2, <3>1
    <3> QED BY <1>7, <2>3, <3>1, <3>2
  <2> QED BY <2>4, <2>5
<1>12. CASE tick = NoTick /\ UNCHANGED info
  <2>1. previous' = previous BY <1>12 DEF info, previous
  <2> QED BY <1>1, <1>5, <1>12, <2>1
<1> QED BY <1>10, <1>11, <1>12
    DEF updateSessionInfo, UseOwnText, Skip, hasSessionInfoFileOverride

LEMMA Preserved == Inv /\ [Next]_vars => Inv'
<1> SUFFICES ASSUME Inv, [Next]_vars PROVE Inv'
  OBVIOUS
<1>1. ASSUME UNCHANGED <<queue, ownParses, info, furthest>>,
             tick' \in Ticks \cup {-1, NoTick}, isAvailable' \in BOOLEAN,
             isAvailable' => isAvailable
      PROVE  Inv'
  <2>1. UNCHANGED <<previousSessionInfoOverride_, sessionInfoBuf_, sessionInfo_>>
    BY <1>1 DEF info
  <2>2. /\ Parses(sessionInfoBuf_)' = Parses(sessionInfoBuf_)
        /\ Parses(sessionInfo_)' = Parses(sessionInfo_)
    BY <1>1, <2>1 DEF Parses
  <2>3. TextOfMessage' BY <1>1, <2>1, <2>2 DEF Inv, TextOfMessage
  <2>4. TextInv' BY <1>1, <2>1 DEF Inv, TextInv, hasSessionInfoFileOverride
  <2>5. Texts' = Texts /\ Due(furthest)' = Due(furthest) /\ (Sorted' <=> Sorted)
    BY <1>1 DEF Texts, Due, Unsigned, Sorted
  <2>6. TypeOK' BY <1>1, <2>1, <2>5 DEF Inv, TypeOK
  <2>7. PlaceInv' BY <1>1, <2>1, <2>5 DEF Inv, PlaceInv, hasSessionInfoFileOverride
  <2> QED BY <2>3, <2>4, <2>6, <2>7 DEF Inv
<1>2. isAvailable \in BOOLEAN /\ tick \in Ticks \cup {-1, NoTick} BY DEF Inv, TypeOK
<1>3. CASE Move BY <1>1, <1>2, <1>3 DEF Move, recording
<1>4. CASE close
  <2>1. isAvailable' = FALSE /\ UNCHANGED <<queue, ownParses, tick, info, furthest>>
    BY <1>4 DEF close, recording
  <2>2. isAvailable' \in BOOLEAN BY <2>1
  <2>3. ~isAvailable' BY <2>1
  <2>4. tick' \in Ticks \cup {-1, NoTick} BY <1>2, <2>1
  <2>5. isAvailable' => isAvailable BY <2>3
  <2>6. UNCHANGED <<queue, ownParses, info, furthest>> BY <2>1
  <2> QED BY <1>1, <2>2, <2>4, <2>5, <2>6
<1>5. CASE \E only \in BOOLEAN : updateSessionInfo(only)
  BY <1>5, UpdateIs, UpdateTakes DEF Inv
<1>6. CASE UNCHANGED vars BY <1>1, <1>2, <1>6 DEF vars, recording
<1> QED BY <1>3, <1>4, <1>5, <1>6 DEF Next

-----------------------------------------------------------------------------
(* The inductive invariant holds throughout.                               *)
THEOREM Invariance == Spec => []Inv
<1>1. Init => Inv BY Initially
<1>2. Inv /\ [Next]_vars => Inv' BY Preserved
<1> QED BY <1>1, <1>2, PTL DEF Spec

(* Every variable keeps its type; in particular findSessionInfoFileOverride *)
(* finds an entry of the queue whatever the order of the directory.        *)
THEOREM TypeCorrect == Spec => []TypeOK
<1>1. Inv => TypeOK BY DEF Inv
<1> QED BY <1>1, Invariance, PTL

(* The text and the message handed out are of the same override, but for a *)
(* text that did not parse, which has an earlier message beside it.        *)
THEOREM TextHolds == Spec => []TextOfMessage
<1>1. Inv => TextOfMessage BY DEF Inv
<1> QED BY <1>1, Invariance, PTL

(* Over a sorted directory, however playback is moved, the session info is *)
(* that of the furthest sample updateSessionInfo was called at.            *)
THEOREM InForceHolds == Spec => []InForce
<1>1. Inv => InForce
  <2> SUFFICES ASSUME Inv, hasSessionInfoFileOverride, Sorted
               PROVE  /\ sessionInfoBuf_ = Due(furthest)
                      /\ Parses(Due(furthest)) => sessionInfo_ = Due(furthest)
    BY DEF InForce
  <2>1. sessionInfoBuf_ = Due(furthest) BY DEF Inv, PlaceInv, TextInv
  <2> QED BY <2>1 DEF Inv, TextOfMessage
<1> QED BY <1>1, Invariance, PTL

-----------------------------------------------------------------------------
(* SessionMessage.  The structs of ModelParser.h and what holds what.      *)

Names == DOMAIN Converters

(* The fields of a struct that hold a struct or a list of structs.         *)
Parts(c) == {f \in Read(c) : IsPart(f)}

PartsOf ==
    [SessionInfoMessage |-> {"WeekendInfo", "SessionInfo", "QualifyResultsInfo", "CameraInfo",
                             "RadioInfo", "DriverInfo", "SplitTimeInfo"},
     WeekendInfo |-> {"WeekendOptions", "TelemetryOptions"},
     SessionInfo |-> {"Sessions"}, QualifyResultsInfo |-> {"Results"},
     CameraInfo |-> {"Groups"}, Group |-> {"Cameras"},
     RadioInfo |-> {"Radios"}, Radio |-> {"Frequencies"},
     DriverInfo |-> {"Drivers"}, SplitTimeInfo |-> {"Sectors"},
     CarSetup |-> {"TiresAero", "Chassis", "BrakesDriveUnit"},
     TiresAero |-> {"LeftFrontTire", "LeftRearTire", "RightFrontTire", "RightRearTire",
                    "AeroSettings"},
     Chassis |-> {"Front", "LeftFront", "LeftRear", "RightFront", "RightRear", "Rear"},
     BrakesDriveUnit |-> {"BrakeSpec", "Fuel", "Engine", "GearRatios"}]

(* A struct is of a higher rank than those it holds.                       *)
Rank(c) ==
    IF c = "SessionInfoMessage" THEN 3
    ELSE IF c \in {"CameraInfo", "RadioInfo", "CarSetup"} THEN 2
    ELSE IF c \in DOMAIN PartsOf THEN 1 ELSE 0

LEMMA PartNames ==
  /\ DOMAIN Lists = {"Sessions", "Results", "Groups", "Cameras", "Radios", "Frequencies",
                     "Drivers", "Sectors"}
  /\ DOMAIN Structs =
       {"WeekendInfo", "SessionInfo", "QualifyResultsInfo", "CameraInfo", "RadioInfo",
        "DriverInfo", "SplitTimeInfo", "WeekendOptions", "TelemetryOptions", "TiresAero",
        "Chassis", "BrakesDriveUnit", "LeftFrontTire", "LeftRearTire", "RightFrontTire",
        "RightRearTire", "AeroSettings", "Front", "LeftFront", "LeftRear", "RightFront",
        "RightRear", "Rear", "BrakeSpec", "Fuel", "Engine", "GearRatios"}
BY DEF Lists, Structs

(* One struct: its parts are those of PartsOf; no part is left unread; a   *)
(* list has no default.                                                    *)
FieldsOf(c) ==
    /\ Parts(c) = IF c \in DOMAIN PartsOf THEN PartsOf[c] ELSE {}
    /\ \A f \in Converters[c].unread : f \notin Read(c) /\ ~IsPart(f)
    /\ Parts(c) \cap DOMAIN Lists \subseteq Converters[c].need

LEMMA SchemaFields == \A c \in Names : FieldsOf(c)
<1> USE PartNames DEF FieldsOf, Parts, Read, IsPart, PartsOf, Converters, Converter
<1>1. FieldsOf("SessionInfoMessage") BY DEF SessionInfoMessage
<1>2. FieldsOf("WeekendInfo") BY DEF WeekendInfo
<1>3. FieldsOf("WeekendOptions") BY DEF WeekendOptions
<1>4. FieldsOf("TelemetryOptions") BY DEF TelemetryOptions
<1>5. FieldsOf("SessionInfo") BY DEF SessionInfo
<1>6. FieldsOf("Session") BY DEF Session
<1>7. FieldsOf("QualifyResultsInfo") BY DEF QualifyResultsInfo
<1>8. FieldsOf("SessionResult") BY DEF SessionResult
<1>9. FieldsOf("CameraInfo") BY DEF CameraInfo
<1>10. FieldsOf("Group") BY DEF Group
<1>11. FieldsOf("Camera") BY DEF Camera
<1>12. FieldsOf("RadioInfo") BY DEF RadioInfo
<1>13. FieldsOf("Radio") BY DEF Radio
<1>14. FieldsOf("Frequency") BY DEF Frequency
<1>15. FieldsOf("DriverInfo") BY DEF DriverInfo
<1>16. FieldsOf("Driver") BY DEF Driver
<1>17. FieldsOf("SplitTimeInfo") BY DEF SplitTimeInfo
<1>18. FieldsOf("Sector") BY DEF Sector
<1>19. FieldsOf("CarSetup") BY DEF CarSetup
<1>20. FieldsOf("TiresAero") BY DEF TiresAero
<1>21. FieldsOf("Tire") BY DEF Tire
<1>22. FieldsOf("AeroSettings") BY DEF AeroSettings
<1>23. FieldsOf("Chassis") BY DEF Chassis
<1>24. FieldsOf("Front") BY DEF FrontEnd
<1>25. FieldsOf("ChassisCorner") BY DEF ChassisCorner
<1>26. FieldsOf("Rear") BY DEF Rear
<1>27. FieldsOf("BrakesDriveUnit") BY DEF BrakesDriveUnit
<1>28. FieldsOf("BrakeSpec") BY DEF BrakeSpec
<1>29. FieldsOf("Fuel") BY DEF Fuel
<1>30. FieldsOf("Engine") BY DEF Engine
<1>31. FieldsOf("GearRatio") BY DEF GearRatio
<1>32. Names =
         {"SessionInfoMessage", "WeekendInfo", "WeekendOptions", "TelemetryOptions",
          "SessionInfo", "Session", "QualifyResultsInfo", "SessionResult", "CameraInfo", "Group",
          "Camera", "RadioInfo", "Radio", "Frequency", "DriverInfo", "Driver", "SplitTimeInfo",
          "Sector", "CarSetup", "TiresAero", "Tire", "AeroSettings", "Chassis", "Front",
          "ChassisCorner", "Rear", "BrakesDriveUnit", "BrakeSpec", "Fuel", "Engine", "GearRatio"}
  BY DEF Names, Converters
<1> HIDE DEF FieldsOf, Parts, Read, IsPart, PartsOf, Converters, Converter
<1> QED
  BY <1>1, <1>2, <1>3, <1>4, <1>5, <1>6, <1>7, <1>8, <1>9, <1>10, <1>11, <1>12, <1>13, <1>14,
     <1>15, <1>16, <1>17, <1>18, <1>19, <1>20, <1>21, <1>22, <1>23, <1>24, <1>25, <1>26,
     <1>27, <1>28, <1>29, <1>30, <1>31, <1>32

LEMMA PartRank ==
  ASSUME NEW c \in Names, NEW f \in Parts(c)
  PROVE  /\ f \in Read(c) /\ IsPart(f)
         /\ PartOf(f) \in Names /\ Rank(PartOf(f)) < Rank(c) /\ Rank(c) \in 0 .. 3
<1>1. f \in Read(c) /\ IsPart(f) BY DEF Parts
<1>2. c \in DOMAIN PartsOf /\ f \in PartsOf[c] BY SchemaFields DEF FieldsOf
<1>3. PartOf(f) \in Names /\ Rank(PartOf(f)) < Rank(c) /\ Rank(c) \in 0 .. 3
  BY <1>2 DEF PartsOf, PartOf, Lists, Structs, Rank, Names, Converters
<1> QED BY <1>1, <1>3

(* Only the tires and the corners of a car are held more than once.        *)
LEMMA Shared ==
  ASSUME NEW c \in Names, NEW f \in Parts(c), NEW d \in Names, NEW g \in Parts(d),
         PartOf(f) = PartOf(g), <<c, f>> # <<d, g>>
  PROVE  \/ c = "TiresAero" /\ d = "TiresAero" /\ PartOf(f) = "Tire"
         \/ c = "Chassis" /\ d = "Chassis" /\ PartOf(f) = "ChassisCorner"
<1>2. c \in DOMAIN PartsOf /\ f \in PartsOf[c] BY SchemaFields DEF FieldsOf
<1>3. d \in DOMAIN PartsOf /\ g \in PartsOf[d] BY SchemaFields DEF FieldsOf
<1> QED BY <1>2, <1>3 DEF PartsOf, PartOf, Lists, Structs

(* A tire cannot be missing; a corner holds plain fields with defaults.    *)
LEMMA TiresAndCorners ==
  /\ \A f \in Parts("TiresAero") :
       PartOf(f) = "Tire" => f \in DOMAIN Structs /\ f \in Converters["TiresAero"].need
  /\ Converters["Tire"].need # {}
  /\ Parts("ChassisCorner") = {} /\ Converters["ChassisCorner"].need = {}
  /\ Converters["ChassisCorner"].unread = {}
<1>1. "TiresAero" \in Names /\ "ChassisCorner" \in Names BY DEF Names, Converters
<1>2. ASSUME NEW f \in Parts("TiresAero"), PartOf(f) = "Tire"
      PROVE  f \in DOMAIN Structs /\ f \in Converters["TiresAero"].need
  <2>1. f \in PartsOf["TiresAero"] BY <1>1, SchemaFields DEF FieldsOf, PartsOf
  <2> QED BY <2>1 DEF PartsOf, Structs, Converters, Converter, TiresAero
<1>3. Converters["Tire"].need # {} BY DEF Converters, Converter, Tire
<1>4. Parts("ChassisCorner") = {} BY <1>1, SchemaFields DEF FieldsOf, PartsOf
<1>5. Converters["ChassisCorner"].need = {} /\ Converters["ChassisCorner"].unread = {}
  BY DEF Converters, Converter, ChassisCorner
<1> QED BY <1>2, <1>3, <1>4, <1>5

(* A struct that can be read from nothing is one of plain fields.          *)
LEMMA EmptyStructs ==
  ASSUME NEW c \in Names, NEW f \in Parts(c), f \in DOMAIN Structs,
         Converters[Structs[f]].need = {}
  PROVE  Parts(Structs[f]) = {} /\ Converters[Structs[f]].unread = {}
<1>1. c \in DOMAIN PartsOf /\ f \in PartsOf[c] BY SchemaFields DEF FieldsOf
<1> DEFINE e == Structs[f]
<1>2. e \notin {"WeekendInfo", "SessionInfo", "QualifyResultsInfo", "CameraInfo", "RadioInfo",
                "DriverInfo", "SplitTimeInfo", "TiresAero", "Chassis", "BrakesDriveUnit"}
  <2> SUFFICES ASSUME e \in {"WeekendInfo", "SessionInfo", "QualifyResultsInfo", "CameraInfo",
                  "RadioInfo", "DriverInfo", "SplitTimeInfo", "TiresAero", "Chassis",
                  "BrakesDriveUnit"}
               PROVE  FALSE
    OBVIOUS
  <2>1. Converters["WeekendInfo"].need # {} BY DEF Converters, Converter, WeekendInfo
  <2>2. Converters["SessionInfo"].need # {} BY DEF Converters, Converter, SessionInfo
  <2>3. Converters["QualifyResultsInfo"].need # {} BY DEF Converters, Converter, QualifyResultsInfo
  <2>4. Converters["CameraInfo"].need # {} BY DEF Converters, Converter, CameraInfo
  <2>5. Converters["RadioInfo"].need # {} BY DEF Converters, Converter, RadioInfo
  <2>6. Converters["DriverInfo"].need # {} BY DEF Converters, Converter, DriverInfo
  <2>7. Converters["SplitTimeInfo"].need # {} BY DEF Converters, Converter, SplitTimeInfo
  <2>8. Converters["TiresAero"].need # {} BY DEF Converters, Converter, TiresAero
  <2>9. Converters["Chassis"].need # {} BY DEF Converters, Converter, Chassis
  <2>10. Converters["BrakesDriveUnit"].need # {} BY DEF Converters, Converter, BrakesDriveUnit
  <2> QED BY <2>1, <2>2, <2>3, <2>4, <2>5, <2>6, <2>7, <2>8, <2>9, <2>10
<1>3. e \in {"WeekendOptions", "TelemetryOptions", "Tire", "AeroSettings", "Front",
             "ChassisCorner", "Rear", "BrakeSpec", "Fuel", "Engine", "GearRatio"}
  BY <1>1, <1>2 DEF PartsOf, Structs
<1>4. Converters[e].unread = {}
  BY <1>3 DEF Converters, Converter, WeekendOptions, TelemetryOptions, Tire, AeroSettings,
              FrontEnd, ChassisCorner, Rear, BrakeSpec, Fuel, Engine, GearRatio
<1>5. e \in Names /\ e \notin DOMAIN PartsOf BY <1>3 DEF Names, Converters, PartsOf
<1>6. Parts(e) = {} BY <1>5, SchemaFields DEF FieldsOf
<1> QED BY <1>4, <1>6

LEMMA ListsAndStructs ==
  /\ DOMAIN Lists \cap DOMAIN Structs = {}
  /\ \A f \in DOMAIN Structs : PartOf(f) = Structs[f]
BY PartNames DEF PartOf

Roots == {"SessionInfoMessage", "CarSetup"}

LEMMA RootFields ==
  /\ Roots \subseteq Names
  /\ \A c \in Names : \A f \in Parts(c) : PartOf(f) \notin Roots
  /\ \A r \in Roots : Converters[r].unread = {}
<1>1. Roots \subseteq Names BY DEF Roots, Names, Converters
<1>2. ASSUME NEW c \in Names, NEW f \in Parts(c) PROVE PartOf(f) \notin Roots
  <2>1. c \in DOMAIN PartsOf /\ f \in PartsOf[c] BY SchemaFields DEF FieldsOf
  <2> QED BY <2>1 DEF PartsOf, PartOf, Lists, Structs, Roots
<1>3. \A r \in Roots : Converters[r].unread = {}
  BY DEF Roots, Converters, Converter, SessionInfoMessage, CarSetup
<1> QED BY <1>1, <1>2, <1>3

(* The sections that decode goes through are the fields of the root.       *)
LEMMA SectionsAreFields ==
  ASSUME Root \in Roots
  PROVE  /\ Len(Sections) \in {4, 7}
         /\ Read(Root) = {Sections[i] : i \in 1 .. Len(Sections)}
<1>1. CASE holder = "Application"
  <2>1. Sections = <<"UpdateCount", "TiresAero", "Chassis", "BrakesDriveUnit">>
    BY <1>1 DEF Sections
  <2>2. Root = "CarSetup" BY <1>1 DEF Root
  <2>3. Read("CarSetup") = {"UpdateCount", "TiresAero", "Chassis", "BrakesDriveUnit"}
    BY DEF Read, Converters, Converter, CarSetup
  <2>4. Len(Sections) = 4 BY <2>1
  <2>5. {Sections[i] : i \in 1 .. Len(Sections)}
          = {"UpdateCount", "TiresAero", "Chassis", "BrakesDriveUnit"}
    BY <2>1
  <2> QED BY <2>2, <2>3, <2>4, <2>5
<1>2. CASE holder # "Application"
  <2>1. Sections = <<"WeekendInfo", "SessionInfo", "QualifyResultsInfo", "CameraInfo",
                     "RadioInfo", "DriverInfo", "SplitTimeInfo">>
    BY <1>2 DEF Sections
  <2>2. Root = "SessionInfoMessage" BY <1>2 DEF Root
  <2>3. Read("SessionInfoMessage") = {"WeekendInfo", "SessionInfo", "QualifyResultsInfo",
                     "CameraInfo", "RadioInfo", "DriverInfo", "SplitTimeInfo"}
    BY DEF Read, Converters, Converter, SessionInfoMessage
  <2>4. Len(Sections) = 7 BY <2>1
  <2>5. {Sections[i] : i \in 1 .. Len(Sections)}
          = {"WeekendInfo", "SessionInfo", "QualifyResultsInfo", "CameraInfo",
             "RadioInfo", "DriverInfo", "SplitTimeInfo"}
    BY <2>1
  <2> QED BY <2>2, <2>3, <2>4, <2>5
<1> QED BY <1>1, <1>2
-----------------------------------------------------------------------------
(* Recursion over the structs.                                             *)

(* A table with one step of table s for each x, when every x is computed   *)
(* from some of a lower rank.                                              *)
TableOf(F, S, s) == \A x \in S : F[x] = s[<<x, F>>]

(* Everything that is used has a lower rank.                               *)
Descends(S, uses, rank) ==
    /\ uses \in [S -> SUBSET S] /\ rank \in [S -> 0 .. 3]
    /\ \A x \in S : \A y \in uses[x] : rank[y] < rank[x]

(* A step looks at nothing but what it uses.                               *)
LooksAt(S, V, uses, s) ==
    \A x \in S : \A g, h \in [S -> V] :
      (\A y \in uses[x] : g[y] = h[y]) => s[<<x, g>>] = s[<<x, h>>]

LEMMA TableExists ==
  ASSUME NEW S, NEW V, V # {}, NEW uses, NEW rank, Descends(S, uses, rank),
         NEW s \in [S \X [S -> V] -> V], LooksAt(S, V, uses, s)
  PROVE  \E F \in [S -> V] : TableOf(F, S, s)
<1> USE DEF Descends, LooksAt
<1> DEFINE Next1(g) == [x \in S |-> s[<<x, g>>]]
<1>1. ASSUME NEW g \in [S -> V] PROVE Next1(g) \in [S -> V] OBVIOUS
<1>2. PICK v \in V : TRUE OBVIOUS
<1> DEFINE g0 == [x \in S |-> v]
           g1 == Next1(g0)
           g2 == Next1(g1)
           g3 == Next1(g2)
           g4 == Next1(g3)
           g5 == Next1(g4)
<1>3. g0 \in [S -> V] OBVIOUS
<1>4. g1 \in [S -> V] BY <1>1, <1>3
<1>5. g2 \in [S -> V] BY <1>1, <1>4
<1>6. g3 \in [S -> V] BY <1>1, <1>5
<1>7. g4 \in [S -> V] BY <1>1, <1>6
<1> DEFINE Agree(g, h, k) == \A x \in S : rank[x] < k => g[x] = h[x]
<1>8. ASSUME NEW k \in 0 .. 3, NEW m \in 1 .. 4, m = k + 1,
             NEW g \in [S -> V], NEW h \in [S -> V], Agree(g, h, k)
      PROVE  Agree(Next1(g), Next1(h), m)
  <2> SUFFICES ASSUME NEW x \in S, rank[x] < m PROVE s[<<x, g>>] = s[<<x, h>>]
    OBVIOUS
  <2>1. rank[x] <= k
    <3>1. rank[x] \in 0 .. 3 OBVIOUS
    <3> QED BY <1>8, <3>1
  <2>2. ASSUME NEW y \in uses[x] PROVE g[y] = h[y]
    <3>1. y \in S OBVIOUS
    <3>2. rank[y] \in 0 .. 3 /\ rank[x] \in 0 .. 3 BY <3>1
    <3>3. rank[y] < k BY <2>1, <3>2
    <3> QED BY <1>8, <3>1, <3>3
  <2> QED BY <2>2
<1>9. Agree(g0, g1, 0)
  <2> SUFFICES ASSUME NEW x \in S, rank[x] < 0 PROVE FALSE OBVIOUS
  <2>1. rank[x] \in 0 .. 3 OBVIOUS
  <2> QED BY <2>1
<1> HIDE DEF Agree, Next1, g0
<1>10. Agree(g1, g2, 1) BY <1>3, <1>4, <1>8, <1>9
<1>11. Agree(g2, g3, 2) BY <1>4, <1>5, <1>8, <1>10
<1>12. Agree(g3, g4, 3) BY <1>5, <1>6, <1>8, <1>11
<1>13. Agree(g4, g5, 4) BY <1>6, <1>7, <1>8, <1>12
<1> HIDE DEF g4
<1>14. \A x \in S : g4[x] = g5[x]
  <2> SUFFICES ASSUME NEW x \in S PROVE g4[x] = g5[x] OBVIOUS
  <2>1. rank[x] < 4
    <3>1. rank[x] \in 0 .. 3 OBVIOUS
    <3> QED BY <3>1
  <2> QED BY <1>13, <2>1 DEF Agree
<1>15. \A x \in S : g4[x] = s[<<x, g4>>] BY <1>14 DEF Next1
<1> QED BY <1>7, <1>15 DEF TableOf

(* What is in T when all that it uses is.                                  *)
Inductive(S, uses, T) == \A x \in S : uses[x] \subseteq T => x \in T

(* What holds of a struct when it holds of those it uses holds of all.     *)
LEMMA RankInduction ==
  ASSUME NEW S, NEW uses, NEW rank, Descends(S, uses, rank),
         NEW T \in SUBSET S, Inductive(S, uses, T)
  PROVE  T = S
<1> USE DEF Descends, Inductive
<1>1. \A x \in S : rank[x] \in 0 .. 3 OBVIOUS
<1>2. ASSUME NEW k \in 0 .. 3, \A x \in S : rank[x] < k => x \in T
      PROVE  \A x \in S : rank[x] < k + 1 => x \in T
  <2> SUFFICES ASSUME NEW x \in S, rank[x] < k + 1 PROVE x \in T OBVIOUS
  <2>1. ASSUME NEW y \in uses[x] PROVE y \in T
    <3>1. y \in S /\ rank[y] < rank[x] OBVIOUS
    <3>2. rank[y] \in 0 .. 3 /\ rank[x] \in 0 .. 3 BY <1>1, <3>1
    <3>3. rank[y] < k BY <3>1, <3>2
    <3> QED BY <1>2, <3>1, <3>3
  <2> QED BY <2>1
<1>3. \A x \in S : rank[x] < 0 => x \in T
  <2> SUFFICES ASSUME NEW x \in S, rank[x] < 0 PROVE FALSE OBVIOUS
  <2> QED BY <1>1
<1>4. \A x \in S : rank[x] < 1 => x \in T BY <1>2, <1>3
<1>5. \A x \in S : rank[x] < 2 => x \in T BY <1>2, <1>4
<1>6. \A x \in S : rank[x] < 3 => x \in T BY <1>2, <1>5
<1>7. \A x \in S : rank[x] < 4 => x \in T BY <1>2, <1>6
<1>8. \A x \in S : rank[x] < 4
  <2> SUFFICES ASSUME NEW x \in S PROVE rank[x] < 4 OBVIOUS
  <2> QED BY <1>1
<1> QED BY <1>7, <1>8

-----------------------------------------------------------------------------
(* What is below and what is above a struct.                               *)

HeldBy == [c \in Names |-> {PartOf(f) : f \in Parts(c)}]
Ranks == [c \in Names |-> Rank(c)]

LEMMA HeldRanks == Descends(Names, HeldBy, Ranks)
<1>1. ASSUME NEW c \in Names, NEW f \in Parts(c) PROVE PartOf(f) \in Names BY PartRank
<1>2. \A c \in Names : Rank(c) \in 0 .. 3 BY DEF Rank
<1>3. ASSUME NEW c \in Names, NEW e \in HeldBy[c] PROVE Ranks[e] < Ranks[c]
  <2>1. PICK f \in Parts(c) : e = PartOf(f) BY DEF HeldBy
  <2>2. Rank(e) < Rank(c) /\ e \in Names BY <2>1, PartRank
  <2> QED BY <2>2 DEF Ranks
<1> QED BY <1>1, <1>2, <1>3 DEF HeldBy, Ranks, Descends

HoldersOf == [e \in Names |-> {c \in Names : \E f \in Parts(c) : PartOf(f) = e}]
Depths == [c \in Names |-> 3 - Rank(c)]

LEMMA HolderDepths == Descends(Names, HoldersOf, Depths)
<1>1. \A c \in Names : Rank(c) \in 0 .. 3 BY DEF Rank
<1>2. \A c \in Names : 3 - Rank(c) \in 0 .. 3
  <2> SUFFICES ASSUME NEW c \in Names PROVE 3 - Rank(c) \in 0 .. 3 OBVIOUS
  <2>1. Rank(c) \in 0 .. 3 BY <1>1
  <2> QED BY <2>1
<1>3. ASSUME NEW e \in Names, NEW c \in HoldersOf[e] PROVE Depths[c] < Depths[e]
  <2>1. PICK f \in Parts(c) : PartOf(f) = e BY DEF HoldersOf
  <2>2. c \in Names BY DEF HoldersOf
  <2>3. Rank(e) < Rank(c) BY <2>1, <2>2, PartRank
  <2>4. Rank(e) \in 0 .. 3 /\ Rank(c) \in 0 .. 3 BY <1>1, <2>2
  <2>5. 3 - Rank(c) < 3 - Rank(e) BY <2>3, <2>4
  <2> QED BY <2>2, <2>5 DEF Depths
<1> QED BY <1>2, <1>3 DEF HoldersOf, Depths, Descends

LEMMA PlacesAre ==
  /\ \A c \in Names : \A f \in Written(c) : <<c, f>> \in AllPlaces
  /\ \A p \in AllPlaces : /\ p[1] \in Names /\ p[2] \in Written(p[1]) /\ p = <<p[1], p[2]>>
  /\ \A c \in Names : Read(c) \subseteq Written(c) /\ Parts(c) \subseteq Read(c)
BY DEF AllPlaces, PlacesOf, Names, Read, Written, Parts

LEMMA BelowEquation ==
  /\ Below \in [Names -> SUBSET AllPlaces]
  /\ \A c \in Names :
       Below[c] = {<<c, f>> : f \in Written(c) \ DOMAIN Structs}
                    \cup UNION {Below[PartOf(f)] : f \in Parts(c)}
<1> DEFINE V == SUBSET AllPlaces
           B(g, c) == {<<c, f>> : f \in Written(c) \ DOMAIN Structs}
                        \cup UNION {g[PartOf(f)] : f \in {h \in Read(c) : IsPart(h)}}
           s == [x \in Names \X [Names -> V] |-> B(x[2], x[1])]
<1>1. ASSUME NEW c \in Names, NEW g \in [Names -> V] PROVE B(g, c) \in V
  <2>1. \A f \in Parts(c) : g[PartOf(f)] \in V BY PartRank
  <2>2. UNION {g[PartOf(f)] : f \in {h \in Read(c) : IsPart(h)}} \subseteq AllPlaces
    BY <2>1 DEF Parts
  <2>3. {<<c, f>> : f \in Written(c) \ DOMAIN Structs} \subseteq AllPlaces BY PlacesAre
  <2> QED BY <2>2, <2>3
<1>2. s \in [Names \X [Names -> V] -> V]
  <2> SUFFICES ASSUME NEW x \in Names \X [Names -> V] PROVE B(x[2], x[1]) \in V OBVIOUS
  <2>1. x[1] \in Names /\ x[2] \in [Names -> V] OBVIOUS
  <2> HIDE DEF B, V
  <2> QED BY <1>1, <2>1
<1>3. ASSUME NEW c \in Names, NEW g \in [Names -> V], NEW h \in [Names -> V],
             \A e \in HeldBy[c] : g[e] = h[e]
      PROVE  s[<<c, g>>] = s[<<c, h>>]
  <2>1. \A f \in Parts(c) : PartOf(f) \in HeldBy[c] BY DEF HeldBy
  <2>2. \A f \in Parts(c) : g[PartOf(f)] = h[PartOf(f)] BY <1>3, <2>1
  <2>3. {g[PartOf(f)] : f \in {k \in Read(c) : IsPart(k)}}
          = {h[PartOf(f)] : f \in {k \in Read(c) : IsPart(k)}}
    BY <2>2 DEF Parts
  <2>4. B(g, c) = B(h, c) BY <2>3
  <2>5. <<c, g>> \in Names \X [Names -> V] /\ <<c, h>> \in Names \X [Names -> V] OBVIOUS
  <2> HIDE DEF B, V
  <2>6. s[<<c, g>>] = B(g, c) /\ s[<<c, h>>] = B(h, c) BY <2>5
  <2> QED BY <2>4, <2>6
<1>4. V # {} OBVIOUS
<1> HIDE DEF V
<1> HIDE DEF s
<1> HIDE DEF B
<1>a. LooksAt(Names, V, HeldBy, s) BY <1>3 DEF LooksAt
<1>5. PICK F \in [Names -> V] : TableOf(F, Names, s)
  BY <1>2, <1>4, <1>a, HeldRanks, TableExists
<1>6. F = [c \in Names |-> B(F, c)]
  <2>1. ASSUME NEW c \in Names PROVE F[c] = B(F, c)
    <3>1. F[c] = s[<<c, F>>] BY <1>5 DEF TableOf
    <3> HIDE DEF B
    <3>2. <<c, F>> \in Names \X [Names -> V] BY <1>5
    <3>3. s[<<c, F>>] = B(F, c) BY <3>2 DEF s
    <3> QED BY <3>1, <3>3
  <2> HIDE DEF B
  <2> QED BY <1>5, <2>1
<1> DEFINE Def(f) == [c \in Names |-> B(f, c)]
<1>7. Below = CHOOSE f : f = Def(f) BY DEF Below, Names, B
<1> HIDE DEF B
<1>8. F = Def(F) BY <1>6
<1> HIDE DEF Def
<1>9. Below = Def(Below) BY <1>7, <1>8
<1>10. \A c \in Names : Below[c] = B(Below, c) BY <1>9 DEF Def
<1>11. DOMAIN Below = Names /\ Below = [c \in Names |-> Below[c]] BY <1>9 DEF Def
<1> DEFINE T == {c \in Names : Below[c] \in V}
<1>12. ASSUME NEW c \in Names, HeldBy[c] \subseteq T PROVE c \in T
  <2>1. \A f \in Parts(c) : PartOf(f) \in HeldBy[c] BY DEF HeldBy
  <2>2. \A f \in Parts(c) : Below[PartOf(f)] \in V BY <1>12, <2>1
  <2>3. {<<c, f>> : f \in Written(c) \ DOMAIN Structs} \subseteq AllPlaces BY PlacesAre
  <2>4. Below[c] = B(Below, c) BY <1>10
  <2>5. B(Below, c) \subseteq AllPlaces BY <2>2, <2>3 DEF B, V, Parts
  <2> QED BY <2>4, <2>5 DEF V
<1>13. T = Names
  <2>1. Inductive(Names, HeldBy, T) BY <1>12 DEF Inductive
  <2>2. T \in SUBSET Names OBVIOUS
  <2> HIDE DEF T
  <2> QED BY <2>1, <2>2, HeldRanks, RankInduction
<1>14. Below \in [Names -> SUBSET AllPlaces] BY <1>11, <1>13 DEF V
<1> QED BY <1>10, <1>14 DEF B, Parts

(* The places that hold a struct.                                          *)
HoldPlaces(e) == {h[1] : h \in {g \in Holds : g[2] = e}}

LEMMA HoldPlacesAre ==
  ASSUME NEW e
  PROVE  /\ \A c \in Names : \A f \in Parts(c) : PartOf(f) = e => <<c, f>> \in HoldPlaces(e)
         /\ \A q \in HoldPlaces(e) :
              /\ q \in AllPlaces /\ q[1] \in Names /\ q[2] \in Parts(q[1])
              /\ q = <<q[1], q[2]>> /\ PartOf(q[2]) = e
<1>1. ASSUME NEW c \in Names, NEW f \in Parts(c), PartOf(f) = e
      PROVE  <<c, f>> \in HoldPlaces(e)
  <2>1. <<c, f>> \in AllPlaces /\ f \in Read(c) /\ IsPart(f) BY PlacesAre DEF Parts
  <2>2. <<<<c, f>>, PartOf(f)>> \in Holds BY <2>1 DEF Holds
  <2>3. <<<<c, f>>, PartOf(f)>> \in {g \in Holds : g[2] = e} BY <1>1, <2>2
  <2> QED BY <2>3 DEF HoldPlaces
<1>2. ASSUME NEW q \in HoldPlaces(e)
      PROVE  /\ q \in AllPlaces /\ q[1] \in Names /\ q[2] \in Parts(q[1])
             /\ q = <<q[1], q[2]>> /\ PartOf(q[2]) = e
  <2>1. PICK h \in Holds : h[2] = e /\ q = h[1] BY DEF HoldPlaces
  <2>2. PICK p \in AllPlaces : p[2] \in Read(p[1]) /\ IsPart(p[2]) /\ h = <<p, PartOf(p[2])>>
    BY <2>1 DEF Holds
  <2>3. q = p /\ PartOf(p[2]) = e BY <2>1, <2>2
  <2> QED BY <2>2, <2>3, PlacesAre DEF Parts
<1> QED BY <1>1, <1>2

LEMMA AboveEquation ==
  /\ Above \in [Names -> SUBSET AllPlaces]
  /\ \A e \in Names :
       Above[e] = HoldPlaces(e) \cup UNION {Above[q[1]] : q \in HoldPlaces(e)}
<1> DEFINE V == SUBSET AllPlaces
           B(g, e) == HoldPlaces(e) \cup UNION {g[q[1]] : q \in HoldPlaces(e)}
           s == [x \in Names \X [Names -> V] |-> B(x[2], x[1])]
<1>1. ASSUME NEW e \in Names, NEW q \in HoldPlaces(e)
      PROVE  q \in AllPlaces /\ q[1] \in Names /\ q[1] \in HoldersOf[e]
  <2>1. q[1] \in Names /\ q[2] \in Parts(q[1]) /\ PartOf(q[2]) = e /\ q \in AllPlaces
    BY HoldPlacesAre
  <2> QED BY <2>1 DEF HoldersOf
<1>2. ASSUME NEW e \in Names, NEW g, \A c \in HoldersOf[e] : g[c] \in V
      PROVE  B(g, e) \in V
  <2>1. \A q \in HoldPlaces(e) : g[q[1]] \subseteq AllPlaces BY <1>1, <1>2
  <2>2. HoldPlaces(e) \subseteq AllPlaces BY <1>1
  <2> QED BY <2>1, <2>2
<1>3. s \in [Names \X [Names -> V] -> V]
  <2> SUFFICES ASSUME NEW x \in Names \X [Names -> V] PROVE B(x[2], x[1]) \in V OBVIOUS
  <2>1. x[1] \in Names /\ x[2] \in [Names -> V] OBVIOUS
  <2>2. \A c \in HoldersOf[x[1]] : x[2][c] \in V BY <2>1 DEF HoldersOf
  <2> HIDE DEF B, V
  <2> QED BY <1>2, <2>1, <2>2
<1>4. ASSUME NEW e \in Names, NEW g \in [Names -> V], NEW h \in [Names -> V],
             \A c \in HoldersOf[e] : g[c] = h[c]
      PROVE  s[<<e, g>>] = s[<<e, h>>]
  <2>1. \A q \in HoldPlaces(e) : g[q[1]] = h[q[1]] BY <1>1, <1>4
  <2>2. B(g, e) = B(h, e) BY <2>1
  <2>3. <<e, g>> \in Names \X [Names -> V] /\ <<e, h>> \in Names \X [Names -> V] OBVIOUS
  <2> HIDE DEF B, V
  <2>4. s[<<e, g>>] = B(g, e) /\ s[<<e, h>>] = B(h, e) BY <2>3
  <2> QED BY <2>2, <2>4
<1>5. V # {} OBVIOUS
<1> HIDE DEF V, s, B
<1>6. LooksAt(Names, V, HoldersOf, s) BY <1>4 DEF LooksAt
<1>7. PICK F \in [Names -> V] : TableOf(F, Names, s)
  BY <1>3, <1>5, <1>6, HolderDepths, TableExists
<1> DEFINE Def(f) == [e \in Names |-> B(f, e)]
<1>8. F = Def(F)
  <2>1. ASSUME NEW e \in Names PROVE F[e] = B(F, e)
    <3>1. F[e] = s[<<e, F>>] BY <1>7 DEF TableOf
    <3>2. <<e, F>> \in Names \X [Names -> V] BY <1>7
    <3>3. s[<<e, F>>] = B(F, e) BY <3>2 DEF s
    <3> QED BY <3>1, <3>3
  <2> QED BY <1>7, <2>1
<1>9. Above = CHOOSE f : f = Def(f) BY DEF Above, Names, B, HoldPlaces
<1> HIDE DEF Def
<1>10. Above = Def(Above) BY <1>8, <1>9
<1>11. \A e \in Names : Above[e] = B(Above, e) BY <1>10 DEF Def
<1>12. Above = [e \in Names |-> Above[e]] BY <1>10 DEF Def
<1> DEFINE T == {e \in Names : Above[e] \in V}
<1>13. T = Names
  <2>1. ASSUME NEW e \in Names, HoldersOf[e] \subseteq T PROVE e \in T
    <3>1. B(Above, e) \in V BY <1>2, <2>1
    <3> QED BY <1>11, <3>1
  <2>2. Inductive(Names, HoldersOf, T) BY <2>1 DEF Inductive
  <2>3. T \in SUBSET Names OBVIOUS
  <2> HIDE DEF T
  <2> QED BY <2>2, <2>3, HolderDepths, RankInduction
<1>14. Above \in [Names -> SUBSET AllPlaces] BY <1>12, <1>13 DEF V
<1> QED BY <1>11, <1>14 DEF B

(* Struct x is struct c or is held in it.                                  *)
Within(x, c) == x = c \/ \E q \in Above[x] : q[1] = c

(* A place q that is above struct x.                                       *)
UpOf(q, x) ==
    /\ q \in AllPlaces /\ q[1] \in Names /\ q[2] \in Parts(q[1]) /\ q = <<q[1], q[2]>>
    /\ Within(x, PartOf(q[2]))
    /\ Above[PartOf(q[2])] \subseteq Above[x] /\ Above[q[1]] \subseteq Above[x]

LEMMA AboveUp == \A x \in Names : \A q \in Above[x] : UpOf(q, x)
<1> DEFINE T == {x \in Names : \A q \in Above[x] : UpOf(q, x)}
<1>1. ASSUME NEW x \in Names, HoldersOf[x] \subseteq T, NEW q \in Above[x] PROVE UpOf(q, x)
  <2>1. CASE q \in HoldPlaces(x)
    <3>1. /\ q \in AllPlaces /\ q[1] \in Names /\ q[2] \in Parts(q[1])
          /\ q = <<q[1], q[2]>> /\ PartOf(q[2]) = x
      BY <2>1, HoldPlacesAre
    <3>2. Above[q[1]] \subseteq Above[x] BY <2>1, AboveEquation
    <3> QED BY <3>1, <3>2 DEF UpOf, Within
  <2>2. CASE q \notin HoldPlaces(x)
    <3>1. PICK h \in HoldPlaces(x) : q \in Above[h[1]] BY <2>2, AboveEquation
    <3>2. h[1] \in Names /\ h[2] \in Parts(h[1]) /\ PartOf(h[2]) = x BY HoldPlacesAre
    <3>3. h[1] \in T BY <1>1, <3>2 DEF HoldersOf
    <3>4. UpOf(q, h[1]) BY <3>1, <3>3
    <3>5. Above[h[1]] \subseteq Above[x] /\ h \in Above[x] BY <3>1, AboveEquation
    <3>6. Within(x, PartOf(q[2])) BY <3>4, <3>5 DEF UpOf, Within
    <3> QED BY <3>4, <3>5, <3>6 DEF UpOf
  <2> QED BY <2>1, <2>2
<1>2. Inductive(Names, HoldersOf, T) BY <1>1 DEF Inductive
<1>3. T = Names
  <2>1. T \in SUBSET Names OBVIOUS
  <2> HIDE DEF T
  <2> QED BY <1>2, <2>1, HolderDepths, RankInduction
<1> QED BY <1>3

(* What is within a part of c has that part, and all above c, above it.    *)
LEMMA InsidePart ==
  ASSUME NEW c \in Names, NEW f \in Parts(c), NEW x \in Names, Within(x, PartOf(f))
  PROVE  /\ <<c, f>> \in Above[x] /\ Above[c] \subseteq Above[x]
         /\ Above[PartOf(f)] \subseteq Above[x] /\ Within(x, c)
<1> DEFINE e == PartOf(f)
<1>1. e \in Names BY PartRank
<1>2. <<c, f>> \in HoldPlaces(e) BY HoldPlacesAre
<1>3. <<c, f>> \in Above[e] /\ Above[c] \subseteq Above[e] BY <1>1, <1>2, AboveEquation
<1>4. Above[e] \subseteq Above[x]
  <2>1. CASE x = e BY <2>1
  <2>2. CASE x # e
    <3>1. PICK q \in Above[x] : q[1] = e BY <2>2 DEF Within
    <3> QED BY <3>1, AboveUp DEF UpOf
  <2> QED BY <2>1, <2>2
<1>5. Within(x, c) BY <1>3, <1>4 DEF Within
<1> QED BY <1>3, <1>4, <1>5

LEMMA BelowWithin ==
  \A c \in Names : \A p \in Below[c] :
     p \in AllPlaces /\ p[2] \notin DOMAIN Structs /\ Within(p[1], c)
<1> DEFINE In(p, c) == p \in AllPlaces /\ p[2] \notin DOMAIN Structs /\ Within(p[1], c)
           T == {c \in Names : \A p \in Below[c] : In(p, c)}
<1>1. ASSUME NEW c \in Names, HeldBy[c] \subseteq T, NEW p \in Below[c] PROVE In(p, c)
  <2>1. CASE p \in {<<c, f>> : f \in Written(c) \ DOMAIN Structs}
    BY <2>1, PlacesAre DEF Within
  <2>2. CASE p \notin {<<c, f>> : f \in Written(c) \ DOMAIN Structs}
    <3>1. PICK f \in Parts(c) : p \in Below[PartOf(f)] BY <2>2, BelowEquation
    <3>2. PartOf(f) \in T BY <1>1 DEF HeldBy
    <3>3. In(p, PartOf(f)) BY <3>1, <3>2
    <3>4. p[1] \in Names BY <3>3, PlacesAre
    <3> QED BY <3>3, <3>4, InsidePart
  <2> QED BY <2>1, <2>2
<1>2. Inductive(Names, HeldBy, T) BY <1>1 DEF Inductive
<1>3. T = Names
  <2>1. T \in SUBSET Names OBVIOUS
  <2> HIDE DEF T
  <2> QED BY <1>2, <2>1, HeldRanks, RankInduction
<1> QED BY <1>3

(* Nothing is above a root.                                                *)
LEMMA AboveRoot == \A r \in Roots : r \in Names /\ Above[r] = {}
<1> SUFFICES ASSUME NEW r \in Roots PROVE r \in Names /\ Above[r] = {}
  OBVIOUS
<1>1. r \in Names BY RootFields
<1>2. HoldPlaces(r) = {} BY HoldPlacesAre, RootFields
<1> QED BY <1>1, <1>2, AboveEquation

-----------------------------------------------------------------------------
(* What decoding a struct comes to.                                        *)

LEMMA OutcomeIs ==
  ASSUME NEW a \in BOOLEAN, NEW b \in SUBSET AllPlaces, NEW c \in SUBSET AllPlaces
  PROVE  Outcome(a, b, c) \in Outcomes
BY DEF Outcome, Outcomes

LEMMA JoinIs ==
  ASSUME NEW S \in SUBSET Outcomes
  PROVE  /\ Join(S) \in Outcomes
         /\ Join(S).fails <=> \E o \in S : o.fails
         /\ \A p : p \in Join(S).dflt <=> \E o \in S : p \in o.dflt
         /\ \A p : p \in Join(S).unset <=> \E o \in S : p \in o.unset
BY DEF Join, Outcome, Outcomes

LEMMA UnderIs ==
  ASSUME NEW c \in Names, NEW f \in Read(c)
  PROVE  /\ Under(c, f) \subseteq AllPlaces
         /\ f \in DOMAIN Structs => Under(c, f) = Below[PartOf(f)]
         /\ f \in DOMAIN Lists => Under(c, f) = {<<c, f>>} \cup Below[PartOf(f)]
         /\ ~IsPart(f) => Under(c, f) = {<<c, f>>}
<1>1. <<c, f>> \in AllPlaces BY PlacesAre
<1>2. CASE f \in DOMAIN Structs
  <2>1. f \in Parts(c) BY <1>2 DEF Parts, IsPart
  <2>2. Below[PartOf(f)] \subseteq AllPlaces BY <2>1, PartRank, BelowEquation
  <2> QED BY <1>2, <2>1, <2>2, ListsAndStructs DEF Under, Parts
<1>3. CASE f \in DOMAIN Lists
  <2>1. f \in Parts(c) BY <1>3 DEF Parts, IsPart
  <2>2. Below[PartOf(f)] \subseteq AllPlaces BY <2>1, PartRank, BelowEquation
  <2>3. IsPart(f) /\ f \notin DOMAIN Structs BY <1>3, ListsAndStructs DEF IsPart
  <2> QED BY <1>1, <2>2, <2>3 DEF Under
<1>4. CASE ~IsPart(f)
  <2>1. f \notin DOMAIN Structs /\ f \notin DOMAIN Lists BY <1>4 DEF IsPart
  <2> QED BY <1>1, <1>4, <2>1 DEF Under
<1> QED BY <1>2, <1>3, <1>4 DEF IsPart

LEMMA EmptyType ==
  ASSUME NEW c \in Names
  PROVE  DecodeEmpty(c) \in Outcomes /\ Unassigned(c) \subseteq AllPlaces
<1>1. Unassigned(c) \subseteq AllPlaces BY PlacesAre DEF Unassigned, Written
<1>2. UNION {Under(c, f) : f \in Converters[c].dflt} \subseteq AllPlaces BY UnderIs DEF Read
<1>3. Throw \in Outcomes BY OutcomeIs DEF Throw
<1>4. Outcome(FALSE, UNION {Under(c, f) : f \in Converters[c].dflt}, Unassigned(c)) \in Outcomes
  BY <1>1, <1>2, OutcomeIs
<1> QED BY <1>1, <1>3, <1>4 DEF DecodeEmpty

LEMMA FieldType ==
  ASSUME NEW doc, NEW c \in Names, NEW f \in Read(c), NEW inner,
         IsPart(f) => inner[PartOf(f)] \in Outcomes
  PROVE  Field(doc, c, f, inner) \in Outcomes
<1>1. Throw \in Outcomes /\ Good \in Outcomes BY OutcomeIs DEF Throw, Good
<1>2. Outcome(FALSE, Under(c, f), {}) \in Outcomes BY UnderIs, OutcomeIs
<1>3. Outcome(FALSE, {<<c, f>>}, {}) \in Outcomes BY PlacesAre, OutcomeIs
<1>4. f \in DOMAIN Structs => DecodeEmpty(PartOf(f)) \in Outcomes
  BY PartRank, EmptyType DEF Parts, IsPart
<1>5. ASSUME NEW kind PROVE DamagedPart(c, f, kind) \in Outcomes
  BY <1>1, <1>2, <1>4 DEF DamagedPart
<1> QED BY <1>1, <1>3, <1>5 DEF Field

LEMMA DecodeEquation ==
  ASSUME NEW doc
  PROVE  /\ Decode(doc) \in [Names -> Outcomes]
         /\ \A c \in Names :
              Decode(doc)[c] = Join({Field(doc, c, f, Decode(doc)) : f \in Read(c)}
                                      \cup {Outcome(FALSE, {}, Unassigned(c))})
<1> DEFINE V == Outcomes
           B(g, c) == Join({Field(doc, c, f, g) : f \in Read(c)}
                             \cup {Outcome(FALSE, {}, Unassigned(c))})
           s == [x \in Names \X [Names -> V] |-> B(x[2], x[1])]
<1>1. ASSUME NEW c \in Names, NEW f \in Read(c), IsPart(f) PROVE PartOf(f) \in HeldBy[c]
  BY <1>1 DEF HeldBy, Parts
<1>2. ASSUME NEW c \in Names, NEW g, \A e \in HeldBy[c] : g[e] \in V
      PROVE  B(g, c) \in V
  <2>1. \A f \in Read(c) : Field(doc, c, f, g) \in Outcomes BY <1>1, <1>2, FieldType
  <2>2. Outcome(FALSE, {}, Unassigned(c)) \in Outcomes BY EmptyType, OutcomeIs
  <2> QED BY <2>1, <2>2, JoinIs
<1>3. s \in [Names \X [Names -> V] -> V]
  <2> SUFFICES ASSUME NEW x \in Names \X [Names -> V] PROVE B(x[2], x[1]) \in V OBVIOUS
  <2>1. x[1] \in Names /\ x[2] \in [Names -> V] OBVIOUS
  <2>2. \A e \in HeldBy[x[1]] : x[2][e] \in V BY <2>1, HeldRanks DEF Descends
  <2> HIDE DEF B, V
  <2> QED BY <1>2, <2>1, <2>2
<1>4. ASSUME NEW c \in Names, NEW g \in [Names -> V], NEW h \in [Names -> V],
             \A e \in HeldBy[c] : g[e] = h[e]
      PROVE  s[<<c, g>>] = s[<<c, h>>]
  <2>1. \A f \in Read(c) : IsPart(f) => g[PartOf(f)] = h[PartOf(f)] BY <1>1, <1>4
  <2>2. \A f \in Read(c) : Field(doc, c, f, g) = Field(doc, c, f, h)
    BY <2>1, Zenon DEF Field
  <2>3. B(g, c) = B(h, c) BY <2>2
  <2>4. <<c, g>> \in Names \X [Names -> V] /\ <<c, h>> \in Names \X [Names -> V] OBVIOUS
  <2> HIDE DEF B, V
  <2>5. s[<<c, g>>] = B(g, c) /\ s[<<c, h>>] = B(h, c) BY <2>4
  <2> QED BY <2>3, <2>5
<1>5. V # {} BY OutcomeIs
<1> HIDE DEF V, s, B
<1>6. LooksAt(Names, V, HeldBy, s) BY <1>4 DEF LooksAt
<1>7. PICK F \in [Names -> V] : TableOf(F, Names, s)
  BY <1>3, <1>5, <1>6, HeldRanks, TableExists
<1> DEFINE Def(f) == [c \in Names |-> B(f, c)]
<1>8. F = Def(F)
  <2>1. ASSUME NEW c \in Names PROVE F[c] = B(F, c)
    <3>1. F[c] = s[<<c, F>>] BY <1>7 DEF TableOf
    <3>2. <<c, F>> \in Names \X [Names -> V] BY <1>7
    <3>3. s[<<c, F>>] = B(F, c) BY <3>2 DEF s
    <3> QED BY <3>1, <3>3
  <2> QED BY <1>7, <2>1
<1> DEFINE D == Decode(doc)
<1>9. D = CHOOSE f : f = Def(f) BY DEF Decode, Names, B
<1> HIDE DEF Def, D
<1>10. D = Def(D) BY <1>8, <1>9
<1>11. \A c \in Names : D[c] = B(D, c) BY <1>10 DEF Def
<1>12. D = [c \in Names |-> D[c]] BY <1>10 DEF Def
<1> DEFINE T == {c \in Names : D[c] \in V}
<1>13. T = Names
  <2>1. ASSUME NEW c \in Names, HeldBy[c] \subseteq T PROVE c \in T
    <3>1. B(D, c) \in V BY <1>2, <2>1
    <3> QED BY <1>11, <3>1
  <2>2. Inductive(Names, HeldBy, T) BY <2>1 DEF Inductive
  <2>3. T \in SUBSET Names OBVIOUS
  <2> HIDE DEF T
  <2> QED BY <2>2, <2>3, HeldRanks, RankInduction
<1>14. D \in [Names -> Outcomes] BY <1>12, <1>13 DEF V
<1> QED BY <1>11, <1>14 DEF B, D

(* Decoding a struct, as the outcomes of its fields.                       *)
LEMMA DecodeFields ==
  ASSUME NEW doc, NEW c \in Names
  PROVE  LET D == Decode(doc)
         IN  /\ D[c] \in Outcomes /\ \A f \in Read(c) : Field(doc, c, f, D) \in Outcomes
             /\ D[c].fails <=> \E f \in Read(c) : Field(doc, c, f, D).fails
             /\ \A p : p \in D[c].dflt <=> \E f \in Read(c) : p \in Field(doc, c, f, D).dflt
             /\ \A p : p \in D[c].unset <=>
                  p \in Unassigned(c) \/ \E f \in Read(c) : p \in Field(doc, c, f, D).unset
<1> DEFINE D == Decode(doc)
           S == {Field(doc, c, f, D) : f \in Read(c)}
           u == Outcome(FALSE, {}, Unassigned(c))
<1>1. D \in [Names -> Outcomes] /\ D[c] = Join(S \cup {u}) BY DecodeEquation
<1> HIDE DEF D
<1>2. ASSUME NEW f \in Read(c) PROVE Field(doc, c, f, D) \in Outcomes
  <2>1. IsPart(f) => D[PartOf(f)] \in Outcomes BY <1>1, PartRank DEF Parts
  <2> QED BY <2>1, FieldType
<1>3. u \in Outcomes BY EmptyType, OutcomeIs
<1>4. S \cup {u} \in SUBSET Outcomes BY <1>2, <1>3
<1>5. u.fails = FALSE /\ u.dflt = {} /\ u.unset = Unassigned(c) BY DEF Outcome
<1>6. \A o : o \in S <=> \E f \in Read(c) : o = Field(doc, c, f, D) OBVIOUS
<1> HIDE DEF S, u
<1>7. D[c] \in Outcomes BY <1>1
<1>8. D[c].fails <=> \E f \in Read(c) : Field(doc, c, f, D).fails
  <2>1. D[c].fails <=> \E o \in S \cup {u} : o.fails BY <1>1, <1>4, JoinIs
  <2>2. ~u.fails BY <1>5
  <2> QED BY <1>6, <2>1, <2>2
<1>9. \A p : p \in D[c].dflt <=> \E f \in Read(c) : p \in Field(doc, c, f, D).dflt
  <2>1. \A p : p \in D[c].dflt <=> \E o \in S \cup {u} : p \in o.dflt BY <1>1, <1>4, JoinIs
  <2> QED BY <1>5, <1>6, <2>1
<1>10. \A p : p \in D[c].unset <=>
         p \in Unassigned(c) \/ \E f \in Read(c) : p \in Field(doc, c, f, D).unset
  <2>1. \A p : p \in D[c].unset <=> \E o \in S \cup {u} : p \in o.unset BY <1>1, <1>4, JoinIs
  <2> QED BY <1>5, <1>6, <2>1
<1> QED BY <1>2, <1>7, <1>8, <1>9, <1>10 DEF D

(* A struct of plain fields, all with defaults, that is read from nothing. *)
LEMMA EmptyIsUnder ==
  ASSUME NEW c \in Names, NEW f \in Parts(c), f \in DOMAIN Structs,
         Converters[PartOf(f)].need = {}
  PROVE  DecodeEmpty(PartOf(f)) = Outcome(FALSE, Under(c, f), {})
<1> DEFINE e == PartOf(f)
<1>1. e \in Names /\ e = Structs[f] BY PartRank, ListsAndStructs
<1>2. Parts(e) = {} /\ Converters[e].unread = {} BY <1>1, EmptyStructs
<1>3. Unassigned(e) = {} BY <1>2 DEF Unassigned
<1>4. Read(e) = Converters[e].dflt /\ Written(e) = Converters[e].dflt
  BY <1>2 DEF Read, Written
<1>5. \A g \in Read(e) : ~IsPart(g) /\ g \notin DOMAIN Structs BY <1>2 DEF Parts, IsPart
<1>6. \A g \in Read(e) : Under(e, g) = {<<e, g>>} BY <1>1, <1>5, UnderIs
<1>7. Below[e] = {<<e, g>> : g \in Read(e)} BY <1>1, <1>2, <1>4, <1>5, BelowEquation
<1>8. UNION {Under(e, g) : g \in Converters[e].dflt} = Below[e] BY <1>4, <1>6, <1>7
<1>9. Under(c, f) = Below[e] BY UnderIs DEF Parts
<1> QED BY <1>3, <1>8, <1>9 DEF DecodeEmpty

LEMMA OutcomeFields ==
  /\ Throw.fails /\ ~Good.fails /\ Good.dflt = {} /\ Good.unset = {}
  /\ \A b, c : /\ ~Outcome(FALSE, b, c).fails
               /\ Outcome(FALSE, b, c).dflt = b /\ Outcome(FALSE, b, c).unset = c
BY DEF Outcome, Throw, Good

LEMMA BreaksIs ==
  ASSUME NEW doc, NEW p
  PROVE  /\ ~IsPart(p[2]) => (Breaks(doc, p) <=> p[2] \in Converters[p[1]].need)
         /\ p[2] \in DOMAIN Lists => (Breaks(doc, p) <=> doc.damage[p] # "none")
         /\ p[2] \in DOMAIN Structs =>
              (Breaks(doc, p) <=>
                 \/ doc.damage[p] = "scalar"
                 \/ doc.damage[p] = "absent" /\ p[2] \in Converters[p[1]].need
                 \/ doc.damage[p] = "empty" /\ Converters[PartOf(p[2])].need # {})
<1>1. p[2] \notin DOMAIN Lists \/ p[2] \notin DOMAIN Structs BY ListsAndStructs
<1>2. IsPart(p[2]) <=> p[2] \in DOMAIN Lists \/ p[2] \in DOMAIN Structs BY DEF IsPart
<1> HIDE DEF IsPart
<1>3. CASE ~IsPart(p[2]) BY <1>2, <1>3, Zenon DEF Breaks
<1>4. CASE p[2] \in DOMAIN Lists BY <1>1, <1>2, <1>4, Zenon DEF Breaks
<1>5. CASE p[2] \in DOMAIN Structs BY <1>1, <1>2, <1>5, Zenon DEF Breaks
<1> QED BY <1>2, <1>3, <1>4, <1>5

(* Field o of what is damaged: it fails when the damage breaks it, and is  *)
(* left to the default otherwise.                                          *)
DamagedField(doc, c, f, o) ==
    /\ o.fails <=> Breaks(doc, <<c, f>>)
    /\ o.fails \/ o = Outcome(FALSE, Under(c, f), {})

LEMMA FieldIs ==
  ASSUME NEW doc, IsDocument(doc), NEW c \in Names, NEW f \in Read(c), NEW inner
  PROVE  /\ Whole(doc, <<c, f>>) /\ IsPart(f) => Field(doc, c, f, inner) = inner[PartOf(f)]
         /\ Whole(doc, <<c, f>>) /\ ~IsPart(f) => Field(doc, c, f, inner) = Good
         /\ ~Whole(doc, <<c, f>>) => DamagedField(doc, c, f, Field(doc, c, f, inner))
<1> DEFINE p == <<c, f>>
           kind == doc.damage[p]
           o == Field(doc, c, f, inner)
<1>1. ASSUME ~Whole(doc, p), ~IsPart(f) PROVE DamagedField(doc, c, f, o)
  <2>1. Breaks(doc, p) <=> f \in Converters[c].need BY <1>1, BreaksIs
  <2>2. Under(c, f) = {p} BY <1>1, UnderIs
  <2>3. o = IF f \in Converters[c].need THEN Throw ELSE Outcome(FALSE, {p}, {})
    BY <1>1 DEF Field
  <2>4. CASE f \in Converters[c].need
    <3>1. o.fails BY <2>3, <2>4, OutcomeFields
    <3> QED BY <2>1, <2>4, <3>1 DEF DamagedField
  <2>5. CASE f \notin Converters[c].need
    <3>1. o = Outcome(FALSE, Under(c, f), {}) BY <2>2, <2>3, <2>5
    <3>2. ~o.fails BY <3>1 DEF Outcome
    <3> QED BY <2>1, <2>5, <3>1, <3>2 DEF DamagedField
  <2> QED BY <2>4, <2>5
<1>2. ASSUME ~Whole(doc, p), IsPart(f) PROVE DamagedField(doc, c, f, o)
  <2>1. o = DamagedPart(c, f, kind) BY <1>2 DEF Field
  <2>2. kind \in KindsAt(p) BY <1>2 DEF IsDocument, Whole
  <2>3. f \in Parts(c) BY <1>2 DEF Parts
  <2>4. p[1] = c /\ p[2] = f OBVIOUS
  <2>5. CASE f \in DOMAIN Lists
    <3>1. kind \in {"absent", "empty", "scalar", "none"} /\ f \notin DOMAIN Structs
      BY <1>2, <2>2, <2>4, <2>5, ListsAndStructs DEF KindsAt, Kinds
    <3>2. f \in Converters[c].need BY <2>3, <2>5, SchemaFields DEF FieldsOf
    <3>3. Breaks(doc, p) <=> kind # "none" BY <2>4, <2>5, BreaksIs
    <3>4. CASE kind = "none"
      <4>1. o = Outcome(FALSE, Under(c, f), {}) BY <2>1, <3>4 DEF DamagedPart
      <4>2. ~o.fails BY <4>1 DEF Outcome
      <4> QED BY <3>3, <3>4, <4>1, <4>2 DEF DamagedField
    <3>5. CASE kind # "none"
      <4>1. o = Throw BY <2>1, <2>5, <3>1, <3>2, <3>5 DEF DamagedPart
      <4>2. o.fails BY <4>1, OutcomeFields
      <4> QED BY <3>3, <3>5, <4>2 DEF DamagedField
    <3> QED BY <3>4, <3>5
  <2>6. CASE f \in DOMAIN Structs
    <3>1. kind \in {"absent", "empty", "scalar"} /\ f \notin DOMAIN Lists
      BY <1>2, <2>2, <2>4, <2>6, ListsAndStructs DEF KindsAt, Kinds
    <3> DEFINE breaks == \/ kind = "scalar"
                         \/ kind = "absent" /\ f \in Converters[c].need
                         \/ kind = "empty" /\ Converters[PartOf(f)].need # {}
    <3>2. Breaks(doc, p) <=> breaks BY <2>4, <2>6, BreaksIs
    <3>3. CASE breaks
      <4>1. o = Throw BY <2>1, <2>6, <3>1, <3>3 DEF DamagedPart, DecodeEmpty
      <4>2. o.fails BY <4>1, OutcomeFields
      <4> QED BY <3>2, <3>3, <4>2 DEF DamagedField
    <3>4. CASE ~breaks
      <4>1. CASE kind = "empty"
        <5>1. o = DecodeEmpty(PartOf(f)) BY <2>1, <2>6, <3>1, <4>1 DEF DamagedPart
        <5>2. Converters[PartOf(f)].need = {} BY <3>4, <4>1
        <5>3. o = Outcome(FALSE, Under(c, f), {}) BY <2>3, <2>6, <5>1, <5>2, EmptyIsUnder
        <5>4. ~o.fails BY <5>3 DEF Outcome
        <5> QED BY <3>2, <3>4, <5>3, <5>4 DEF DamagedField
      <4>2. CASE kind # "empty"
        <5>1. o = Outcome(FALSE, Under(c, f), {}) BY <2>1, <3>1, <3>4, <4>2 DEF DamagedPart
        <5>2. ~o.fails BY <5>1 DEF Outcome
        <5> QED BY <3>2, <3>4, <5>1, <5>2 DEF DamagedField
      <4> QED BY <4>1, <4>2
    <3> QED BY <3>3, <3>4
  <2> QED BY <1>2, <2>5, <2>6 DEF IsPart
<1>3. Whole(doc, p) /\ IsPart(f) => o = inner[PartOf(f)] BY DEF Field
<1>4. Whole(doc, p) /\ ~IsPart(f) => o = Good BY DEF Field
<1> QED BY <1>1, <1>2, <1>3, <1>4

-----------------------------------------------------------------------------
(* A text that can be decoded.                                             *)

(* Nothing above struct c is damaged.                                      *)
Reached(doc, c) == Above[c] \cap DOMAIN doc.damage = {}

(* When a struct is reached through its holder c and not otherwise, what   *)
(* is damaged is another field of c: a tire, which breaks c, or a corner.  *)
LEMMA DamagedSibling ==
  ASSUME NEW doc, IsDocument(doc), NEW c \in Names, NEW f \in Parts(c), Reached(doc, c),
         Whole(doc, <<c, f>>), ~Reached(doc, PartOf(f))
  PROVE  \E g \in Parts(c) :
           /\ PartOf(g) = PartOf(f) /\ ~Whole(doc, <<c, g>>)
           /\ Breaks(doc, <<c, g>>) \/ PartOf(f) = "ChassisCorner"
<1> DEFINE e == PartOf(f)
<1>1. PICK q \in Above[e] : q \in DOMAIN doc.damage BY DEF Reached
<1>2. e \in Names BY PartRank
<1>3. ASSUME NEW h \in HoldPlaces(e) PROVE h[1] = c
  <2>1. h[1] \in Names /\ h[2] \in Parts(h[1]) /\ PartOf(h[2]) = e BY HoldPlacesAre
  <2>2. CASE <<h[1], h[2]>> = <<c, f>> BY <2>2
  <2>3. CASE <<h[1], h[2]>> # <<c, f>> BY <2>1, <2>3, Shared
  <2> QED BY <2>2, <2>3
<1>4. q \in HoldPlaces(e)
  <2> SUFFICES ASSUME q \notin HoldPlaces(e) PROVE FALSE OBVIOUS
  <2>1. PICK h \in HoldPlaces(e) : q \in Above[h[1]] BY <1>1, <1>2, AboveEquation
  <2>2. q \in Above[c] BY <1>3, <2>1
  <2> QED BY <1>1, <2>2 DEF Reached
<1> DEFINE g == q[2]
<1>5. q[1] = c BY <1>3, <1>4
<1>6. q = <<c, g>> /\ g \in Parts(c) /\ PartOf(g) = e BY <1>4, <1>5, HoldPlacesAre
<1>7. ~Whole(doc, <<c, g>>) BY <1>1, <1>6 DEF Whole
<1>8. <<c, f>> # <<c, g>> BY <1>7
<1>9. \/ c = "TiresAero" /\ e = "Tire"
      \/ e = "ChassisCorner"
  BY <1>6, <1>8, Shared
<1>10. ASSUME c = "TiresAero", e = "Tire" PROVE Breaks(doc, <<c, g>>)
  <2>1. g \in DOMAIN Structs /\ g \in Converters[c].need BY <1>6, <1>10, TiresAndCorners
  <2>2. Converters[e].need # {} BY <1>10, TiresAndCorners
  <2>3. doc.damage[<<c, g>>] \in KindsAt(<<c, g>>) BY <1>1, <1>6 DEF IsDocument
  <2>4. doc.damage[<<c, g>>] \in {"absent", "empty", "scalar"}
    BY <2>1, <2>3, ListsAndStructs DEF KindsAt, Kinds, IsPart
  <2>5. <<c, g>>[1] = c /\ <<c, g>>[2] = g OBVIOUS
  <2> QED BY <1>6, <2>1, <2>2, <2>4, <2>5, BreaksIs
<1> HIDE DEF g
<1> QED BY <1>6, <1>7, <1>9, <1>10

LEMMA CornersNeverFail ==
  ASSUME NEW doc, IsDocument(doc)
  PROVE  ~Decode(doc)["ChassisCorner"].fails
<1> DEFINE c == "ChassisCorner"
           D == Decode(doc)
<1>1. c \in Names BY DEF Names, Converters
<1>2. ASSUME NEW f \in Read(c) PROVE ~Field(doc, c, f, D).fails
  <2>1. ~IsPart(f) /\ f \notin Converters[c].need BY TiresAndCorners DEF Parts
  <2>2. CASE Whole(doc, <<c, f>>)
    BY <1>1, <2>1, <2>2, FieldIs, OutcomeFields
  <2>3. CASE ~Whole(doc, <<c, f>>)
    <3>1. <<c, f>>[1] = c /\ <<c, f>>[2] = f OBVIOUS
    <3>2. ~Breaks(doc, <<c, f>>) BY <2>1, <3>1, BreaksIs
    <3> QED BY <1>1, <2>3, <3>2, FieldIs DEF DamagedField
  <2> QED BY <2>2, <2>3
<1> QED BY <1>1, <1>2, DecodeFields

(* Something in struct c that nothing above hides breaks it.               *)
Broken(doc, c) ==
    \E p \in DOMAIN doc.damage : Breaks(doc, p) /\ Within(p[1], c) /\ Reached(doc, p[1])

LEMMA FailsWhenBroken ==
  ASSUME NEW doc, IsDocument(doc)
  PROVE  \A c \in Names : Reached(doc, c) => (Decode(doc)[c].fails <=> Broken(doc, c))
<1> DEFINE D == Decode(doc)
           T == {c \in Names : Reached(doc, c) => (D[c].fails <=> Broken(doc, c))}
<1> HIDE DEF D
<1>1. ASSUME NEW c \in Names, HeldBy[c] \subseteq T, Reached(doc, c),
             NEW f \in Read(c), Field(doc, c, f, D).fails
      PROVE  Broken(doc, c)
  <2>1. CASE ~Whole(doc, <<c, f>>)
    <3>1. Breaks(doc, <<c, f>>) BY <1>1, <2>1, FieldIs DEF DamagedField
    <3>2. <<c, f>> \in DOMAIN doc.damage BY <2>1 DEF Whole
    <3>3. <<c, f>>[1] = c /\ Within(c, c) BY DEF Within
    <3> QED BY <1>1, <3>1, <3>2, <3>3 DEF Broken
  <2>2. CASE Whole(doc, <<c, f>>) /\ ~IsPart(f)
    BY <1>1, <2>2, FieldIs, OutcomeFields
  <2>3. CASE Whole(doc, <<c, f>>) /\ IsPart(f)
    <3> DEFINE e == PartOf(f)
    <3>1. f \in Parts(c) BY <2>3 DEF Parts
    <3>2. e \in Names BY <3>1, PartRank
    <3>3. D[e].fails BY <1>1, <2>3, FieldIs
    <3>4. CASE Reached(doc, e)
      <4>1. e \in T BY <1>1, <3>1 DEF HeldBy
      <4>2. Broken(doc, e) BY <3>3, <3>4, <4>1
      <4>3. PICK p \in DOMAIN doc.damage :
              Breaks(doc, p) /\ Within(p[1], e) /\ Reached(doc, p[1])
        BY <4>2 DEF Broken
      <4>4. p[1] \in Names BY PlacesAre DEF IsDocument
      <4>5. Within(p[1], c) BY <3>1, <4>3, <4>4, InsidePart
      <4> QED BY <4>3, <4>5 DEF Broken
    <3>5. CASE ~Reached(doc, e)
      <4>1. PICK g \in Parts(c) :
              /\ ~Whole(doc, <<c, g>>)
              /\ Breaks(doc, <<c, g>>) \/ e = "ChassisCorner"
        BY <1>1, <2>3, <3>1, <3>5, DamagedSibling
      <4>2. e # "ChassisCorner" BY <3>3, CornersNeverFail DEF D
      <4>3. <<c, g>> \in DOMAIN doc.damage BY <4>1 DEF Whole
      <4>4. <<c, g>>[1] = c /\ Within(c, c) BY DEF Within
      <4> QED BY <1>1, <4>1, <4>2, <4>3, <4>4 DEF Broken
    <3> QED BY <3>4, <3>5
  <2> QED BY <2>1, <2>2, <2>3
<1>2. ASSUME NEW c \in Names, HeldBy[c] \subseteq T, Reached(doc, c), Broken(doc, c)
      PROVE  \E f \in Read(c) : Field(doc, c, f, D).fails
  <2>1. PICK p \in DOMAIN doc.damage :
          Breaks(doc, p) /\ Within(p[1], c) /\ Reached(doc, p[1])
    BY <1>2 DEF Broken
  <2>2. p[1] \in Names /\ p[2] \in Written(p[1]) /\ p = <<p[1], p[2]>>
    BY PlacesAre DEF IsDocument
  <2>3. CASE p[1] = c
    <3> DEFINE f == p[2]
    <3>1. f \in Read(c)
      <4>1. CASE IsPart(f) BY <2>2, <2>3, <4>1, SchemaFields DEF FieldsOf, Written, Read
      <4>2. CASE ~IsPart(f) BY <2>1, <2>3, <4>2, BreaksIs DEF Read
      <4> QED BY <4>1, <4>2
    <3>2. p = <<c, f>> /\ ~Whole(doc, <<c, f>>) BY <2>2, <2>3 DEF Whole
    <3>3. Field(doc, c, f, D).fails BY <2>1, <3>1, <3>2, FieldIs DEF DamagedField
    <3> QED BY <3>1, <3>3
  <2>4. CASE p[1] # c
    <3>1. PICK q \in Above[p[1]] : q[1] = c BY <2>1, <2>4 DEF Within
    <3>2. UpOf(q, p[1]) BY <2>2, AboveUp
    <3> DEFINE f == q[2]
               e == PartOf(f)
    <3>3. q = <<c, f>> /\ f \in Parts(c) /\ f \in Read(c) /\ IsPart(f)
      BY <3>1, <3>2 DEF UpOf, Parts
    <3>4. Whole(doc, <<c, f>>) BY <2>1, <3>1, <3>3 DEF Reached, Whole
    <3>5. Within(p[1], e) /\ Reached(doc, e) BY <2>1, <3>2 DEF UpOf, Reached
    <3>6. e \in T BY <1>2, <3>3 DEF HeldBy
    <3>7. Broken(doc, e) BY <2>1, <3>5 DEF Broken
    <3>8. D[e].fails BY <3>5, <3>6, <3>7
    <3>9. Field(doc, c, f, D) = D[e] BY <3>3, <3>4, FieldIs
    <3> QED BY <3>3, <3>8, <3>9
  <2> QED BY <2>3, <2>4
<1>3. ASSUME NEW c \in Names, HeldBy[c] \subseteq T PROVE c \in T
  <2> SUFFICES ASSUME Reached(doc, c) PROVE D[c].fails <=> Broken(doc, c) OBVIOUS
  <2>1. D[c].fails <=> \E f \in Read(c) : Field(doc, c, f, D).fails BY DecodeFields DEF D
  <2> HIDE DEF T
  <2> QED BY <1>1, <1>2, <1>3, <2>1
<1>4. T = Names
  <2>1. Inductive(Names, HeldBy, T) BY <1>3 DEF Inductive
  <2>2. T \in SUBSET Names OBVIOUS
  <2> HIDE DEF T
  <2> QED BY <2>1, <2>2, HeldRanks, RankInduction
<1> QED BY <1>4 DEF D

(* Decodable says which documents decode fails for.                        *)
LEMMA DecodableIs ==
  ASSUME NEW doc, IsDocument(doc), NEW r \in Roots,
         \A p \in DOMAIN doc.damage : Within(p[1], r)
  PROVE  Decodable(doc) <=> doc.yaml /\ ~Decode(doc)[r].fails
<1>1. r \in Names /\ Reached(doc, r) BY AboveRoot DEF Reached
<1>2. Decode(doc)[r].fails <=> Broken(doc, r) BY <1>1, FailsWhenBroken
<1>3. Broken(doc, r) <=> ~(\A p \in DOMAIN doc.damage : Reached(doc, p[1]) => ~Breaks(doc, p))
  BY DEF Broken
<1> QED BY <1>2, <1>3 DEF Decodable, Reached

-----------------------------------------------------------------------------
(* What a message says of a text.                                          *)

Unread(p) == p[2] \in Converters[p[1]].unread

(* Something above struct c is missing altogether.                         *)
Gone(doc, c) == \E q \in Above[c] \cap DOMAIN doc.damage : doc.damage[q] # "empty"

ShowsDefault(doc, p) ==
    \/ ~Unread(p) /\ (~Reached(doc, p[1]) \/ p \in DOMAIN doc.damage)
    \/ Unread(p) /\ Gone(doc, p[1])
StaysUnset(doc, p) == Unread(p) /\ ~Gone(doc, p[1])

(* Outcome o says of the places S what the document has there.             *)
SaysOf(doc, o, S) ==
    \A p \in AllPlaces : /\ p \in o.dflt <=> p \in S /\ ShowsDefault(doc, p)
                         /\ p \in o.unset <=> p \in S /\ StaysUnset(doc, p)

LEMMA BelowFields ==
  ASSUME NEW c \in Names
  PROVE  /\ \A p \in Below[c] : p \in Unassigned(c) \/ \E f \in Read(c) : p \in Under(c, f)
         /\ Unassigned(c) \subseteq Below[c]
         /\ \A f \in Read(c) : Under(c, f) \subseteq Below[c]
<1>1. ASSUME NEW p \in Below[c]
      PROVE  p \in Unassigned(c) \/ \E f \in Read(c) : p \in Under(c, f)
  <2>1. CASE \E f \in Written(c) \ DOMAIN Structs : p = <<c, f>>
    <3>1. PICK f \in Written(c) \ DOMAIN Structs : p = <<c, f>> BY <2>1
    <3>2. CASE f \in Read(c) BY <3>1, <3>2, UnderIs DEF IsPart
    <3>3. CASE f \notin Read(c) BY <3>1, <3>3 DEF Written, Read, Unassigned
    <3> QED BY <3>2, <3>3
  <2>2. CASE \E f \in Parts(c) : p \in Below[PartOf(f)]
    <3>1. PICK f \in Parts(c) : p \in Below[PartOf(f)] BY <2>2
    <3>2. f \in Read(c) /\ (f \in DOMAIN Structs \/ f \in DOMAIN Lists) BY DEF Parts, IsPart
    <3> QED BY <3>1, <3>2, UnderIs
  <2> QED BY <2>1, <2>2, BelowEquation
<1>2. Unassigned(c) \subseteq Below[c]
  <2>1. \A f \in Converters[c].unread : f \in Written(c) \ DOMAIN Structs
    BY SchemaFields DEF FieldsOf, Written, IsPart
  <2> QED BY <2>1, BelowEquation DEF Unassigned
<1>3. ASSUME NEW f \in Read(c) PROVE Under(c, f) \subseteq Below[c]
  <2>1. CASE f \in DOMAIN Structs
    <3>1. f \in Parts(c) BY <2>1 DEF Parts, IsPart
    <3> QED BY <2>1, <3>1, UnderIs, BelowEquation
  <2>2. CASE f \notin DOMAIN Structs
    <3>1. <<c, f>> \in Below[c] BY <2>2, PlacesAre, BelowEquation
    <3>2. CASE f \in DOMAIN Lists
      <4>1. f \in Parts(c) BY <3>2 DEF Parts, IsPart
      <4> QED BY <3>1, <3>2, <4>1, UnderIs, BelowEquation
    <3>3. CASE f \notin DOMAIN Lists BY <2>2, <3>1, <3>3, UnderIs DEF IsPart
    <3> QED BY <3>2, <3>3
  <2> QED BY <2>1, <2>2
<1> QED BY <1>1, <1>2, <1>3

(* The value of a field that is read, whole and reached is the text's.     *)
LEMMA OwnPlace ==
  ASSUME NEW doc, NEW c \in Names, NEW f \in Read(c), Reached(doc, c)
  PROVE  /\ ~StaysUnset(doc, <<c, f>>)
         /\ ShowsDefault(doc, <<c, f>>) <=> ~Whole(doc, <<c, f>>)
<1>1. <<c, f>>[1] = c /\ <<c, f>>[2] = f OBVIOUS
<1>2. ~Unread(<<c, f>>) BY <1>1, SchemaFields DEF Unread, FieldsOf
<1> QED BY <1>1, <1>2 DEF StaysUnset, ShowsDefault, Whole

(* A struct that has no parts and in which every field is read.            *)
LEMMA PlainStruct ==
  ASSUME NEW e \in Names, Parts(e) = {}, Converters[e].unread = {}
  PROVE  \A p \in Below[e] : p[1] = e /\ ~Unread(p)
<1>1. \A p \in Below[e] : p[1] = e BY BelowEquation
<1> QED BY <1>1 DEF Unread

(* A damaged field that does not fail has its default throughout.          *)
LEMMA DamagedSays ==
  ASSUME NEW doc, IsDocument(doc), NEW c \in Names, NEW f \in Read(c), Reached(doc, c),
         ~Whole(doc, <<c, f>>), ~Breaks(doc, <<c, f>>)
  PROVE  /\ \A p \in Under(c, f) : ShowsDefault(doc, p) /\ ~StaysUnset(doc, p)
         /\ SaysOf(doc, Outcome(FALSE, Under(c, f), {}), Under(c, f))
<1> DEFINE e == PartOf(f)
           q == <<c, f>>
<1>1. ASSUME IsPart(f), NEW p \in Below[e]
      PROVE  ShowsDefault(doc, p) /\ ~StaysUnset(doc, p)
  <2>1. f \in Parts(c) /\ e \in Names BY <1>1, PartRank DEF Parts
  <2>2. p \in AllPlaces /\ Within(p[1], e) BY <1>1, <2>1, BelowWithin
  <2>3. q \in Above[p[1]] BY <2>1, <2>2, PlacesAre, InsidePart
  <2>4. q \in DOMAIN doc.damage BY DEF Whole
  <2>5. ~Reached(doc, p[1]) BY <2>3, <2>4 DEF Reached
  <2>6. q[1] = c /\ q[2] = f OBVIOUS
  <2>7. CASE doc.damage[q] # "empty"
    <3>1. Gone(doc, p[1]) BY <2>3, <2>4, <2>7 DEF Gone
    <3> QED BY <2>5, <3>1 DEF ShowsDefault, StaysUnset
  <2>8. CASE doc.damage[q] = "empty"
    <3>1. f \notin DOMAIN Lists BY <2>6, <2>8, BreaksIs
    <3>2. f \in DOMAIN Structs BY <1>1, <3>1 DEF IsPart
    <3>3. Converters[e].need = {} BY <2>6, <2>8, <3>2, BreaksIs
    <3>4. e = Structs[f] BY <3>2, ListsAndStructs
    <3>5. Parts(e) = {} /\ Converters[e].unread = {} BY <2>1, <3>2, <3>3, <3>4, EmptyStructs
    <3>6. ~Unread(p) BY <1>1, <2>1, <3>5, PlainStruct
    <3> QED BY <2>5, <3>6 DEF ShowsDefault, StaysUnset
  <2> QED BY <2>7, <2>8
<1>2. ShowsDefault(doc, q) /\ ~StaysUnset(doc, q) BY OwnPlace
<1>3. ASSUME NEW p \in Under(c, f) PROVE ShowsDefault(doc, p) /\ ~StaysUnset(doc, p)
  <2>1. CASE p = q BY <1>2, <2>1
  <2>2. CASE p # q
    <3>1. IsPart(f) /\ p \in Below[e] BY <1>3, <2>2, UnderIs DEF IsPart
    <3> QED BY <1>1, <3>1
  <2> QED BY <2>1, <2>2
<1> DEFINE o == Outcome(FALSE, Under(c, f), {})
<1>4. o.dflt = Under(c, f) /\ o.unset = {} BY OutcomeFields
<1> HIDE DEF o
<1>5. SaysOf(doc, o, Under(c, f)) BY <1>3, <1>4 DEF SaysOf
<1> QED BY <1>3, <1>5 DEF o

LEMMA WholePlainSays ==
  ASSUME NEW doc, NEW c \in Names, NEW f \in Read(c), Reached(doc, c),
         Whole(doc, <<c, f>>), ~IsPart(f)
  PROVE  SaysOf(doc, Good, Under(c, f))
<1>1. Under(c, f) = {<<c, f>>} BY UnderIs
<1>2. ~ShowsDefault(doc, <<c, f>>) /\ ~StaysUnset(doc, <<c, f>>) BY OwnPlace
<1> QED BY <1>1, <1>2, OutcomeFields DEF SaysOf

LEMMA WholePartSays ==
  ASSUME NEW doc, NEW c \in Names, NEW f \in Parts(c), Reached(doc, c),
         Whole(doc, <<c, f>>), NEW o, SaysOf(doc, o, Below[PartOf(f)])
  PROVE  SaysOf(doc, o, Under(c, f))
<1>1. f \in Read(c) /\ (f \in DOMAIN Lists \/ f \in DOMAIN Structs) BY DEF Parts, IsPart
<1>2. Under(c, f) = Below[PartOf(f)] \/ Under(c, f) = {<<c, f>>} \cup Below[PartOf(f)]
  BY <1>1, UnderIs
<1>3. ~ShowsDefault(doc, <<c, f>>) /\ ~StaysUnset(doc, <<c, f>>) BY <1>1, OwnPlace
<1> QED BY <1>2, <1>3 DEF SaysOf

(* A corner has defaults only at its own places.                           *)
LEMMA CornerIsPlain ==
  ASSUME NEW doc, IsDocument(doc)
  PROVE  LET o == Decode(doc)["ChassisCorner"]
         IN  o.dflt \subseteq Below["ChassisCorner"] /\ o.unset = {}
<1> DEFINE c == "ChassisCorner"
           D == Decode(doc)
<1>1. c \in Names BY DEF Names, Converters
<1>2. Unassigned(c) = {} BY TiresAndCorners DEF Unassigned
<1>3. ASSUME NEW f \in Read(c)
      PROVE  Field(doc, c, f, D).dflt \subseteq Below[c] /\ Field(doc, c, f, D).unset = {}
  <2>1. ~IsPart(f) /\ f \notin Converters[c].need BY TiresAndCorners DEF Parts
  <2>2. CASE Whole(doc, <<c, f>>)
    BY <1>1, <2>1, <2>2, FieldIs, OutcomeFields
  <2>3. CASE ~Whole(doc, <<c, f>>)
    <3>1. <<c, f>>[1] = c /\ <<c, f>>[2] = f OBVIOUS
    <3>2. ~Breaks(doc, <<c, f>>) BY <2>1, <3>1, BreaksIs
    <3>3. Field(doc, c, f, D) = Outcome(FALSE, Under(c, f), {})
      BY <1>1, <2>3, <3>2, FieldIs DEF DamagedField
    <3>4. Field(doc, c, f, D).dflt = Under(c, f) /\ Field(doc, c, f, D).unset = {}
      BY <3>3 DEF Outcome
    <3> QED BY <1>1, <3>4, BelowFields
  <2> QED BY <2>2, <2>3
<1>4. /\ D[c] \in Outcomes
      /\ \A p : p \in D[c].dflt <=> \E f \in Read(c) : p \in Field(doc, c, f, D).dflt
      /\ \A p : p \in D[c].unset <=>
           p \in Unassigned(c) \/ \E f \in Read(c) : p \in Field(doc, c, f, D).unset
  BY <1>1, DecodeFields
<1> HIDE DEF D
<1>5. D[c].dflt \subseteq Below[c] BY <1>3, <1>4
<1>6. \A p : p \notin D[c].unset BY <1>2, <1>3, <1>4
<1>7. D[c].unset = {} BY <1>4, <1>6 DEF Outcomes
<1> QED BY <1>5, <1>7 DEF D

(* What decoding a struct that is reached says, when it does not fail.     *)
LEMMA DecodeSays ==
  ASSUME NEW doc, IsDocument(doc)
  PROVE  \A c \in Names :
           Reached(doc, c) /\ ~Decode(doc)[c].fails => SaysOf(doc, Decode(doc)[c], Below[c])
<1> DEFINE D == Decode(doc)
           F(c, f) == Field(doc, c, f, D)
           T == {c \in Names : Reached(doc, c) /\ ~D[c].fails => SaysOf(doc, D[c], Below[c])}
<1>1. \A c \in Names :
        /\ D[c].fails <=> \E f \in Read(c) : F(c, f).fails
        /\ \A p : p \in D[c].dflt <=> \E f \in Read(c) : p \in F(c, f).dflt
        /\ \A p : p \in D[c].unset <=>
             p \in Unassigned(c) \/ \E f \in Read(c) : p \in F(c, f).unset
  BY DecodeFields
<1>2. \A c \in Names : \A f \in Read(c) :
        /\ Whole(doc, <<c, f>>) /\ IsPart(f) => F(c, f) = D[PartOf(f)]
        /\ Whole(doc, <<c, f>>) /\ ~IsPart(f) => F(c, f) = Good
        /\ ~Whole(doc, <<c, f>>) => DamagedField(doc, c, f, F(c, f))
  BY FieldIs
<1>3. /\ D["ChassisCorner"].dflt \subseteq Below["ChassisCorner"]
      /\ D["ChassisCorner"].unset = {}
  BY CornerIsPlain
<1> HIDE DEF F, D
(* Each field says what it should, or is a corner beside a damaged one.    *)
<1> DEFINE Beside(c, f) ==
             /\ f \in Parts(c) /\ PartOf(f) = "ChassisCorner" /\ F(c, f) = D["ChassisCorner"]
             /\ ~Reached(doc, "ChassisCorner") /\ Whole(doc, <<c, f>>)
             /\ \E g \in Parts(c) : /\ PartOf(g) = "ChassisCorner"
                                    /\ F(c, g) = Outcome(FALSE, Under(c, g), {})
<1>4. ASSUME NEW c \in Names, HeldBy[c] \subseteq T, Reached(doc, c), ~D[c].fails,
             NEW f \in Read(c)
      PROVE  SaysOf(doc, F(c, f), Under(c, f)) \/ Beside(c, f)
  <2>1. ~F(c, f).fails BY <1>1, <1>4
  <2>2. CASE ~Whole(doc, <<c, f>>)
    <3>1. F(c, f) = Outcome(FALSE, Under(c, f), {}) /\ ~Breaks(doc, <<c, f>>)
      BY <1>2, <2>1, <2>2 DEF DamagedField
    <3> QED BY <1>4, <2>2, <3>1, DamagedSays
  <2>3. CASE Whole(doc, <<c, f>>) /\ ~IsPart(f)
    BY <1>2, <1>4, <2>3, WholePlainSays
  <2>4. CASE Whole(doc, <<c, f>>) /\ IsPart(f)
    <3> DEFINE e == PartOf(f)
    <3>1. f \in Parts(c) /\ e \in Names BY <2>4, PartRank DEF Parts
    <3>2. F(c, f) = D[e] BY <1>2, <2>4
    <3>3. CASE Reached(doc, e)
      <4>1. e \in T BY <1>4, <3>1 DEF HeldBy
      <4>2. SaysOf(doc, D[e], Below[e]) BY <2>1, <3>2, <3>3, <4>1
      <4> QED BY <1>4, <2>4, <3>1, <3>2, <4>2, WholePartSays
    <3>4. CASE ~Reached(doc, e)
      <4>1. PICK g \in Parts(c) :
              /\ PartOf(g) = e /\ ~Whole(doc, <<c, g>>)
              /\ Breaks(doc, <<c, g>>) \/ e = "ChassisCorner"
        BY <1>4, <2>4, <3>1, <3>4, DamagedSibling
      <4>2. g \in Read(c) BY DEF Parts
      <4>3. DamagedField(doc, c, g, F(c, g)) BY <1>2, <4>1, <4>2
      <4>4. ~F(c, g).fails BY <1>1, <1>4, <4>2
      <4>5. e = "ChassisCorner" /\ F(c, g) = Outcome(FALSE, Under(c, g), {})
        BY <4>1, <4>3, <4>4 DEF DamagedField
      <4>6. Beside(c, f) BY <2>4, <3>1, <3>2, <3>4, <4>1, <4>5
      <4> QED BY <4>6
    <3> QED BY <3>3, <3>4
  <2> QED BY <2>2, <2>3, <2>4
(* A corner beside a damaged one says nothing wrong, and the damaged one   *)
(* says what it leaves out.                                                *)
<1>5. ASSUME NEW c \in Names, Reached(doc, c), NEW f \in Read(c), Beside(c, f), NEW p \in AllPlaces
      PROVE  /\ p \in F(c, f).dflt => p \in Under(c, f) /\ ShowsDefault(doc, p)
             /\ p \notin F(c, f).unset
             /\ p \in Under(c, f) => ~StaysUnset(doc, p)
             /\ p \in Under(c, f) /\ ShowsDefault(doc, p) =>
                  \E g \in Read(c) : p \in F(c, g).dflt
  <2> DEFINE e == "ChassisCorner"
  <2>1. e \in Names BY DEF Names, Converters
  <2>2. f \in Parts(c) /\ PartOf(f) = e /\ F(c, f) = D[e] /\ ~Reached(doc, e)
        /\ Whole(doc, <<c, f>>)
    BY <1>5
  <2>3. PICK g \in Parts(c) : PartOf(g) = e /\ F(c, g) = Outcome(FALSE, Under(c, g), {})
    BY <1>5
  <2>4. /\ Below[e] \subseteq Under(c, f) /\ Under(c, f) \subseteq Below[e] \cup {<<c, f>>}
        /\ Below[e] \subseteq Under(c, g)
    BY <2>2, <2>3, UnderIs DEF Parts, IsPart
  <2>5. \A r \in Below[e] : r[1] = e /\ ~Unread(r) BY <2>1, TiresAndCorners, PlainStruct
  <2>6. \A r \in Below[e] : ShowsDefault(doc, r) /\ ~StaysUnset(doc, r)
    BY <2>2, <2>5 DEF ShowsDefault, StaysUnset
  <2>7. ~ShowsDefault(doc, <<c, f>>) /\ ~StaysUnset(doc, <<c, f>>) BY <1>5, <2>2, OwnPlace
  <2>8. F(c, g).dflt = Under(c, g) /\ g \in Read(c)
    <3>1. F(c, g).dflt = Under(c, g) BY <2>3 DEF Outcome
    <3> QED BY <3>1 DEF Parts
  <2>9. F(c, f).dflt \subseteq Below[e] /\ F(c, f).unset = {} BY <1>3, <2>2
  <2>10. p \in F(c, f).dflt => p \in Under(c, f) /\ ShowsDefault(doc, p) BY <2>4, <2>6, <2>9
  <2>11. p \notin F(c, f).unset BY <2>9
  <2>12. p \in Under(c, f) => ~StaysUnset(doc, p) BY <2>4, <2>6, <2>7
  <2>13. p \in Under(c, f) /\ ShowsDefault(doc, p) => p \in F(c, g).dflt BY <2>4, <2>7, <2>8
  <2> QED BY <2>8, <2>10, <2>11, <2>12, <2>13
<1>6. ASSUME NEW c \in Names, HeldBy[c] \subseteq T, Reached(doc, c), ~D[c].fails
      PROVE  SaysOf(doc, D[c], Below[c])
  <2> SUFFICES ASSUME NEW p \in AllPlaces
               PROVE  /\ p \in D[c].dflt <=> p \in Below[c] /\ ShowsDefault(doc, p)
                      /\ p \in D[c].unset <=> p \in Below[c] /\ StaysUnset(doc, p)
    BY DEF SaysOf
  <2> HIDE DEF Beside, T
  <2>1. ASSUME NEW f \in Read(c)
        PROVE  /\ p \in F(c, f).dflt => p \in Under(c, f) /\ ShowsDefault(doc, p)
               /\ p \in F(c, f).unset => p \in Under(c, f) /\ StaysUnset(doc, p)
               /\ p \in Under(c, f) /\ StaysUnset(doc, p) => p \in F(c, f).unset
               /\ p \in Under(c, f) /\ ShowsDefault(doc, p) =>
                    \E g \in Read(c) : p \in F(c, g).dflt
    <3>1. CASE SaysOf(doc, F(c, f), Under(c, f)) BY <3>1 DEF SaysOf
    <3>2. CASE Beside(c, f) BY <1>5, <1>6, <3>2
    <3> QED BY <1>4, <1>6, <3>1, <3>2
  <2>2. p \in Unassigned(c) => StaysUnset(doc, p) /\ ~ShowsDefault(doc, p)
    <3> SUFFICES ASSUME p \in Unassigned(c) PROVE StaysUnset(doc, p) /\ ~ShowsDefault(doc, p)
      OBVIOUS
    <3>1. p[1] = c /\ Unread(p) BY DEF Unassigned, Unread
    <3>2. ~Gone(doc, c) BY <1>6 DEF Gone, Reached
    <3> QED BY <3>1, <3>2 DEF StaysUnset, ShowsDefault
  <2>3. p \in D[c].dflt => p \in Below[c] /\ ShowsDefault(doc, p) BY <1>1, <2>1, BelowFields
  <2>4. p \in Below[c] /\ ShowsDefault(doc, p) => p \in D[c].dflt
    BY <1>1, <2>1, <2>2, BelowFields
  <2>5. p \in D[c].unset => p \in Below[c] /\ StaysUnset(doc, p)
    BY <1>1, <2>1, <2>2, BelowFields
  <2>6. p \in Below[c] /\ StaysUnset(doc, p) => p \in D[c].unset
    BY <1>1, <2>1, BelowFields
  <2> QED BY <2>3, <2>4, <2>5, <2>6
<1>7. T = Names
  <2>1. ASSUME NEW c \in Names, HeldBy[c] \subseteq T PROVE c \in T
    <3>1. Reached(doc, c) /\ ~D[c].fails => SaysOf(doc, D[c], Below[c])
      BY <1>6, <2>1
    <3> QED BY <3>1
  <2>2. Inductive(Names, HeldBy, T) BY <2>1 DEF Inductive
  <2>3. T \in SUBSET Names OBVIOUS
  <2> HIDE DEF T
  <2> QED BY <2>2, <2>3, HeldRanks, RankInduction
<1> QED BY <1>7 DEF D

(* Says is what decoding the root comes to.                                *)
LEMMA RootSays ==
  ASSUME NEW doc, IsDocument(doc), Root \in Roots, ~Decode(doc)[Root].fails
  PROVE  Decode(doc)[Root] = Says(doc)
<1> DEFINE o == Decode(doc)[Root]
           bad == DOMAIN doc.damage
           lost == {c \in DOMAIN Converters : Above[c] \cap bad # {}}
           gone == {c \in lost : \E q \in Above[c] \cap bad : doc.damage[q] # "empty"}
           all == UNION {Unassigned(c) : c \in DOMAIN Converters}
           unread == all \cap Places
           read == Places \ unread
           shown == {p \in read : p[1] \in lost \/ p \in bad} \cup {p \in unread : p[1] \in gone}
           unset == {p \in unread : p[1] \notin gone}
<1>1. Root \in Names /\ Reached(doc, Root) BY AboveRoot DEF Reached
<1>2. o \in Outcomes /\ SaysOf(doc, o, Places) BY <1>1, DecodeSays, DecodeFields DEF Places
<1>3. ASSUME NEW p \in Places
      PROVE  /\ p \in AllPlaces
             /\ p \in unread <=> Unread(p)
             /\ p[1] \in lost <=> ~Reached(doc, p[1])
             /\ p[1] \in gone <=> Gone(doc, p[1])
  <2>1. p \in AllPlaces BY <1>1, BelowWithin DEF Places
  <2>2. p[1] \in Names /\ p = <<p[1], p[2]>> BY <2>1, PlacesAre
  <2>3. p \in unread <=> Unread(p)
    <3>1. Unread(p) => p \in Unassigned(p[1]) BY <2>2 DEF Unread, Unassigned
    <3>2. ASSUME NEW c \in Names, p \in Unassigned(c) PROVE Unread(p)
      BY <3>2 DEF Unread, Unassigned
    <3>3. p \in all <=> \E c \in Names : p \in Unassigned(c) BY DEF Names
    <3> HIDE DEF all
    <3> QED BY <2>2, <3>1, <3>2, <3>3
  <2>4. p[1] \in lost <=> ~Reached(doc, p[1]) BY <2>2 DEF Reached, Names
  <2>5. p[1] \in gone <=> Gone(doc, p[1]) BY <2>2 DEF Gone, Names
  <2> QED BY <2>1, <2>3, <2>4, <2>5
<1>4. Says(doc) = Outcome(FALSE, shown, unset) BY DEF Says
<1> HIDE DEF all
<1>5. unread \subseteq Places OBVIOUS
<1> HIDE DEF unread, lost, gone, bad
<1>6. \A p : p \in shown <=> p \in Places /\ ShowsDefault(doc, p)
  BY <1>3, <1>5 DEF ShowsDefault, bad
<1>7. \A p : p \in unset <=> p \in Places /\ StaysUnset(doc, p) BY <1>3, <1>5 DEF StaysUnset
<1> HIDE DEF o, shown, unset
<1>8. o.dflt = shown /\ o.unset = unset
  <2>1. o.dflt \subseteq AllPlaces /\ o.unset \subseteq AllPlaces BY <1>2 DEF Outcomes
  <2>2. Places \subseteq AllPlaces BY <1>3
  <2> QED BY <1>2, <1>6, <1>7, <2>1, <2>2 DEF SaysOf
<1>9. o.fails = FALSE
  <2>1. o.fails \in BOOLEAN BY <1>2 DEF Outcomes
  <2>2. ~o.fails BY DEF o
  <2> QED BY <2>1, <2>2
<1>10. o = Outcome(o.fails, o.dflt, o.unset) BY <1>2 DEF Outcomes, Outcome
<1> QED BY <1>4, <1>8, <1>9, <1>10 DEF o

-----------------------------------------------------------------------------
(* The state machine.                                                      *)

(* The texts there can be for a holder.                                    *)
Versions == [version : Nat, doc : DocumentsOf(Documents \cup Updates)]

OutOf(i) == Field(text.doc, Root, Sections[i], Decode(text.doc))

MessageType ==
    /\ holder \in Holders /\ text \in Versions /\ pc \in {"idle", "decode"}
    /\ section \in 1 .. Len(Sections) + 1
    /\ built \in Outcomes
    /\ first \in Int /\ first <= text.version

(* What has been decoded is what the sections before this one come to, and *)
(* none of them failed.                                                    *)
BuiltInv ==
    /\ pc = "idle" => section = 1
    /\ pc = "decode" => text.doc.yaml
    /\ ~built.fails
    /\ \A i \in 1 .. section - 1 : ~OutOf(i).fails
    /\ \A p : p \in built.dflt <=> \E i \in 1 .. section - 1 : p \in OutOf(i).dflt
    /\ \A p : p \in built.unset <=> \E i \in 1 .. section - 1 : p \in OutOf(i).unset

(* A message is the empty one or says what some text does, this one or one *)
(* before it.                                                              *)
MessageOf(t) ==
    /\ t \in Versions /\ Decodable(t.doc) /\ message = [of |-> t, fields |-> Says(t.doc)]
    /\ t = text \/ t.version < text.version
MessageInv ==
    \/ message = NoMessage
    \/ message = Empty
    \/ \E t \in Versions : MessageOf(t)

(* A count that is the text's comes with its message.                      *)
CountInv ==
    holder = "LiveClient" /\ pc = "idle" /\ first = text.version /\ Decodable(text.doc)
        => message # NoMessage /\ message.of = text

MessageIInv ==
    MessageType /\ BuiltInv /\ MessageInv /\ FailsOnlyOnNeeded /\ CountInv

LEMMA DocumentIs ==
  ASSUME NEW t \in Versions
  PROVE  /\ t.version \in Nat /\ IsDocument(t.doc) /\ t.doc \in Documents \cup Updates
         /\ \A p \in DOMAIN t.doc.damage : Within(p[1], Root)
         /\ t = [version |-> t.version, doc |-> t.doc]
BY MessageAssumption DEF Versions, DocumentsOf, MessageAssumption, Within

LEMMA RootIs == Root \in Roots
BY DEF Root, Roots

(* What goes with the holder stays as it is.                               *)
LEMMA HolderStays ==
  ASSUME UNCHANGED holder
  PROVE  /\ Root' = Root /\ Sections' = Sections /\ Versions' = Versions /\ Empty' = Empty
         /\ \A d : Says(d)' = Says(d)
BY DEF Root, Sections, Versions, DocumentsOf, Empty, Says, Places, DefaultPart

(* When every section has been decoded, that is the decoded root.          *)
LEMMA BuiltIsRoot ==
  ASSUME MessageType, BuiltInv, section > Len(Sections)
  PROVE  built = Decode(text.doc)[Root] /\ ~Decode(text.doc)[Root].fails
<1> DEFINE D == Decode(text.doc)
           o == D[Root]
<1>1. Root \in Names /\ Unassigned(Root) = {}
  BY RootIs, RootFields DEF Unassigned
<1>2. Read(Root) = {Sections[i] : i \in 1 .. Len(Sections)} /\ Len(Sections) \in {4, 7}
  BY RootIs, SectionsAreFields
<1>3. section - 1 = Len(Sections) BY <1>2 DEF MessageType
<1>4. /\ o \in Outcomes
      /\ o.fails <=> \E f \in Read(Root) : Field(text.doc, Root, f, D).fails
      /\ \A p : p \in o.dflt <=> \E f \in Read(Root) : p \in Field(text.doc, Root, f, D).dflt
      /\ \A p : p \in o.unset <=> \E f \in Read(Root) : p \in Field(text.doc, Root, f, D).unset
  BY <1>1, DecodeFields
<1>5. /\ ~(\E f \in Read(Root) : Field(text.doc, Root, f, D).fails)
      /\ \A p : p \in built.dflt <=> \E f \in Read(Root) : p \in Field(text.doc, Root, f, D).dflt
      /\ \A p : p \in built.unset <=> \E f \in Read(Root) : p \in Field(text.doc, Root, f, D).unset
  BY <1>2, <1>3 DEF BuiltInv, OutOf
<1> HIDE DEF D
<1>6. ~o.fails /\ ~built.fails BY <1>4, <1>5 DEF BuiltInv
<1>7. o.dflt = built.dflt /\ o.unset = built.unset
  BY <1>4, <1>5 DEF MessageType, Outcomes
<1>8. o = built
  <2>1. o.fails \in BOOLEAN /\ built.fails \in BOOLEAN BY <1>4 DEF MessageType, Outcomes
  <2>2. o.fails = built.fails BY <1>6, <2>1
  <2> QED BY <1>4, <1>7, <2>2 DEF MessageType, Outcomes
<1> QED BY <1>6, <1>8 DEF D

(* A section that fails makes the text one that cannot be decoded.         *)
LEMMA SectionFails ==
  ASSUME MessageType, section <= Len(Sections), OutOf(section).fails
  PROVE  ~Decodable(text.doc)
<1>1. Root \in Names /\ Root \in Roots BY RootIs, RootFields
<1>2. Sections[section] \in Read(Root)
  BY <1>1, SectionsAreFields DEF MessageType
<1>3. Decode(text.doc)[Root].fails BY <1>1, <1>2, DecodeFields DEF OutOf
<1>4. text \in Versions BY DEF MessageType
<1> QED BY <1>1, <1>3, <1>4, DocumentIs, DecodableIs

LEMMA MessageInitially == MessageInit => MessageIInv
<1> SUFFICES ASSUME MessageInit PROVE MessageIInv
  OBVIOUS
<1>1. Len(Sections) \in {4, 7} BY RootIs, SectionsAreFields
<1>2. text \in Versions /\ text.version = 1 BY DEF MessageInit, Versions, DocumentsOf
<1>3. Good \in Outcomes BY OutcomeIs DEF Good
<1>4. MessageType BY <1>1, <1>2, <1>3 DEF MessageInit, MessageType
<1>5. BuiltInv BY OutcomeFields DEF MessageInit, BuiltInv
<1>6. MessageInv BY DEF MessageInit, MessageInv
<1>7. FailsOnlyOnNeeded BY DEF MessageInit, FailsOnlyOnNeeded
<1>8. CountInv BY <1>2 DEF MessageInit, CountInv
<1> QED BY <1>4, <1>5, <1>6, <1>7, <1>8 DEF MessageIInv

(* Parts of the invariant that look at what a step leaves alone.           *)
LEMMA BuiltStays ==
  ASSUME BuiltInv, UNCHANGED <<holder, text, section, built>>,
         pc' = "idle" => section = 1, pc' = "decode" => text.doc.yaml
  PROVE  BuiltInv'
<1>1. \A i : OutOf(i)' = OutOf(i) BY HolderStays DEF OutOf
<1> QED BY <1>1 DEF BuiltInv

LEMMA MessageStays ==
  ASSUME MessageInv, UNCHANGED holder, message' = message \/ message' = NoMessage,
         text.version \in Nat,
         text' = text \/ (text'.version \in Nat /\ text.version < text'.version)
  PROVE  MessageInv'
<1>1. \A t : t \in Versions /\ MessageOf(t) /\ message' = message => MessageOf(t)'
  <2> SUFFICES ASSUME NEW t \in Versions, MessageOf(t), message' = message
               PROVE  MessageOf(t)'
    OBVIOUS
  <2>1. t.version \in Nat BY DEF Versions
  <2>2. t = text' \/ t.version < text'.version BY <2>1 DEF MessageOf
  <2>3. t \in Versions' /\ Says(t.doc)' = Says(t.doc) BY HolderStays
  <2> QED BY <2>2, <2>3 DEF MessageOf
<1> QED BY <1>1, HolderStays DEF MessageInv

LEMMA MessagePreserved == MessageIInv /\ [MessageNext]_messageVars => MessageIInv'
<1> SUFFICES ASSUME MessageIInv, [MessageNext]_messageVars PROVE MessageIInv'
  OBVIOUS
<1> USE DEF MessageIInv
<1>1. UNCHANGED holder
      /\ Root' = Root /\ Sections' = Sections /\ Versions' = Versions /\ Empty' = Empty
  <2>1. UNCHANGED holder
    BY DEF MessageNext, messageVars, NewText, resetSession, LoadYaml, Cached, DecodeSection, Assign
  <2> QED BY <2>1, HolderStays
<1>2. Len(Sections) \in {4, 7} BY RootIs, SectionsAreFields
<1>3. text.version \in Nat BY DocumentIs DEF MessageType
<1>4. Good \in Outcomes BY OutcomeIs DEF Good
<1>5. ASSUME UNCHANGED text, Decodable(text.doc) PROVE Decodable(text.doc)'
  BY <1>5
<1>6. CASE NewText
  <2>1. /\ pc = "idle" /\ UNCHANGED <<pc, section, built, first, message>> /\ result' = "none"
        /\ text' \in [version : {text.version + 1}, doc : DocumentsOf(Updates)]
    BY <1>6 DEF NewText
  <2>2. text' \in Versions /\ text'.version = text.version + 1
    BY <1>3, <2>1 DEF Versions, DocumentsOf
  <2>3. MessageType' BY <1>1, <1>3, <2>1, <2>2 DEF MessageType
  <2>4. BuiltInv'
    BY <2>1, OutcomeFields DEF BuiltInv
  <2>5. MessageInv'
    <3>1. text'.version \in Nat /\ text.version < text'.version BY <1>3, <2>2
    <3> QED BY <1>1, <1>3, <2>1, <3>1, MessageStays
  <2>6. FailsOnlyOnNeeded' BY <2>1 DEF FailsOnlyOnNeeded
  <2>7. CountInv' BY <1>3, <2>1, <2>2 DEF CountInv, MessageType
  <2> QED BY <2>3, <2>4, <2>5, <2>6, <2>7
<1>7. CASE resetSession
  <2>1. /\ pc = "idle" /\ UNCHANGED <<text, pc, section, built>> /\ result' = "none"
        /\ first' = -1 /\ message' = NoMessage
    BY <1>7 DEF resetSession
  <2>2. MessageType' BY <1>1, <1>3, <2>1 DEF MessageType
  <2>3. BuiltInv' BY <1>1, <2>1, BuiltStays DEF BuiltInv
  <2>4. MessageInv' BY <2>1 DEF MessageInv
  <2>5. FailsOnlyOnNeeded' BY <2>1 DEF FailsOnlyOnNeeded
  <2>6. CountInv' BY <1>3, <2>1 DEF CountInv
  <2> QED BY <2>2, <2>3, <2>4, <2>5, <2>6
<1>8. CASE LoadYaml
  <2>1. /\ pc = "idle" /\ UNCHANGED <<text, section, built>>
        /\ first' \in {first, text.version}
    BY <1>8 DEF LoadYaml
  <2>2. CASE text.doc.yaml
    <3>1. /\ pc' = "decode" /\ UNCHANGED result
          /\ message' = Empty \/ message' = message
      BY <1>8, <2>2 DEF LoadYaml
    <3>2. MessageType' BY <1>1, <1>3, <2>1, <3>1 DEF MessageType
    <3>3. BuiltInv' BY <1>1, <2>1, <2>2, <3>1, BuiltStays
    <3>4. MessageInv'
      <4>1. CASE message' = Empty BY <1>1, <4>1 DEF MessageInv
      <4>2. CASE message' = message BY <1>1, <1>3, <2>1, <4>2, MessageStays
      <4> QED BY <3>1, <4>1, <4>2
    <3>5. FailsOnlyOnNeeded' BY <2>1, <3>1 DEF FailsOnlyOnNeeded
    <3>6. CountInv' BY <3>1 DEF CountInv
    <3> QED BY <3>2, <3>3, <3>4, <3>5, <3>6
  <2>3. CASE ~text.doc.yaml
    <3>1. UNCHANGED <<pc, message>> /\ result' \in {"error", "throws"}
      BY <1>8, <2>3 DEF LoadYaml, Failed
    <3>2. ~Decodable(text.doc) BY <2>3 DEF Decodable
    <3>3. MessageType' BY <1>1, <1>3, <2>1, <3>1 DEF MessageType
    <3>4. BuiltInv' BY <1>1, <2>1, <3>1, BuiltStays DEF BuiltInv
    <3>5. MessageInv' BY <1>1, <1>3, <2>1, <3>1, MessageStays
    <3>6. FailsOnlyOnNeeded' BY <2>1, <3>1, <3>2 DEF FailsOnlyOnNeeded
    <3>7. CountInv' BY <2>1, <3>2 DEF CountInv
    <3> QED BY <3>3, <3>4, <3>5, <3>6, <3>7
  <2> QED BY <2>2, <2>3
<1>9. CASE Cached
  <2>1. UNCHANGED <<text, pc, section, built, first, message>> /\ result' = "cached"
    BY <1>9 DEF Cached
  <2>2. MessageType' BY <1>1, <2>1 DEF MessageType
  <2>3. BuiltInv' BY <1>1, <2>1, BuiltStays DEF BuiltInv
  <2>4. MessageInv' BY <1>1, <1>3, <2>1, MessageStays
  <2>5. FailsOnlyOnNeeded' BY <2>1 DEF FailsOnlyOnNeeded
  <2>6. CountInv' BY <1>1, <2>1 DEF CountInv
  <2> QED BY <2>2, <2>3, <2>4, <2>5, <2>6
<1>10. CASE DecodeSection
  <2>1. pc = "decode" /\ section <= Len(Sections) /\ UNCHANGED <<text, first, message>>
    BY <1>10 DEF DecodeSection
  <2>2. MessageInv' BY <1>1, <1>3, <2>1, MessageStays
  <2>3. CASE OutOf(section).fails
    <3>1. pc' = "idle" /\ section' = 1 /\ built' = Good /\ result' \in {"error", "throws"}
      BY <1>10, <2>3 DEF DecodeSection, Return, Failed, OutOf
    <3>2. ~Decodable(text.doc) BY <2>1, <2>3, SectionFails
    <3>3. MessageType' BY <1>1, <1>2, <1>4, <2>1, <3>1 DEF MessageType
    <3>4. BuiltInv' BY <3>1, OutcomeFields DEF BuiltInv
    <3>5. FailsOnlyOnNeeded' BY <2>1, <3>1, <3>2 DEF FailsOnlyOnNeeded
    <3>6. CountInv' BY <2>1, <3>2 DEF CountInv
    <3> QED BY <2>2, <3>3, <3>4, <3>5, <3>6
  <2>4. CASE ~OutOf(section).fails
    <3>1. /\ built' = Join({built, OutOf(section)}) /\ section' = section + 1
          /\ UNCHANGED <<pc, result>>
      BY <1>10, <2>4 DEF DecodeSection, OutOf
    <3>2. section \in 1 .. Len(Sections) /\ section \in Nat BY <1>2, <2>1 DEF MessageType
    <3>3. OutOf(section) \in Outcomes
      <4>1. Root \in Names /\ Sections[section] \in Read(Root)
        BY <3>2, RootIs, RootFields, SectionsAreFields
      <4> QED BY <4>1, DecodeFields DEF OutOf
    <3>4. /\ built' \in Outcomes
          /\ built'.fails <=> built.fails \/ OutOf(section).fails
          /\ \A p : p \in built'.dflt <=> p \in built.dflt \/ p \in OutOf(section).dflt
          /\ \A p : p \in built'.unset <=> p \in built.unset \/ p \in OutOf(section).unset
      <4>1. {built, OutOf(section)} \in SUBSET Outcomes BY <3>3 DEF MessageType
      <4> QED BY <3>1, <4>1, JoinIs
    <3>5. MessageType' BY <1>1, <1>2, <2>1, <3>1, <3>2, <3>4 DEF MessageType
    <3>6. BuiltInv'
      <4>1. \A i : OutOf(i)' = OutOf(i) BY <1>1, <2>1 DEF OutOf
      <4>2. \A i : i \in 1 .. section' - 1 <=> i \in 1 .. section - 1 \/ i = section
        BY <3>1, <3>2
      <4>3. ~built'.fails BY <2>4, <3>4 DEF BuiltInv
      <4>4. \A i \in 1 .. section' - 1 : ~OutOf(i).fails BY <2>4, <4>2 DEF BuiltInv
      <4>5. \A p : p \in built'.dflt <=> \E i \in 1 .. section' - 1 : p \in OutOf(i).dflt
        BY <3>4, <4>2 DEF BuiltInv
      <4>6. \A p : p \in built'.unset <=> \E i \in 1 .. section' - 1 : p \in OutOf(i).unset
        BY <3>4, <4>2 DEF BuiltInv
      <4> QED BY <2>1, <3>1, <4>1, <4>3, <4>4, <4>5, <4>6 DEF BuiltInv
    <3>7. FailsOnlyOnNeeded' BY <2>1, <3>1 DEF FailsOnlyOnNeeded
    <3>8. CountInv' BY <2>1, <3>1 DEF CountInv
    <3> QED BY <2>2, <3>5, <3>6, <3>7, <3>8
  <2> QED BY <2>3, <2>4
<1>11. CASE Assign
  <2>1. /\ pc = "decode" /\ section > Len(Sections) /\ UNCHANGED <<text, first>>
        /\ message' = [of |-> text, fields |-> built]
        /\ pc' = "idle" /\ section' = 1 /\ built' = Good /\ result' = "ok"
    BY <1>11 DEF Assign, Return
  <2>2. text \in Versions BY DEF MessageType
  <2>3. built = Decode(text.doc)[Root] /\ ~Decode(text.doc)[Root].fails
    BY <2>1, BuiltIsRoot
  <2>4. Decodable(text.doc)
    <3>1. text.doc.yaml BY <2>1 DEF BuiltInv
    <3> QED BY <2>2, <2>3, <3>1, DocumentIs, RootIs, DecodableIs
  <2>5. built = Says(text.doc) BY <2>2, <2>3, DocumentIs, RootIs, RootSays
  <2>6. MessageType' BY <1>1, <1>2, <1>4, <2>1 DEF MessageType
  <2>7. BuiltInv' BY <2>1, OutcomeFields DEF BuiltInv
  <2>8. MessageOf(text)'
    BY <1>1, <2>1, <2>2, <2>4, <2>5, HolderStays DEF MessageOf
  <2>9. MessageInv' BY <1>1, <2>1, <2>2, <2>8 DEF MessageInv
  <2>10. FailsOnlyOnNeeded' BY <2>1, <2>4 DEF FailsOnlyOnNeeded
  <2>11. CountInv'
    <3>1. message' # NoMessage
      <4>1. text \in [version : Nat, doc : Documents \cup Updates] BY <2>2, DocumentIs
      <4>2. built \in Outcomes BY DEF MessageType
      <4> QED BY <2>1, <4>1, <4>2, MessageAssumption DEF MessageAssumption
    <3> QED BY <2>1, <3>1 DEF CountInv
  <2> QED BY <2>6, <2>7, <2>9, <2>10, <2>11
<1>12. CASE UNCHANGED messageVars
  <2>1. UNCHANGED <<text, pc, section, built, first, message, result>>
    BY <1>12 DEF messageVars
  <2>2. MessageType' BY <1>1, <2>1 DEF MessageType
  <2>3. BuiltInv' BY <1>1, <2>1, BuiltStays DEF BuiltInv
  <2>4. MessageInv' BY <1>1, <1>3, <2>1, MessageStays
  <2>5. FailsOnlyOnNeeded' BY <2>1 DEF FailsOnlyOnNeeded
  <2>6. CountInv' BY <1>1, <2>1 DEF CountInv
  <2> QED BY <2>2, <2>3, <2>4, <2>5, <2>6
<1> QED BY <1>6, <1>7, <1>8, <1>9, <1>10, <1>11, <1>12 DEF MessageNext

-----------------------------------------------------------------------------
LEMMA MessageInvariance == MessageSpec => []MessageIInv
<1>1. MessageInit => MessageIInv BY MessageInitially
<1>2. MessageIInv /\ [MessageNext]_messageVars => MessageIInv' BY MessagePreserved
<1> QED BY <1>1, <1>2, PTL DEF MessageSpec

(* A message is at any time empty or that of one whole text, for documents *)
(* with any combination of damage: decoding comes to what Says says of the *)
(* text.                                                                   *)
THEOREM MessageSaysHolds == MessageSpec => []MessageSays
<1>1. MessageIInv => MessageSays
  <2> SUFFICES ASSUME MessageIInv, message # NoMessage, message # Empty
               PROVE  /\ message.of # NoMessage
                      /\ Decodable(message.of.doc) /\ message.fields = Says(message.of.doc)
    BY DEF MessageSays
  <2>1. PICK t \in Versions : MessageOf(t) BY DEF MessageIInv, MessageInv
  <2>2. message.of = t /\ message.fields = Says(t.doc) BY <2>1 DEF MessageOf
  <2>3. t \in [version : Nat, doc : Documents \cup Updates] BY DocumentIs
  <2>4. t # NoMessage BY <2>3, MessageAssumption DEF MessageAssumption
  <2> QED BY <2>1, <2>2, <2>4 DEF MessageOf
<1> QED BY <1>1, MessageInvariance, PTL

(* A call fails exactly for the documents that lack something without a    *)
(* default.                                                                *)
THEOREM FailuresAreNeeded == MessageSpec => []FailsOnlyOnNeeded
<1>1. MessageIInv => FailsOnlyOnNeeded BY DEF MessageIInv
<1> QED BY <1>1, MessageInvariance, PTL

(* The live client's count is that of its message, but for a text that     *)
(* cannot be decoded, under whose count there is none, an empty one or one *)
(* of an earlier text.                                                     *)
THEOREM CountIsOfMessage == MessageSpec => []CountOfMessage
<1>1. MessageIInv => CountOfMessage
  <2> SUFFICES ASSUME MessageIInv, holder = "LiveClient", pc = "idle", first = text.version
               PROVE  /\ Decodable(text.doc) => message # NoMessage /\ message.of = text
                      /\ ~Decodable(text.doc) =>
                           message \in {NoMessage, Empty} \/ message.of.version < text.version
    BY DEF CountOfMessage
  <2>1. Decodable(text.doc) => message # NoMessage /\ message.of = text
    BY DEF MessageIInv, CountInv
  <2>2. ASSUME ~Decodable(text.doc), message \notin {NoMessage, Empty}
        PROVE  message.of.version < text.version
    <3>1. PICK t \in Versions : MessageOf(t) BY <2>2 DEF MessageIInv, MessageInv
    <3>2. message.of = t /\ t # text BY <2>2, <3>1 DEF MessageOf
    <3> QED BY <3>1, <3>2 DEF MessageOf
  <2> QED BY <2>1, <2>2
<1> QED BY <1>1, MessageInvariance, PTL

-----------------------------------------------------------------------------
(* YamlParser.  The lines of a text.                                       *)

Lines == 1 .. Len(data)

(* A call is about a text and a path there can be.                         *)
Input == data \in YamlTexts /\ path \in Paths

LEMMA InputIs ==
  ASSUME Input
  PROVE  /\ Len(data) \in Nat /\ DOMAIN data = Lines
         /\ \A i \in Lines : data[i].depth \in Nat /\ data[i].item \in BOOLEAN
         /\ Len(path) \in Nat /\ Len(path) >= 1 /\ DOMAIN path = 1 .. Len(path)
BY ParserAssumption DEF Input, ParserAssumption, IsSequence, Lines

LEMMA MaxIs ==
  ASSUME NEW n \in Nat, NEW T \in SUBSET (0 .. n), T # {}
  PROVE  Max(T) \in T /\ \A y \in T : y <= Max(T)
<1>1. PICK x \in T : \A y \in T : y <= x BY Greatest
<1>2. \A y \in T : x >= y BY <1>1
<1>3. Max(T) \in T /\ \A y \in T : Max(T) >= y BY <1>2 DEF Max
<1> QED BY <1>3

(* The parent of a line is the last line before it that is less deep.      *)
LEMMA ParentIs ==
  ASSUME Input, NEW i \in Lines
  PROVE  /\ Parent(i) \in 0 .. i - 1
         /\ Parent(i) # 0 => Parent(i) \in Lines /\ data[Parent(i)].depth < data[i].depth
         /\ \A j \in Parent(i) + 1 .. i - 1 : data[j].depth >= data[i].depth
<1> DEFINE T == {0} \cup {j \in 1 .. (i - 1) : data[j].depth < data[i].depth}
<1>1. Len(data) \in Nat /\ i \in Nat /\ i - 1 \in Nat /\ i <= Len(data) BY InputIs DEF Lines
<1>2. T \in SUBSET (0 .. i - 1) /\ T # {} BY <1>1
<1>3. Max(T) \in T /\ \A y \in T : y <= Max(T)
  <2> HIDE DEF T
  <2> QED BY <1>1, <1>2, MaxIs
<1>4. Parent(i) = Max(T) BY DEF Parent
<1> DEFINE p == Max(T)
<1> HIDE DEF p
<1>5. Parent(i) = p /\ p \in T /\ \A y \in T : y <= p BY <1>3, <1>4 DEF p
<1>6. \A j \in p + 1 .. i - 1 : data[j].depth >= data[i].depth
  <2> SUFFICES ASSUME NEW j \in p + 1 .. i - 1 PROVE data[j].depth >= data[i].depth
    OBVIOUS
  <2>1. p \in Nat /\ j \in 1 .. i - 1 /\ j > p BY <1>2, <1>5
  <2>2. j \notin T BY <1>5, <2>1
  <2>3. j \in Lines BY <1>1, <2>1 DEF Lines
  <2>4. data[j].depth \in Nat /\ data[i].depth \in Nat BY <2>3, InputIs
  <2> QED BY <2>1, <2>2, <2>4
<1>7. p # 0 => p \in Lines /\ data[p].depth < data[i].depth BY <1>1, <1>5 DEF Lines
<1> QED BY <1>2, <1>5, <1>6, <1>7

LEMMA ParentUnique ==
  ASSUME Input, NEW i \in Lines, NEW p \in 1 .. i - 1, data[p].depth < data[i].depth,
         \A j \in p + 1 .. i - 1 : data[j].depth >= data[i].depth
  PROVE  Parent(i) = p
<1> DEFINE q == Parent(i)
<1>1. q \in 0 .. i - 1 BY ParentIs
<1>2. q # 0 => data[q].depth < data[i].depth BY ParentIs
<1>3. \A j \in q + 1 .. i - 1 : data[j].depth >= data[i].depth BY ParentIs
<1>4. i \in Nat /\ p \in Lines /\ p \in Nat BY InputIs DEF Lines
<1>5. data[p].depth \in Nat /\ data[i].depth \in Nat BY <1>4, InputIs
<1> HIDE DEF q
<1>6. ~(q < p)
  <2> SUFFICES ASSUME q < p PROVE FALSE OBVIOUS
  <2>1. p \in q + 1 .. i - 1 BY <1>1, <1>4
  <2> QED BY <1>3, <1>5, <2>1
<1>7. ~(q > p)
  <2> SUFFICES ASSUME q > p PROVE FALSE OBVIOUS
  <2>1. q \in p + 1 .. i - 1 /\ q # 0 /\ q \in Lines BY <1>1, <1>4, InputIs DEF Lines
  <2>2. data[q].depth >= data[i].depth /\ data[q].depth \in Nat BY <2>1, InputIs
  <2> QED BY <1>2, <1>5, <2>1, <2>2
<1>8. q = p BY <1>1, <1>4, <1>6, <1>7
<1> QED BY <1>8 DEF q

(* What is less deep than a line and before it is its parent or before     *)
(* that.                                                                   *)
LEMMA ParentAfter ==
  ASSUME Input, NEW i \in Lines, NEW p \in 1 .. i - 1, data[p].depth < data[i].depth
  PROVE  Parent(i) \in p .. i - 1 /\ Parent(i) \in Lines
<1> DEFINE q == Parent(i)
<1>1. q \in 0 .. i - 1 /\ \A j \in q + 1 .. i - 1 : data[j].depth >= data[i].depth BY ParentIs
<1>2. i \in Nat /\ p \in Lines /\ p \in Nat BY InputIs DEF Lines
<1>3. data[p].depth \in Nat /\ data[i].depth \in Nat BY <1>2, InputIs
<1> HIDE DEF q
<1>4. ~(q < p)
  <2> SUFFICES ASSUME q < p PROVE FALSE OBVIOUS
  <2>1. p \in q + 1 .. i - 1 BY <1>1, <1>2
  <2> QED BY <1>1, <1>3, <2>1
<1>5. q \in p .. i - 1 /\ q # 0 BY <1>1, <1>2, <1>4
<1>6. q \in Lines BY <1>5, ParentIs DEF q
<1> QED BY <1>5, <1>6 DEF q

(* The entry of a line is the last item beside it that is not after it.    *)
LEMMA EntryIs ==
  ASSUME Input, NEW i \in Lines
  PROVE  /\ Entry(i) \in 0 .. i
         /\ Entry(i) # 0 =>
              Entry(i) \in Lines /\ Parent(Entry(i)) = Parent(i) /\ data[Entry(i)].item
         /\ \A j \in Entry(i) + 1 .. i : ~(Parent(j) = Parent(i) /\ data[j].item)
<1> DEFINE T == {0} \cup {j \in 1 .. i : Parent(j) = Parent(i) /\ data[j].item}
<1>1. Len(data) \in Nat /\ i \in Nat /\ i <= Len(data) BY InputIs DEF Lines
<1>2. T \in SUBSET (0 .. i) /\ T # {} BY <1>1
<1>3. Max(T) \in T /\ \A y \in T : y <= Max(T)
  <2> HIDE DEF T
  <2> QED BY <1>1, <1>2, MaxIs
<1>4. Entry(i) = Max(T) BY DEF Entry
<1> DEFINE p == Max(T)
<1> HIDE DEF p
<1>5. Entry(i) = p /\ p \in T /\ \A y \in T : y <= p BY <1>3, <1>4 DEF p
<1>6. \A j \in p + 1 .. i : ~(Parent(j) = Parent(i) /\ data[j].item)
  <2> SUFFICES ASSUME NEW j \in p + 1 .. i PROVE ~(Parent(j) = Parent(i) /\ data[j].item)
    OBVIOUS
  <2>1. p \in Nat /\ j \in 1 .. i /\ j > p BY <1>2, <1>5
  <2>2. j \notin T BY <1>5, <2>1
  <2> QED BY <2>1, <2>2
<1>7. p # 0 => p \in Lines /\ Parent(p) = Parent(i) /\ data[p].item BY <1>1, <1>5 DEF Lines
<1> QED BY <1>2, <1>5, <1>6, <1>7

LEMMA ItemIsEntry ==
  ASSUME Input, NEW i \in Lines, data[i].item
  PROVE  Entry(i) = i
<1>1. Entry(i) \in 0 .. i /\ \A j \in Entry(i) + 1 .. i : ~(Parent(j) = Parent(i) /\ data[j].item)
  BY EntryIs
<1>2. i \in Nat BY InputIs DEF Lines
<1>3. ~(Entry(i) < i)
  <2> SUFFICES ASSUME Entry(i) < i PROVE FALSE OBVIOUS
  <2>1. i \in Entry(i) + 1 .. i BY <1>1, <1>2
  <2> QED BY <1>1, <2>1
<1> QED BY <1>1, <1>2, <1>3

(* What is selected at one step follows from what is at the one before.    *)
LEMMA SelectedIs ==
  ASSUME Input
  PROVE  /\ Selected(1) = {i \in Lines : data[i].depth = 0 /\ Carries(1, i)}
         /\ \A k \in 2 .. Len(path) : Selected(k) =
              {j \in Lines : Carries(k, j) /\ \E i \in Selected(k - 1) : Follows(k - 1, i, j)}
<1> DEFINE n == Len(path)
           V == SUBSET Lines
           First == {i \in Lines : data[i].depth = 0 /\ Carries(1, i)}
           After(k, T) == {j \in Lines : Carries(k, j) /\ \E i \in T : Follows(k - 1, i, j)}
           Def(f) == [k \in 1 .. n |-> IF k = 1 THEN First ELSE After(k, f[k - 1])]
           s == [x \in (1 .. n) \X V |-> IF x[1] = 1 THEN First ELSE After(x[1], x[2])]
           S == CHOOSE f : f = Def(f)
<1>1. n \in Nat /\ n >= 1 /\ DOMAIN path = 1 .. n /\ DOMAIN data = Lines BY InputIs
<1> HIDE DEF n
<1>2. First \in V /\ \A k \in 1 .. n, T \in V : After(k, T) \in V OBVIOUS
<1> HIDE DEF First, After, V
<1>3. s \in [(1 .. n) \X V -> V]
  <2>1. ASSUME NEW x \in (1 .. n) \X V
        PROVE  (IF x[1] = 1 THEN First ELSE After(x[1], x[2])) \in V
    <3>1. x[1] \in 1 .. n /\ x[2] \in V OBVIOUS
    <3> QED BY <1>2, <3>1
  <2> QED BY <2>1
<1>4. \E f : f = Def(f)
  <2> HIDE DEF s
  <2>1. PICK f \in [1 .. n -> V] : LoopFrom(f, 1, n, First, s)
    <3>1. 1 \in Nat /\ n \in Nat BY <1>1
    <3> QED BY <3>1, <1>2, <1>3, LoopRuns, Zenon
  <2>2. ASSUME NEW k \in 1 .. n, k # 1 PROVE s[<<k, f[k - 1]>>] = After(k, f[k - 1])
    <3>1. k - 1 \in 1 .. n BY <1>1, <2>2
    <3>2. <<k, f[k - 1]>> \in (1 .. n) \X V BY <3>1
    <3> QED BY <2>2, <3>2 DEF s
  <2>3. \A k \in 1 .. n : f[k] = Def(f)[k] BY <2>1, <2>2 DEF LoopFrom
  <2>4. f = Def(f) BY <2>3
  <2> QED BY <2>4
<1>5. S = Def(S)
  <2> HIDE DEF Def
  <2> QED BY <1>4
<1>6. \A k : Selected(k) = S[k] BY <1>1 DEF Selected, First, After, n
<1> HIDE DEF S
<1>7. S[1] = First /\ \A k \in 2 .. n : S[k] = After(k, S[k - 1])
  <2>1. 1 \in 1 .. n BY <1>1
  <2>2. \A k \in 2 .. n : k \in 1 .. n /\ k # 1 BY <1>1
  <2> QED BY <1>5, <2>1, <2>2
<1>8. Selected(1) = First /\ \A k \in 2 .. n : Selected(k) = After(k, Selected(k - 1))
  BY <1>6, <1>7
<1> QED BY <1>8 DEF First, After, n
-----------------------------------------------------------------------------
(* The section of a path, in a text it is meant for.                       *)

Meant == Input /\ Straight /\ Tidy

Start == CHOOSE s : s \in Selected(1)

LEMMA StepsOf ==
  ASSUME Meant
  PROVE  /\ \A k, l \in 1 .. Len(path) : path[k].key = path[l].key => k = l
         /\ \A k \in 1 .. Len(path) : k = 1 \/ k < Len(path) - 1 => path[k].value = Untested
BY InputIs DEF Meant, Straight

LEMMA SectionIs ==
  ASSUME Meant
  PROVE  /\ Start \in Lines /\ Selected(1) = {Start}
         /\ data[Start].depth = 0 /\ data[Start].key = path[1].key
         /\ \A j \in Lines : data[j].key = path[1].key => j = Start
         /\ Section = {i \in Lines : Start <= i /\ \A j \in Start + 1 .. i : data[j].depth > 0}
<1>1. Input /\ DOMAIN data = Lines BY InputIs DEF Meant
<1>2. PICK s \in Selected(1) : \A j \in Lines : data[j].key = path[1].key => j = s
  BY <1>1 DEF Meant, Tidy
<1>3. \A i \in Selected(1) : i \in Lines /\ data[i].depth = 0 /\ data[i].key = path[1].key
  BY <1>1, SelectedIs DEF Carries
<1>4. Selected(1) = {s} BY <1>2, <1>3
<1>5. Start = s BY <1>4 DEF Start
<1>6. Section = {i \in Lines : Start <= i /\ \A j \in Start + 1 .. i : data[j].depth > 0}
  BY <1>1, <1>4, <1>5 DEF Section
<1> QED BY <1>2, <1>3, <1>4, <1>5, <1>6

LEMMA InSection ==
  ASSUME Meant, NEW i \in Section
  PROVE  /\ i \in Lines /\ Start <= i
         /\ \A j \in Start + 1 .. i : data[j].depth > 0
BY SectionIs

(* Whatever is deeper than the first line of the section is still in it.   *)
LEMMA SectionGrows ==
  ASSUME Meant, NEW a \in Section, NEW b \in Lines, a <= b,
         \A x \in a + 1 .. b : data[x].depth > 0
  PROVE  b \in Section
<1>1. a \in Lines /\ Start \in Lines /\ Start <= a /\ \A j \in Start + 1 .. a : data[j].depth > 0
  BY SectionIs
<1>2. a \in Nat /\ b \in Nat /\ Start \in Nat BY <1>1, InputIs DEF Lines, Meant
<1>3. \A j \in Start + 1 .. b : data[j].depth > 0
  <2> TAKE j \in Start + 1 .. b
  <2>1. j \in Start + 1 .. a \/ j \in a + 1 .. b BY <1>2
  <2> QED BY <1>1, <2>1
<1>4. Start <= b BY <1>1, <1>2
<1> QED BY <1>3, <1>4, SectionIs

(* A key of the path is where the path has it: below the one before.       *)
LEMMA KeyAbove ==
  ASSUME Meant, NEW k \in 2 .. Len(path), path[k - 1].value = Untested,
         NEW j \in Section, data[j].key = path[k].key
  PROVE  Parent(j) \in Section /\ data[Parent(j)].key = path[k - 1].key
<1>1. \E i \in Section : data[i].key = path[k - 1].key /\ Follows(k - 1, i, j)
  BY DEF Meant, Tidy
<1> QED BY <1>1 DEF Follows

LEMMA SelectedFrom ==
  ASSUME Input, NEW k \in 1 .. Len(path), NEW c \in Selected(k)
  PROVE  /\ c \in Lines /\ Carries(k, c)
         /\ k > 1 => \E i \in Selected(k - 1) : Follows(k - 1, i, c)
         /\ k > 1 /\ path[k - 1].value = Untested => Parent(c) \in Selected(k - 1)
<1>1. CASE k = 1 BY <1>1, SelectedIs
<1>2. CASE k > 1
  <2>1. k \in 2 .. Len(path) BY <1>2, InputIs
  <2>2. c \in Lines /\ Carries(k, c) /\ \E i \in Selected(k - 1) : Follows(k - 1, i, c)
    BY <2>1, SelectedIs
  <2> QED BY <2>2 DEF Follows
<1> QED BY <1>1, <1>2, InputIs

LEMMA SelectedInSection ==
  ASSUME Meant
  PROVE  \A k \in 1 .. Len(path) : k = 1 \/ path[k - 1].value = Untested =>
           \A c \in Selected(k) : c \in Section /\ (k > 1 => data[c].depth > 0)
<1> DEFINE Ok(k) == \A c \in Selected(k) : c \in Section /\ (k > 1 => data[c].depth > 0)
           Bad == {k \in Nat : /\ k \in 1 .. Len(path)
                               /\ k = 1 \/ path[k - 1].value = Untested
                               /\ ~Ok(k)}
<1>1. Input /\ Len(path) \in Nat BY InputIs DEF Meant
<1>2. Bad = {}
  <2> SUFFICES ASSUME Bad # {} PROVE FALSE OBVIOUS
  <2>1. PICK k \in Bad : \A l \in Bad : k <= l
    <3> HIDE DEF Ok
    <3> QED BY Least
  <2>2. k \in 1 .. Len(path) /\ (k = 1 \/ path[k - 1].value = Untested) OBVIOUS
  <2>3. CASE k = 1
    <3>1. Start \in Section
      <4>1. Start \in Lines /\ Start \in Nat BY SectionIs, InputIs DEF Lines
      <4>2. Start + 1 .. Start = {} BY <4>1
      <4> QED BY <4>1, <4>2, SectionIs
    <3>2. Ok(k) BY <2>3, <3>1, SectionIs
    <3> HIDE DEF Ok
    <3> QED BY <3>2
  <2>4. CASE k # 1
    <3> SUFFICES ASSUME NEW c \in Selected(k) PROVE c \in Section /\ data[c].depth > 0
      <4>1. Ok(k) OBVIOUS
      <4> HIDE DEF Ok
      <4> QED BY <4>1
    <3> DEFINE p == Parent(c)
    <3>1. c \in Lines /\ p \in Selected(k - 1) BY <1>1, <2>2, <2>4, SelectedFrom
    <3>2. k - 1 \in 1 .. Len(path) BY <1>1, <2>2, <2>4
    <3>3. k - 1 = 1 \/ path[k - 1 - 1].value = Untested
      <4>1. k - 1 # 1 => k - 1 - 1 \in 1 .. Len(path) /\ k - 1 - 1 < Len(path) - 1
        BY <1>1, <2>2, <2>4
      <4> QED BY <4>1, StepsOf
    <3>4. p \in Section
      <4>1. k - 1 \in Nat /\ ~(k <= k - 1) BY <2>2, <2>4
      <4>2. k - 1 \notin Bad BY <2>1, <4>1
      <4>3. Ok(k - 1)
        <5> HIDE DEF Ok
        <5> QED BY <3>2, <3>3, <4>1, <4>2
      <4> QED BY <3>1, <4>3
    <3>5. p \in Lines /\ p \in Nat /\ p # 0 BY <3>4, InSection, InputIs DEF Lines
    <3>6. /\ p \in 0 .. c - 1
          /\ data[p].depth < data[c].depth
          /\ \A j \in p + 1 .. c - 1 : data[j].depth >= data[c].depth
      BY <1>1, <3>1, <3>5, ParentIs
    <3> HIDE DEF p
    <3>7. c \in Nat /\ p <= c BY <1>1, <3>1, <3>5, <3>6, InputIs DEF Lines
    <3>8. data[p].depth \in Nat /\ data[c].depth \in Nat BY <1>1, <3>1, <3>5, InputIs
    <3>9. data[c].depth > 0 BY <3>6, <3>8
    <3>10. ASSUME NEW x \in p + 1 .. c PROVE data[x].depth > 0
      <4>1. CASE x = c BY <3>9, <4>1
      <4>2. CASE x # c
        <5>1. x \in p + 1 .. c - 1 BY <3>5, <3>7, <4>2
        <5>2. x \in Lines BY <1>1, <3>1, <3>5, <3>7, InputIs DEF Lines
        <5>3. data[x].depth >= data[c].depth /\ data[x].depth \in Nat
          BY <1>1, <3>6, <5>1, <5>2, InputIs
        <5> QED BY <3>8, <3>9, <5>3
      <4> QED BY <4>1, <4>2
    <3> QED BY <3>1, <3>4, <3>7, <3>9, <3>10, SectionGrows
  <2> QED BY <2>3, <2>4
<1> HIDE DEF Ok
<1>3. \A k \in 1 .. Len(path) : k = 1 \/ path[k - 1].value = Untested => Ok(k)
  BY <1>1, <1>2
<1> QED BY <1>3 DEF Ok

(* Line x is below line p.                                                 *)
Inside(x, p) == x > p /\ \A y \in p + 1 .. x : data[y].depth > data[p].depth

(* Below a line with a key of the path none has that key or an earlier one.*)
LEMMA NoneBelow ==
  ASSUME Meant, NEW k \in 1 .. Len(path) - 1, NEW p \in Section, data[p].key = path[k].key
  PROVE  \A l \in 1 .. k, x \in Section : Inside(x, p) => data[x].key # path[l].key
<1> DEFINE Lower(l) == \E x \in Section : Inside(x, p) /\ data[x].key = path[l].key
           Bad == {l \in Nat : l \in 1 .. k /\ Lower(l)}
<1>1. Input /\ Len(path) \in Nat /\ Len(data) \in Nat BY InputIs DEF Meant
<1>2. p \in Lines /\ p \in Nat /\ Start <= p /\ Start \in Nat
  BY <1>1, InSection, SectionIs DEF Lines
<1>3. Bad = {}
  <2> SUFFICES ASSUME Bad # {} PROVE FALSE OBVIOUS
  <2>1. PICK l \in Bad : \A m \in Bad : l <= m
    <3> HIDE DEF Lower
    <3> QED BY Least
  <2>2. l \in 1 .. k /\ Lower(l) OBVIOUS
  <2>3. PICK x \in Section : Inside(x, p) /\ data[x].key = path[l].key BY <2>2
  <2>4. x \in Lines /\ x \in Nat /\ x > p /\ data[p].depth < data[x].depth
    <3>1. x \in Lines /\ x > p BY <2>3, InSection DEF Inside
    <3>2. x \in Nat /\ x \in p + 1 .. x BY <1>1, <1>2, <3>1 DEF Lines
    <3> QED BY <2>3, <3>1, <3>2 DEF Inside
  <2>5. l # 1
    <3>1. data[x].key = path[1].key => x = Start BY <2>4, SectionIs
    <3> QED BY <1>2, <2>3, <2>4, <3>1
  <2> DEFINE q == Parent(x)
  <2>6. q \in Section /\ data[q].key = path[l - 1].key
    <3>1. l \in 2 .. Len(path) BY <1>1, <2>2, <2>5
    <3>2. l - 1 \in 1 .. Len(path) /\ (l - 1 = 1 \/ l - 1 < Len(path) - 1)
      BY <1>1, <2>2, <2>5
    <3>3. path[l - 1].value = Untested BY <3>2, StepsOf
    <3> QED BY <2>3, <3>1, <3>3, KeyAbove
  <2>7. q \in p .. x - 1
    <3>1. p \in 1 .. x - 1 BY <1>1, <1>2, <2>4 DEF Lines
    <3> QED BY <1>1, <2>4, <3>1, ParentAfter
  <2> HIDE DEF q
  <2>8. q # p
    <3>1. k \in 1 .. Len(path) /\ l - 1 \in 1 .. Len(path) /\ l - 1 # k
      BY <1>1, <2>2, <2>5
    <3> QED BY <2>6, <3>1, StepsOf
  <2>9. Inside(q, p)
    <3>1. \A y \in p + 1 .. q : y \in p + 1 .. x BY <1>2, <2>4, <2>7
    <3>2. q > p BY <1>2, <2>7, <2>8
    <3> QED BY <2>3, <3>1, <3>2 DEF Inside
  <2>10. l - 1 \in Nat /\ l - 1 \in 1 .. k /\ ~(l <= l - 1) BY <2>2, <2>5
  <2>11. Lower(l - 1) BY <2>6, <2>9
  <2> HIDE DEF Lower
  <2> QED BY <2>1, <2>10, <2>11
<1>4. \A l \in 1 .. k : ~Lower(l)
  <2> HIDE DEF Lower
  <2> QED BY <1>3
<1> QED BY <1>4
-----------------------------------------------------------------------------
(* What the scan takes for the next step is the next step.                 *)

(* From line c, which the scan matched last for step m, it has come to     *)
(* line b.                                                                 *)
Passed(m, c, b) ==
    /\ c < b
    /\ \A x \in c + 1 .. b - 1 : data[x].depth >= data[c].depth /\ ~Carries(m + 1, x)

LEMMA CarriesKey ==
  ASSUME Input, NEW k \in 1 .. Len(path), NEW i \in Lines
  PROVE  /\ Carries(k, i) => data[i].key = path[k].key
         /\ path[k].value = Untested => (Carries(k, i) <=> data[i].key = path[k].key)
BY DEF Carries

(* From the first line of the section to the first key in it.              *)
LEMMA FirstDescent ==
  ASSUME Meant, Len(path) > 1, Selected(2) # {}, NEW b \in Lines,
         Passed(1, Start, b), Carries(2, b)
  PROVE  b \in Selected(2)
<1>1. Input /\ Len(path) \in Nat /\ Len(data) \in Nat BY InputIs DEF Meant
<1>2. 1 \in 1 .. Len(path) /\ 2 \in 1 .. Len(path) /\ 2 \in 2 .. Len(path) /\ 2 - 1 = 1 BY <1>1
<1>3. path[1].value = Untested /\ path[2 - 1].value = Untested BY <1>2, StepsOf
<1>4. PICK e \in Selected(2) : TRUE OBVIOUS
<1>5. e \in Lines /\ Carries(2, e) /\ Parent(e) \in Selected(1)
  BY <1>1, <1>2, <1>3, <1>4, SelectedFrom
<1>6. e \in Section BY <1>2, <1>3, <1>4, SelectedInSection
<1>7. Parent(e) = Start /\ Start \in Lines /\ data[Start].depth = 0 BY <1>5, SectionIs
<1>8. /\ Start \in Nat /\ e \in Nat /\ b \in Nat /\ Start # 0
      /\ Start < b /\ Start < e
  <2>1. Start \in Nat /\ e \in Nat /\ b \in Nat /\ Start # 0 BY <1>1, <1>5, <1>7 DEF Lines
  <2>2. Parent(e) \in 0 .. e - 1 BY <1>1, <1>5, ParentIs
  <2>3. Start < b BY DEF Passed
  <2> QED BY <1>7, <2>1, <2>2, <2>3
<1>9. b <= e
  <2> SUFFICES ASSUME e < b PROVE FALSE BY <1>8
  <2>1. e \in Start + 1 .. b - 1 BY <1>8
  <2> QED BY <1>5, <2>1 DEF Passed
<1>10. b \in Section
  <2>1. \A x \in Start + 1 .. b : x \in Start + 1 .. e BY <1>8, <1>9
  <2>2. \A x \in Start + 1 .. e : data[x].depth > 0 BY <1>6, InSection
  <2> QED BY <1>8, <2>1, <2>2, SectionIs
<1>11. data[b].key = path[2].key BY <1>1, <1>2, CarriesKey
<1>12. Parent(b) \in Section /\ data[Parent(b)].key = path[1].key
  BY <1>2, <1>3, <1>10, <1>11, KeyAbove
<1>13. Parent(b) = Start BY <1>12, InSection, SectionIs
<1>14. Start \in Selected(1) /\ Follows(1, Start, b) BY <1>3, <1>13, SectionIs DEF Follows
<1> QED BY <1>1, <1>2, <1>14, SelectedIs

(* Two lines, of which the later is no less deep and neither is anything   *)
(* between them: they have the same parent, or that of the later is the    *)
(* earlier one or after it.                                                *)
LEMMA ParentsOf ==
  ASSUME Input, NEW c \in Lines, NEW b \in Lines, c < b,
         \A x \in c + 1 .. b : data[x].depth >= data[c].depth
  PROVE  Parent(b) = Parent(c) \/ (Parent(b) \in c .. b - 1 /\ Parent(b) \in Lines)
<1>1. Len(data) \in Nat /\ c \in Nat /\ b \in Nat /\ b \in c + 1 .. b BY InputIs DEF Lines
<1>2. data[c].depth \in Nat /\ data[b].depth \in Nat /\ data[b].depth >= data[c].depth
  BY <1>1, InputIs
<1>3. CASE data[b].depth > data[c].depth
  <2>1. c \in 1 .. b - 1 BY <1>1 DEF Lines
  <2>2. data[c].depth < data[b].depth BY <1>2, <1>3
  <2> QED BY <2>1, <2>2, ParentAfter
<1>4. CASE data[b].depth = data[c].depth
  <2> DEFINE q == Parent(b)
             p == Parent(c)
  <2>1. /\ q \in 0 .. b - 1
        /\ q # 0 => q \in Lines /\ data[q].depth < data[b].depth
        /\ \A j \in q + 1 .. b - 1 : data[j].depth >= data[b].depth
    BY ParentIs
  <2>2. /\ p \in 0 .. c - 1
        /\ p # 0 => p \in Lines /\ data[p].depth < data[c].depth
        /\ \A j \in p + 1 .. c - 1 : data[j].depth >= data[c].depth
    BY ParentIs
  <2> HIDE DEF p, q
  <2>3. ~(q > p /\ q < c)
    <3> SUFFICES ASSUME q > p, q < c PROVE FALSE OBVIOUS
    <3>1. q \in p + 1 .. c - 1 /\ q # 0 BY <1>1, <2>1, <2>2
    <3>2. data[q].depth \in Nat BY <2>1, <3>1, InputIs
    <3> QED BY <1>2, <1>4, <2>1, <2>2, <3>1, <3>2
  <2>4. ~(q < p)
    <3> SUFFICES ASSUME q < p PROVE FALSE OBVIOUS
    <3>1. p \in q + 1 .. b - 1 /\ p # 0 BY <1>1, <2>1, <2>2
    <3>2. data[p].depth \in Nat BY <2>2, <3>1, InputIs
    <3> QED BY <1>2, <1>4, <2>1, <2>2, <3>1, <3>2
  <2>5. q = p \/ (q \in c .. b - 1 /\ q \in Lines) BY <1>1, <2>1, <2>2, <2>3, <2>4
  <2> QED BY <2>5 DEF p, q
<1> QED BY <1>2, <1>3, <1>4

(* All between a line and one that it is the parent of is below it.        *)
LEMMA InsideParent ==
  ASSUME Input, NEW i \in Lines, NEW x, Parent(i) # 0, Parent(i) < x, x <= i, x \in Nat
  PROVE  Inside(x, Parent(i))
<1> DEFINE p == Parent(i)
<1>1. /\ p \in 0 .. i - 1 /\ p \in Lines /\ data[p].depth < data[i].depth
      /\ \A j \in p + 1 .. i - 1 : data[j].depth >= data[i].depth
  BY ParentIs
<1>2. Len(data) \in Nat /\ i \in Nat BY InputIs DEF Lines
<1>3. p < x OBVIOUS
<1> HIDE DEF p
<1>4. ASSUME NEW y \in p + 1 .. x PROVE data[y].depth > data[p].depth
  <2>1. y \in Lines /\ (y = i \/ y \in p + 1 .. i - 1) BY <1>1, <1>2 DEF Lines
  <2>2. data[y].depth \in Nat /\ data[i].depth \in Nat /\ data[p].depth \in Nat
    BY <1>1, <2>1, InputIs
  <2>3. data[y].depth >= data[i].depth BY <1>1, <2>1, <2>2
  <2> QED BY <1>1, <2>2, <2>3
<1> QED BY <1>3, <1>4 DEF Inside, p

(* Where a line that is selected after the first one is.                   *)
LEMMA SelectedBelow ==
  ASSUME Meant, NEW m \in 2 .. Len(path) - 1, NEW c \in Selected(m)
  PROVE  /\ path[m - 1].value = Untested
         /\ c \in Lines /\ c \in Section /\ data[c].depth > 0 /\ data[c].key = path[m].key
         /\ Parent(c) \in Selected(m - 1) /\ Parent(c) \in Lines /\ Parent(c) \in Section
         /\ data[Parent(c)].key = path[m - 1].key
         /\ Parent(c) < c /\ data[Parent(c)].depth < data[c].depth
<1>1. Input /\ Len(path) \in Nat /\ Len(data) \in Nat BY InputIs DEF Meant
<1>2. /\ m \in 1 .. Len(path) /\ m > 1 /\ m - 1 \in 1 .. Len(path)
      /\ m - 1 = 1 \/ m - 1 < Len(path) - 1
  BY <1>1
<1>3. path[m - 1].value = Untested BY <1>2, StepsOf
<1>4. c \in Lines /\ Carries(m, c) /\ Parent(c) \in Selected(m - 1)
  BY <1>1, <1>2, <1>3, SelectedFrom
<1>5. c \in Section /\ data[c].depth > 0 BY <1>2, <1>3, SelectedInSection
<1>6. Parent(c) \in Lines /\ Carries(m - 1, Parent(c)) BY <1>1, <1>2, <1>4, SelectedFrom
<1>7. Parent(c) \in Section
  <2>1. m - 1 # 1 => m - 1 - 1 \in 1 .. Len(path) /\ m - 1 - 1 < Len(path) - 1 BY <1>1
  <2>2. m - 1 = 1 \/ path[m - 1 - 1].value = Untested BY <2>1, StepsOf
  <2> QED BY <1>2, <1>4, <2>2, SelectedInSection
<1>8. data[c].key = path[m].key /\ data[Parent(c)].key = path[m - 1].key
  BY <1>1, <1>2, <1>4, <1>6, CarriesKey
<1>9. Parent(c) # 0 BY <1>1, <1>6 DEF Lines
<1>10. Parent(c) < c /\ data[Parent(c)].depth < data[c].depth
  <2>1. Parent(c) \in 0 .. c - 1 /\ data[Parent(c)].depth < data[c].depth
    BY <1>1, <1>4, <1>9, ParentIs
  <2> QED BY <1>1, <1>4, <2>1 DEF Lines
<1> QED BY <1>3, <1>4, <1>5, <1>6, <1>7, <1>8, <1>10

(* The scan has matched step m at line c and meets step m + 1 at line b.   *)
Meets(m, c, b) ==
    /\ c \in Selected(m) /\ b \in Lines
    /\ Passed(m, c, b) /\ data[b].depth >= data[c].depth /\ Carries(m + 1, b)

LEMMA MeetsIn ==
  ASSUME Meant, NEW m \in 2 .. Len(path) - 1, NEW c, NEW b, Meets(m, c, b)
  PROVE  /\ c < b /\ b \in Section /\ data[b].key = path[m + 1].key
         /\ \A x \in c + 1 .. b : data[x].depth >= data[c].depth
         /\ \A x \in Parent(c) + 1 .. b : Inside(x, Parent(c))
<1>1. Input /\ Len(path) \in Nat /\ Len(data) \in Nat BY InputIs DEF Meant
<1>2. m + 1 \in 1 .. Len(path) BY <1>1
<1> DEFINE p == Parent(c)
<1>3. c \in Selected(m) BY DEF Meets
<1>4. /\ c \in Lines /\ c \in Section /\ data[c].depth > 0
      /\ p \in Lines /\ p < c /\ data[p].depth < data[c].depth
  BY <1>3, SelectedBelow
<1>5. b \in Lines /\ Passed(m, c, b) /\ data[b].depth >= data[c].depth /\ Carries(m + 1, b)
  BY DEF Meets
<1>6. c \in Nat /\ b \in Nat /\ p \in Nat /\ p # 0 BY <1>1, <1>4, <1>5 DEF Lines
<1>7. c < b /\ \A x \in c + 1 .. b : data[x].depth >= data[c].depth
  <2>1. c < b /\ \A x \in c + 1 .. b - 1 : data[x].depth >= data[c].depth BY <1>5 DEF Passed
  <2>2. \A x \in c + 1 .. b : x = b \/ x \in c + 1 .. b - 1 BY <1>6, <2>1
  <2> QED BY <1>5, <2>1, <2>2
<1>8. \A x \in c + 1 .. b : data[x].depth \in Nat
  <2>1. \A x \in c + 1 .. b : x \in Lines BY <1>1, <1>4, <1>5 DEF Lines
  <2> QED BY <1>1, <2>1, InputIs
<1>9. data[c].depth \in Nat /\ data[p].depth \in Nat BY <1>1, <1>4, InputIs
<1>10. b \in Section
  <2>1. \A x \in c + 1 .. b : data[x].depth > 0 BY <1>4, <1>7, <1>8, <1>9
  <2>2. c <= b BY <1>6, <1>7
  <2> QED BY <1>4, <1>5, <2>1, <2>2, SectionGrows
<1>11. ASSUME NEW x \in p + 1 .. b PROVE Inside(x, p)
  <2>1. \A y \in p + 1 .. c : data[y].depth > data[p].depth
    <3>1. c <= c /\ c \in Nat BY <1>6
    <3>2. Inside(c, p) BY <1>1, <1>4, <1>6, <3>1, InsideParent
    <3> QED BY <3>2 DEF Inside
  <2>2. \A y \in c + 1 .. b : data[y].depth > data[p].depth BY <1>4, <1>7, <1>8, <1>9
  <2> HIDE DEF p
  <2>3. \A y \in p + 1 .. x : y \in p + 1 .. c \/ y \in c + 1 .. b BY <1>6
  <2>4. x > p BY <1>6
  <2> QED BY <2>1, <2>2, <2>3, <2>4 DEF Inside
<1>12. data[b].key = path[m + 1].key BY <1>1, <1>2, <1>5, CarriesKey
<1> QED BY <1>7, <1>10, <1>11, <1>12

(* From a later key to the next, when no value is asked for.               *)
LEMMA PlainDescent ==
  ASSUME Meant, NEW m \in 2 .. Len(path) - 1, path[m].value = Untested,
         NEW c, NEW b, Meets(m, c, b)
  PROVE  b \in Selected(m + 1)
<1>1. Input /\ Len(path) \in Nat /\ Len(data) \in Nat BY InputIs DEF Meant
<1>2. /\ m \in 1 .. Len(path) /\ m - 1 \in 1 .. Len(path) - 1 /\ m + 1 \in 2 .. Len(path)
      /\ m \in 2 .. Len(path) /\ (m + 1) - 1 = m /\ m - 1 \in 1 .. Len(path)
      /\ m - 1 \in 1 .. m - 1
  BY <1>1
<1> DEFINE p == Parent(c)
           i == Parent(b)
           j == Parent(i)
<1>3. c \in Selected(m) /\ b \in Lines /\ Carries(m + 1, b) BY DEF Meets
<1>4. /\ path[m - 1].value = Untested /\ c \in Lines
      /\ p \in Selected(m - 1) /\ p \in Lines /\ p \in Section
      /\ data[p].key = path[m - 1].key /\ p < c
  BY <1>3, SelectedBelow
<1>5. /\ c < b /\ b \in Section /\ data[b].key = path[m + 1].key
      /\ \A x \in c + 1 .. b : data[x].depth >= data[c].depth
      /\ \A x \in p + 1 .. b : Inside(x, p)
  BY MeetsIn
<1>6. i \in Section /\ data[i].key = path[m].key BY <1>2, <1>5, KeyAbove
<1>7. j \in Section /\ data[j].key = path[m - 1].key BY <1>2, <1>4, <1>6, KeyAbove
<1>8. i \in Lines /\ j \in Lines BY <1>6, <1>7, InSection
<1>9. i # p BY <1>2, <1>4, <1>6, StepsOf
<1>10. i \in c .. b - 1 BY <1>1, <1>3, <1>4, <1>5, <1>9, ParentsOf
<1>11. i \in Selected(m)
  <2>1. CASE i = c BY <1>3, <2>1
  <2>2. CASE i # c
    <3>1. /\ c \in Nat /\ b \in Nat /\ i \in Nat /\ p \in Nat /\ p # 0
          /\ c < i /\ i < b /\ p < i
      BY <1>1, <1>3, <1>4, <1>10, <2>2 DEF Lines
    <3>2. Inside(i, p)
      <4>1. i \in p + 1 .. b BY <3>1
      <4> QED BY <1>5, <4>1
    <3>3. j \in p .. i - 1
      <4>1. p \in 1 .. i - 1 /\ i \in p + 1 .. i BY <3>1
      <4>2. data[p].depth < data[i].depth
        <5>1. data[p].depth \in Nat /\ data[i].depth \in Nat BY <1>1, <1>4, <1>8, InputIs
        <5> QED BY <3>2, <4>1, <5>1 DEF Inside
      <4> QED BY <1>1, <1>8, <4>1, <4>2, ParentAfter
    <3> HIDE DEF i, j, p
    <3>4. ~(j > p)
      <4> SUFFICES ASSUME j > p PROVE FALSE OBVIOUS
      <4>1. j \in p + 1 .. b BY <3>1, <3>3
      <4> QED BY <1>2, <1>4, <1>5, <1>7, <4>1, NoneBelow
    <3>5. j = p BY <3>1, <3>3, <3>4
    <3>6. Carries(m, i) BY <1>1, <1>2, <1>6, <1>8, CarriesKey
    <3>7. Follows(m - 1, p, i) BY <1>4, <3>5 DEF Follows, j
    <3> QED BY <1>1, <1>2, <1>4, <1>8, <3>6, <3>7, SelectedIs
  <2> QED BY <2>1, <2>2
<1>12. Follows(m, i, b) BY DEF Follows
<1> HIDE DEF i
<1> QED BY <1>1, <1>2, <1>3, <1>11, <1>12, SelectedIs

(* A key that picks an entry begins it.                                    *)
LEMMA PickIs ==
  ASSUME Meant, NEW k \in 2 .. Len(path), path[k].value # Untested,
         NEW i \in Section, data[i].key = path[k].key
  PROVE  data[i].item /\ Entry(i) = i
<1>1. data[i].item BY DEF Meant, Tidy
<1>2. i \in Lines /\ Input BY InSection DEF Meant
<1> QED BY <1>1, <1>2, ItemIsEntry

(* What one entry of a list has, every entry has.                          *)
LEMMA SameKeys ==
  ASSUME Meant, NEW c \in Section, NEW i \in Section, data[c].item, data[i].item,
         Parent(c) = Parent(i), NEW b \in Section, Entry(b) = i
  PROVE  \E x \in Section :
           /\ data[x].key = data[b].key /\ Entry(x) = c
           /\ x \in Lines /\ Parent(x) = Parent(c) /\ c <= x
<1>1. KeysOf(c) = KeysOf(i) BY DEF Meant, Tidy
<1>2. data[b].key \in KeysOf(i) BY DEF KeysOf
<1>3. PICK x \in Section : data[x].key = data[b].key /\ Entry(x) = c
  <2>1. data[b].key \in KeysOf(c) BY <1>1, <1>2
  <2> QED BY <2>1 DEF KeysOf
<1>4. x \in Lines /\ c \in Lines /\ Input BY InSection DEF Meant
<1>5. Len(data) \in Nat /\ c # 0 BY <1>4, InputIs DEF Lines
<1>6. Parent(x) = Parent(c) /\ c \in 0 .. x BY <1>3, <1>4, <1>5, EntryIs
<1>7. c <= x BY <1>4, <1>5, <1>6 DEF Lines
<1> QED BY <1>3, <1>4, <1>6, <1>7

(* From a key that picks an entry to the next, the last one.               *)
LEMMA PickDescent ==
  ASSUME Meant, NEW m \in 2 .. Len(path) - 1, path[m].value # Untested,
         NEW c, NEW b, Meets(m, c, b)
  PROVE  b \in Selected(m + 1)
<1>1. Input /\ Len(path) \in Nat /\ Len(data) \in Nat BY InputIs DEF Meant
<1>2. /\ m \in 1 .. Len(path) /\ m - 1 \in 1 .. Len(path) - 1 /\ m + 1 \in 2 .. Len(path)
      /\ m \in 2 .. Len(path) /\ (m + 1) - 1 = m /\ m + 1 \in 1 .. Len(path)
      /\ m - 1 \in 1 .. m - 1 /\ m # m + 1
  BY <1>1
<1> DEFINE p == Parent(c)
           q == Parent(b)
<1>3. c \in Selected(m) /\ b \in Lines /\ Carries(m + 1, b) /\ Passed(m, c, b) BY DEF Meets
<1>4. /\ path[m - 1].value = Untested /\ c \in Lines /\ c \in Section
      /\ data[c].key = path[m].key
      /\ p \in Selected(m - 1) /\ p \in Lines /\ p \in Section
      /\ data[p].key = path[m - 1].key /\ p < c
  BY <1>3, SelectedBelow
<1>5. /\ c < b /\ b \in Section /\ data[b].key = path[m + 1].key
      /\ \A x \in c + 1 .. b : data[x].depth >= data[c].depth
      /\ \A x \in p + 1 .. b : Inside(x, p)
  BY MeetsIn
<1>6. PICK i \in Section :
        data[i].key = path[m].key /\ Parent(b) = Parent(i) /\ Entry(b) = Entry(i)
  <2>1. \E i \in Section : data[i].key = path[m].key /\ Follows(m, i, b)
    BY <1>2, <1>5 DEF Meant, Tidy
  <2> QED BY <2>1 DEF Follows
<1>7. data[c].item /\ Entry(c) = c /\ data[i].item /\ Entry(i) = i
  BY <1>2, <1>4, <1>6, PickIs
<1>8. q \in Section /\ data[q].key = path[m - 1].key BY <1>2, <1>4, <1>6, KeyAbove
<1>9. /\ c \in Nat /\ b \in Nat /\ p \in Nat /\ i \in Nat /\ i \in Lines
      /\ i \in 0 .. b /\ \A x \in i + 1 .. b : ~(Parent(x) = q /\ data[x].item)
  <2>1. i \in Lines BY <1>6, InSection
  <2>2. Entry(b) = i BY <1>6, <1>7
  <2>3. i \in 0 .. b /\ \A x \in i + 1 .. b : ~(Parent(x) = q /\ data[x].item)
    BY <1>1, <1>3, <2>2, EntryIs
  <2>4. c \in Nat /\ b \in Nat /\ p \in Nat /\ i \in Nat BY <1>1, <1>3, <1>4, <2>1 DEF Lines
  <2> QED BY <2>1, <2>3, <2>4
<1>10. q = p
  <2> SUFFICES ASSUME q # p PROVE FALSE OBVIOUS
  <2>1. q \in c .. b - 1 BY <1>1, <1>3, <1>4, <1>5, ParentsOf
  <2> HIDE DEF p, q
  <2>2. q \in p + 1 .. b BY <1>4, <1>9, <2>1
  <2> QED BY <1>2, <1>4, <1>5, <1>8, <2>2, NoneBelow
<1>11. i = c
  <2> SUFFICES ASSUME i # c PROVE FALSE OBVIOUS
  <2>1. c < i
    <3>1. ~(c \in i + 1 .. b) BY <1>7, <1>9, <1>10
    <3> QED BY <1>5, <1>9, <3>1
  <2>2. Parent(c) = Parent(i) /\ Entry(b) = i BY <1>6, <1>7, <1>10
  <2>3. PICK x \in Section : /\ data[x].key = data[b].key /\ Entry(x) = c
                             /\ x \in Lines /\ Parent(x) = Parent(c) /\ c <= x
    BY <1>4, <1>5, <1>7, <2>2, SameKeys
  <2>4. CASE path[m + 1].value = Untested
    <3>1. Carries(m + 1, x) BY <1>1, <1>2, <1>5, <2>3, <2>4, CarriesKey
    <3>2. x # c BY <1>2, <1>4, <1>5, <2>3, StepsOf
    <3>3. x \in Nat BY <1>1, <2>3 DEF Lines
    <3>4. ~(i <= x)
      <4>1. \A y \in c + 1 .. x : ~(Parent(y) = Parent(x) /\ data[y].item)
        BY <1>1, <2>3, EntryIs
      <4>2. i <= x => i \in c + 1 .. x BY <1>9, <2>1, <3>3
      <4>3. Parent(i) = Parent(x) BY <2>2, <2>3
      <4> QED BY <1>7, <4>1, <4>2, <4>3
    <3>5. x \in c + 1 .. b - 1 BY <1>9, <2>3, <3>2, <3>3, <3>4
    <3> QED BY <1>3, <3>1, <3>5 DEF Passed
  <2>5. CASE path[m + 1].value # Untested
    <3>1. Entry(b) = b BY <1>2, <1>5, <2>5, PickIs
    <3>2. b = i BY <1>6, <1>7, <3>1
    <3> QED BY <1>2, <1>5, <1>6, <3>2, StepsOf
  <2> QED BY <2>4, <2>5
<1>12. Follows(m, c, b) BY <1>6, <1>11 DEF Follows
<1> QED BY <1>1, <1>2, <1>3, <1>12, SelectedIs

LEMMA DescendsTo ==
  ASSUME Meant, Len(path) > 1, Selected(2) # {},
         NEW m \in 1 .. Len(path) - 1, NEW c, NEW b, Meets(m, c, b)
  PROVE  b \in Selected(m + 1)
<1>1. CASE m = 1
  <2>1. c = Start /\ b \in Lines /\ Passed(1, Start, b) /\ Carries(2, b)
    BY <1>1, SectionIs DEF Meets
  <2>2. b \in Selected(2) BY <2>1, FirstDescent
  <2> QED BY <1>1, <2>2
<1>2. CASE m # 1
  <2>1. m \in 2 .. Len(path) - 1 BY <1>2
  <2> QED BY <2>1, PlainDescent, PickDescent
<1> QED BY <1>1, <1>2

-----------------------------------------------------------------------------
(* While there is something to find, the scan does not leave it.           *)

LEMMA SelectedBefore ==
  ASSUME Input, Selected(Len(path)) # {}
  PROVE  \A k \in 1 .. Len(path) : Selected(k) # {}
<1> DEFINE n == Len(path)
           Bad == {k \in 1 .. n : Selected(k) = {}}
<1>1. n \in Nat /\ n >= 1 BY InputIs
<1>2. Bad = {}
  <2> SUFFICES ASSUME Bad # {} PROVE FALSE OBVIOUS
  <2>1. Bad \in SUBSET (0 .. n) BY <1>1
  <2>2. PICK k \in Bad : \A l \in Bad : l <= k
    <3> HIDE DEF Bad, n
    <3> QED BY <1>1, <2>1, Greatest
  <2>3. k \in 1 .. n /\ Selected(k) = {} /\ k # n BY <2>2
  <2>4. k + 1 \in 1 .. n /\ ~(k + 1 <= k) /\ (k + 1) - 1 = k /\ k + 1 > 1 BY <1>1, <2>3
  <2>5. Selected(k + 1) # {} BY <2>2, <2>4
  <2>6. PICK j \in Selected(k + 1) : TRUE BY <2>5
  <2>7. \E i \in Selected(k) : Follows(k, i, j) BY <2>4, <2>6, SelectedFrom
  <2> QED BY <2>3, <2>7
<1> QED BY <1>2

(* After line c, which the scan matched for step m, and before anything    *)
(* less deep, there is a line with the next step.                          *)
LEMMA Ahead ==
  ASSUME Meant, NEW m \in 1 .. Len(path) - 1, NEW c \in Selected(m),
         Selected(Len(path)) # {}
  PROVE  \E j \in Lines : /\ c < j /\ Carries(m + 1, j)
                          /\ \A x \in c + 1 .. j : data[x].depth >= data[c].depth
<1>1. Input /\ Len(path) \in Nat /\ Len(data) \in Nat BY InputIs DEF Meant
<1>2. /\ m \in 1 .. Len(path) /\ m + 1 \in 1 .. Len(path) /\ m + 1 > 1 /\ (m + 1) - 1 = m
      /\ m # m + 1
  BY <1>1
<1>3. PICK j \in Selected(m + 1) : TRUE BY <1>1, <1>2, SelectedBefore
<1>4. /\ j \in Lines /\ Carries(m + 1, j)
      /\ \E i \in Selected(m) : Follows(m, i, j)
  BY <1>1, <1>2, <1>3, SelectedFrom
<1>5. PICK i \in Selected(m) : Follows(m, i, j) BY <1>4
<1>6. c \in Lines /\ i \in Lines BY <1>1, <1>2, SelectedFrom
<1>7. c \in Nat /\ i \in Nat /\ j \in Nat /\ c # 0 /\ i # 0 BY <1>1, <1>4, <1>6 DEF Lines
<1>8. CASE path[m].value = Untested
  <2>1. c = i BY <1>8 DEF Meant, Tidy
  <2>2. Parent(j) = c BY <1>5, <1>8, <2>1 DEF Follows
  <2>3. c < j
    <3>1. Parent(j) \in 0 .. j - 1 BY <1>1, <1>4, ParentIs
    <3> QED BY <1>7, <2>2, <3>1
  <2>4. Inside(j, c)
    <3>1. j <= j /\ Parent(j) # 0 /\ Parent(j) < j BY <1>7, <2>2, <2>3
    <3>2. Inside(j, Parent(j)) BY <1>1, <1>4, <1>7, <3>1, InsideParent
    <3> QED BY <2>2, <3>2
  <2>5. \A x \in c + 1 .. j : data[x].depth >= data[c].depth
    <3> TAKE x \in c + 1 .. j
    <3>1. x \in Lines BY <1>1, <1>4, <1>7 DEF Lines
    <3>2. data[x].depth \in Nat /\ data[c].depth \in Nat BY <1>1, <1>6, <3>1, InputIs
    <3>3. data[x].depth > data[c].depth BY <2>4 DEF Inside
    <3> QED BY <3>2, <3>3
  <2> QED BY <1>4, <2>3, <2>5
<1>9. CASE path[m].value # Untested
  <2>1. m \in 2 .. Len(path) - 1 /\ m \in 2 .. Len(path) /\ m + 1 = Len(path)
        /\ m - 1 \in 1 .. Len(path) - 1 /\ m + 1 \in 2 .. Len(path)
    <3>1. m # 1 /\ ~(m < Len(path) - 1) BY <1>2, <1>9, StepsOf
    <3> QED BY <1>1, <3>1
  <2> DEFINE p == Parent(c)
  <2>2. /\ path[m - 1].value = Untested /\ c \in Section
        /\ data[c].key = path[m].key /\ data[c].depth > 0
        /\ p \in Selected(m - 1) /\ p \in Lines /\ p \in Section /\ p < c
    BY <2>1, SelectedBelow
  <2>3. i \in Section /\ data[i].key = path[m].key /\ Parent(i) \in Selected(m - 1)
    BY <2>1, SelectedBelow
  <2>4. Parent(i) = p BY <2>1, <2>2, <2>3 DEF Meant, Tidy
  <2>5. data[c].item /\ Entry(c) = c /\ data[i].item /\ Entry(i) = i
    BY <1>9, <2>1, <2>2, <2>3, PickIs
  <2>6. Parent(j) = p /\ Entry(j) = i BY <1>5, <1>9, <2>4, <2>5 DEF Follows
  <2>7. j \in Section
    <3>1. p \in Nat /\ p # 0 BY <1>1, <2>2 DEF Lines
    <3>2. p \in 0 .. j - 1 BY <1>1, <1>4, <2>6, ParentIs
    <3> HIDE DEF p
    <3>3. p < j /\ j <= j /\ p <= j BY <1>7, <3>1, <3>2
    <3>4. Inside(j, p) BY <1>1, <1>4, <1>7, <2>6, <3>1, <3>3, InsideParent
    <3>5. \A x \in p + 1 .. j : data[x].depth > 0
      <4> TAKE x \in p + 1 .. j
      <4>1. x \in Lines BY <1>1, <1>4, <1>7, <3>1 DEF Lines
      <4>2. data[x].depth \in Nat /\ data[p].depth \in Nat BY <1>1, <2>2, <4>1, InputIs
      <4>3. data[x].depth > data[p].depth BY <3>4 DEF Inside
      <4> QED BY <4>2, <4>3
    <3> QED BY <1>4, <2>2, <3>3, <3>5, SectionGrows
  <2>8. PICK x \in Section : /\ data[x].key = data[j].key /\ Entry(x) = c
                             /\ x \in Lines /\ Parent(x) = p /\ c <= x
    BY <2>2, <2>3, <2>4, <2>5, <2>6, <2>7, SameKeys
  <2>9. data[x].key = path[m + 1].key BY <1>1, <1>2, <1>4, <2>8, CarriesKey
  <2>10. x # c BY <1>2, <2>2, <2>9, StepsOf
  <2>11. x \in Nat /\ c < x BY <1>1, <1>7, <2>8, <2>10 DEF Lines
  <2>12. Carries(m + 1, x)
    <3>1. path[m + 1].value = Untested
      <4> SUFFICES ASSUME path[m + 1].value # Untested PROVE FALSE OBVIOUS
      <4>1. Entry(x) = x BY <2>1, <2>8, <2>9, PickIs
      <4> QED BY <2>8, <2>10, <4>1
    <3> QED BY <1>1, <1>2, <2>8, <2>9, <3>1, CarriesKey
  <2>13. data[x].depth = data[c].depth BY <2>2, <2>8 DEF Meant, Tidy
  <2>14. \A y \in c + 1 .. x : data[y].depth >= data[c].depth
    <3> TAKE y \in c + 1 .. x
    <3>1. \A z \in p + 1 .. x - 1 : data[z].depth >= data[x].depth
      BY <1>1, <2>8, ParentIs
    <3>2. p \in Nat BY <1>1, <2>2 DEF Lines
    <3>3. data[c].depth \in Nat BY <1>1, <1>6, InputIs
    <3>4. CASE y = x BY <2>13, <3>3, <3>4
    <3>5. CASE y # x
      <4> HIDE DEF p
      <4>1. y \in p + 1 .. x - 1 BY <1>7, <2>2, <2>11, <3>2, <3>5
      <4> QED BY <2>13, <3>1, <4>1
    <3> QED BY <3>4, <3>5
  <2> QED BY <2>8, <2>11, <2>12, <2>14
<1> QED BY <1>8, <1>9

-----------------------------------------------------------------------------
(* The scan.                                                               *)

(* What FindsSelected speaks of.                                           *)
Sought == Meant /\ (Len(path) > 1 => Selected(2) # {})

(* The scan has matched some steps, the last at a line that the path       *)
(* selects, and has passed nothing since then.                             *)
UnderWay ==
    /\ matched < Len(path) /\ found = 0
    /\ matched = 0 => pathdepth = 0 /\ \A x \in 1 .. line - 1 : ~Carries(1, x)
    /\ matched # 0 => \E c \in Selected(matched) :
                        Passed(matched, c, line) /\ pathdepth = data[c].depth

Ended ==
    /\ Returned
    /\ \/ found \in Selected(Len(path))
       \/ found = 0 /\ Selected(Len(path)) = {}

ParseType ==
    /\ data \in YamlTexts /\ line \in 0 .. Len(data) + 1 /\ matched \in Nat
    /\ line # 0 => path \in Paths

ParseIInv == ParseType /\ (line # 0 /\ Sought => UnderWay \/ Ended)

LEMMA ParseInitially == ParseInit => ParseIInv
<1> SUFFICES ASSUME ParseInit PROVE ParseIInv OBVIOUS
<1>1. Len(data) \in Nat
  BY ParserAssumption DEF ParseInit, ParserAssumption, IsSequence
<1> QED BY <1>1 DEF ParseInit, ParseIInv, ParseType

(* At the end of the text nothing is selected.                             *)
LEMMA EndOfText ==
  ASSUME Meant, UnderWay, matched \in Nat, line \in 1 .. Len(data) + 1,
         line = Len(data) + 1 \/ Shallower
  PROVE  Selected(Len(path)) = {}
<1> SUFFICES ASSUME Selected(Len(path)) # {} PROVE FALSE OBVIOUS
<1>1. Input /\ Len(path) \in Nat /\ Len(path) >= 1 /\ Len(data) \in Nat BY InputIs DEF Meant
<1>2. matched < Len(path) /\ line \in Nat BY <1>1 DEF UnderWay
<1>3. CASE matched = 0
  <2>1. pathdepth = 0 /\ \A x \in 1 .. line - 1 : ~Carries(1, x) BY <1>3 DEF UnderWay
  <2>2. line = Len(data) + 1
    <3> SUFFICES ASSUME line # Len(data) + 1 PROVE FALSE OBVIOUS
    <3>1. line \in Lines /\ data[line].depth < 0 BY <1>1, <2>1 DEF Lines, Shallower
    <3>2. data[line].depth \in Nat BY <1>1, <3>1, InputIs
    <3> QED BY <3>1, <3>2
  <2>3. Start \in Selected(1) /\ Start \in 1 .. line - 1
    BY <1>1, <2>2, SectionIs DEF Lines
  <2>4. Carries(1, Start)
    <3>1. 1 \in 1 .. Len(path) BY <1>1
    <3> QED BY <1>1, <2>3, <3>1, SelectedFrom
  <2> QED BY <2>1, <2>3, <2>4
<1>4. CASE matched # 0
  <2>1. PICK c \in Selected(matched) :
          Passed(matched, c, line) /\ pathdepth = data[c].depth
    BY <1>4 DEF UnderWay
  <2>2. matched \in 1 .. Len(path) - 1 BY <1>1, <1>2, <1>4
  <2>3. PICK j \in Lines : /\ c < j /\ Carries(matched + 1, j)
                           /\ \A x \in c + 1 .. j : data[x].depth >= data[c].depth
    BY <2>2, Ahead
  <2>4. c \in Lines
    <3>1. matched \in 1 .. Len(path) BY <1>1, <2>2
    <3> QED BY <1>1, <3>1, SelectedFrom
  <2>5. c \in Nat /\ j \in Nat /\ j < Len(data) + 1 /\ c < line
    BY <1>1, <2>1, <2>3, <2>4 DEF Lines, Passed
  <2>6. ~(j < line)
    <3>1. j < line => j \in c + 1 .. line - 1 BY <1>2, <2>3, <2>5
    <3> QED BY <2>1, <2>3, <3>1 DEF Passed
  <2>7. line \in c + 1 .. j /\ Shallower /\ line \in Lines
    BY <1>1, <1>2, <2>5, <2>6 DEF Lines
  <2>8. data[line].depth \in Nat /\ data[c].depth \in Nat BY <1>1, <2>4, <2>7, InputIs
  <2> QED BY <2>1, <2>3, <2>7, <2>8 DEF Shallower
<1> QED BY <1>3, <1>4

(* What is said of a text and a path stays while they do.                  *)
LEMMA InputStays ==
  ASSUME UNCHANGED <<data, path>>
  PROVE  /\ Sought' = Sought /\ Lines' = Lines
         /\ \A k : Selected(k)' = Selected(k)
         /\ \A k, i : Carries(k, i)' = Carries(k, i)
         /\ \A m, c, b : Passed(m, c, b)' = Passed(m, c, b)
BY DEF Sought, Meant, Input, Straight, Tidy, KeysOf, Section, Selected, Follows, Entry, Parent,
   Carries, Passed, Lines

LEMMA ParsePreserved == ParseIInv /\ [ParseNext]_parseVars => ParseIInv'
<1> SUFFICES ASSUME ParseIInv, [ParseNext]_parseVars PROVE ParseIInv'
  OBVIOUS
<1>1. /\ data \in YamlTexts /\ line \in 0 .. Len(data) + 1 /\ matched \in Nat
      /\ line # 0 => path \in Paths
  BY DEF ParseIInv, ParseType
<1>2. Len(data) \in Nat /\ DOMAIN data = Lines /\ line \in Nat
  BY <1>1, ParserAssumption DEF ParserAssumption, IsSequence, Lines
<1>3. CASE Call
  <2>1. /\ path' \in Paths /\ line' = 1 /\ matched' = 0 /\ pathdepth' = 0 /\ found' = 0
        /\ data' = data
    BY <1>3 DEF Call
  <2>2. ParseType' BY <1>1, <1>2, <2>1 DEF ParseType
  <2>3. Len(path') > 0 BY <2>1, ParserAssumption DEF ParserAssumption
  <2>4. UnderWay'
    <3>1. 1 .. line' - 1 = {} BY <2>1
    <3> QED BY <2>1, <2>3, <3>1 DEF UnderWay
  <2> QED BY <2>2, <2>4 DEF ParseIInv
<1>4. ASSUME UNCHANGED parseVars PROVE ParseIInv'
  <2>1. UNCHANGED <<data, path>> /\ line' = line /\ matched' = matched
        /\ pathdepth' = pathdepth /\ found' = found
    BY <1>4 DEF parseVars
  <2>2. Sought' = Sought /\ UnderWay' = UnderWay /\ Ended' = Ended
    BY <2>1, InputStays DEF UnderWay, Ended, Returned
  <2>3. ParseType' BY <1>1, <2>1 DEF ParseType
  <2> QED BY <2>1, <2>2, <2>3 DEF ParseIInv
<1>5. ASSUME Scanning, UNCHANGED <<data, path>>, Leave \/ Descend \/ SkipLine
      PROVE  ParseIInv'
  <2>1. line \in Lines /\ line # 0 /\ Input /\ line \in 1 .. Len(data) + 1
    BY <1>1, <1>2, <1>5 DEF Scanning, Lines, Input
  <2>2. Sought' = Sought /\ Lines' = Lines BY <1>5, InputStays
  <2>3. ParseType'
    <3>1. line' \in 0 .. Len(data) + 1 /\ matched' \in Nat
      BY <1>1, <1>2, <1>5, <2>1 DEF Leave, Descend, SkipLine, Lines
    <3> QED BY <1>1, <1>5, <2>1, <3>1 DEF ParseType
  <2>4. SUFFICES ASSUME Sought PROVE UnderWay' \/ Ended'
    BY <2>2, <2>3 DEF ParseIInv
  <2>5. Meant /\ (Len(path) > 1 => Selected(2) # {}) BY <2>4 DEF Sought
  <2>6. UnderWay
    <3>1. ~Ended BY <1>2, <2>1 DEF Ended, Returned, Lines
    <3> QED BY <2>1, <2>4, <3>1 DEF ParseIInv
  <2>7. Len(path) \in Nat /\ Len(path) >= 1 /\ matched < Len(path) /\ found = 0
    BY <2>1, <2>6, InputIs DEF UnderWay
  <2>8. /\ \A k : Selected(k)' = Selected(k)
        /\ \A k, i : Carries(k, i)' = Carries(k, i)
        /\ \A m, c, b : Passed(m, c, b)' = Passed(m, c, b)
        /\ data' = data /\ path' = path
    BY <1>5, InputStays
  <2>9. Matches <=> Carries(matched + 1, line) BY DEF Matches, Carries
  <2>10. data[line].depth \in Nat BY <2>1, InputIs
  <2>11. CASE Leave
    <3>1. line' = Len(data) + 1 /\ found' = 0 BY <2>7, <2>11 DEF Leave
    <3>2. Selected(Len(path)) = {} BY <1>1, <2>1, <2>5, <2>6, <2>11, EndOfText DEF Leave
    <3> QED BY <2>8, <3>1, <3>2 DEF Ended, Returned
  <2>12. CASE Descend
    <3>1. ~Shallower /\ Carries(matched + 1, line) BY <2>9, <2>12 DEF Descend
    <3>2. line \in Selected(matched + 1)
      <4>1. CASE matched = 0
        <5>1. Carries(1, line) /\ 1 \in 1 .. Len(path) BY <2>7, <3>1, <4>1
        <5>2. line = Start BY <2>1, <2>5, <5>1, CarriesKey, SectionIs
        <5> QED BY <2>5, <4>1, <5>2, SectionIs
      <4>2. CASE matched # 0
        <5>1. PICK c \in Selected(matched) :
                Passed(matched, c, line) /\ pathdepth = data[c].depth
          BY <2>6, <4>2 DEF UnderWay
        <5>2. matched \in 1 .. Len(path) - 1 /\ matched \in 1 .. Len(path) /\ Len(path) > 1
          BY <1>1, <2>7, <4>2
        <5>3. c \in Lines /\ data[c].depth \in Nat BY <2>1, <5>2, SelectedFrom, InputIs
        <5>4. data[line].depth >= data[c].depth BY <2>10, <3>1, <5>1, <5>3 DEF Shallower
        <5>5. Meets(matched, c, line) BY <2>1, <3>1, <5>1, <5>4 DEF Meets
        <5> QED BY <2>5, <5>2, <5>5, DescendsTo
      <4> QED BY <4>1, <4>2
    <3>3. matched' = matched + 1 /\ pathdepth' = data[line].depth
      BY <2>12 DEF Descend
    <3>4. CASE matched' = Len(path)
      <4>1. found' = line /\ line' = Len(data) + 1 BY <2>12, <3>4 DEF Descend
      <4>2. found' \in Selected(Len(path)) BY <3>2, <3>3, <3>4, <4>1
      <4> QED BY <2>8, <4>1, <4>2 DEF Ended, Returned
    <3>5. CASE matched' # Len(path)
      <4>1. found' = 0 /\ line' = line + 1 BY <2>7, <2>12, <3>5 DEF Descend
      <4>2. matched' < Len(path) /\ matched' # 0 BY <1>1, <2>7, <3>3, <3>5
      <4>3. Passed(matched', line, line')
        <5>1. line + 1 .. line' - 1 = {} /\ line < line' BY <1>2, <4>1
        <5> QED BY <5>1 DEF Passed
      <4>4. line \in Selected(matched') BY <3>2, <3>3
      <4>5. UnderWay'
        <5>1. \E c \in Selected(matched') : Passed(matched', c, line') /\ pathdepth' = data[c].depth
          BY <3>3, <4>3, <4>4
        <5> QED BY <2>8, <4>1, <4>2, <5>1 DEF UnderWay, Selected, Passed, Carries
      <4> QED BY <4>5
    <3> QED BY <3>4, <3>5
  <2>13. CASE SkipLine
    <3>1. /\ line' = line + 1 /\ matched' = matched /\ pathdepth' = pathdepth /\ found' = 0
          /\ ~Shallower /\ ~Carries(matched + 1, line)
      BY <2>7, <2>9, <2>13 DEF SkipLine
    <3>2. CASE matched = 0
      <4>1. \A x \in 1 .. line : x = line \/ x \in 1 .. line - 1 BY <1>2
      <4>2. \A x \in 1 .. line : ~Carries(1, x) BY <2>6, <3>1, <3>2, <4>1 DEF UnderWay
      <4>3. line' - 1 = line BY <1>2, <3>1
      <4>4. pathdepth' = 0 BY <2>6, <3>1, <3>2 DEF UnderWay
      <4>5. UnderWay' BY <2>7, <2>8, <3>1, <3>2, <4>2, <4>3, <4>4 DEF UnderWay
      <4> QED BY <4>5
    <3>3. CASE matched # 0
      <4>1. PICK c \in Selected(matched) :
              Passed(matched, c, line) /\ pathdepth = data[c].depth
        BY <2>6, <3>3 DEF UnderWay
      <4>2. matched \in 1 .. Len(path) BY <1>1, <2>7, <3>3
      <4>3. c \in Lines /\ c \in Nat /\ data[c].depth \in Nat
        BY <1>2, <2>1, <4>2, SelectedFrom, InputIs DEF Lines
      <4>4. data[line].depth >= data[c].depth BY <2>10, <3>1, <4>1, <4>3 DEF Shallower
      <4>5. Passed(matched, c, line + 1)
        <5>1. c < line + 1 /\ line + 1 - 1 = line BY <1>2, <4>1, <4>3 DEF Passed
        <5>2. \A x \in c + 1 .. line : x = line \/ x \in c + 1 .. line - 1 BY <1>2, <4>3
        <5>3. \A x \in c + 1 .. line : data[x].depth >= data[c].depth /\ ~Carries(matched + 1, x)
          BY <3>1, <4>1, <4>4, <5>2 DEF Passed
        <5> QED BY <1>2, <4>3, <5>1, <5>3 DEF Passed
      <4>6. Passed(matched', c, line') /\ pathdepth' = data[c].depth /\ c \in Selected(matched')
        BY <3>1, <4>1, <4>5
      <4>7. UnderWay'
        <5>1. matched' # 0 /\ matched' < Len(path) /\ found' = 0 BY <2>7, <3>1, <3>3
        <5>2. \E a \in Selected(matched') : Passed(matched', a, line') /\ pathdepth' = data[a].depth
          BY <4>6
        <5> QED BY <2>8, <5>1, <5>2 DEF UnderWay, Selected, Passed, Carries
      <4> QED BY <4>7
    <3> QED BY <3>2, <3>3
  <2> QED BY <1>5, <2>11, <2>12, <2>13
<1>6. CASE Leave BY <1>5, <1>6 DEF Leave
<1>7. CASE Descend BY <1>5, <1>7 DEF Descend
<1>8. CASE SkipLine BY <1>5, <1>8 DEF SkipLine
<1> QED BY <1>3, <1>4, <1>6, <1>7, <1>8 DEF ParseNext

LEMMA ParseInvariance == ParseSpec => []ParseIInv
<1>1. ParseIInv /\ [ParseNext]_parseVars => ParseIInv' BY ParsePreserved
<1> QED BY <1>1, ParseInitially, PTL DEF ParseSpec

(* Of any text and path: the line scanned is below or beside the line that *)
(* was matched last, and so is the line found.                             *)
FoundInReach ==
    /\ Carries(Len(path), found)
    /\ Len(path) > 1 =>
         \E j \in DOMAIN data : Carries(Len(path) - 1, j) /\ InReach(j, found)

ReachInv ==
    /\ Scanning /\ matched # 0 =>
         \E j \in DOMAIN data :
            /\ Carries(matched, j) /\ j < line /\ pathdepth = data[j].depth
            /\ \A l \in j .. line - 1 : data[l].depth >= pathdepth
    /\ found # 0 => FoundInReach

LEMMA ReachPreserved == ParseIInv /\ ReachInv /\ [ParseNext]_parseVars => ReachInv'
<1> SUFFICES ASSUME ParseIInv, ReachInv, [ParseNext]_parseVars PROVE ReachInv'
  OBVIOUS
<1>1. /\ data \in YamlTexts /\ line \in 0 .. Len(data) + 1 /\ matched \in Nat
      /\ line # 0 => path \in Paths
  BY DEF ParseIInv, ParseType
<1>2. Len(data) \in Nat /\ DOMAIN data = Lines /\ line \in Nat
  BY <1>1, ParserAssumption DEF ParserAssumption, IsSequence, Lines
<1>3. CASE Call BY <1>3 DEF Call, ReachInv
<1>4. ASSUME UNCHANGED <<data, path, found>> PROVE FoundInReach' <=> FoundInReach
  BY <1>4 DEF FoundInReach, Carries, InReach
<1>5. CASE UNCHANGED parseVars
  BY <1>5 DEF parseVars, ReachInv, FoundInReach, Carries, InReach, Scanning
<1>6. CASE Leave
  <2>1. /\ line' = Len(data) + 1 /\ UNCHANGED <<data, path, found>>
    BY <1>6 DEF Leave
  <2>2. ~Scanning' BY <1>2, <2>1 DEF Scanning, Lines
  <2>3. found' # 0 => FoundInReach' BY <1>4, <2>1 DEF ReachInv
  <2> QED BY <2>2, <2>3 DEF ReachInv
<1>7. ASSUME Scanning, ~Shallower
      PROVE  /\ line \in Lines /\ \A l \in Lines : data[l].depth \in Nat
             /\ Len(path) \in Nat /\ Len(path) >= 1
             /\ matched # 0 =>
                  \E j \in Lines :
                     /\ Carries(matched, j) /\ j < line /\ pathdepth = data[j].depth
                     /\ \A l \in j .. line : data[l].depth >= pathdepth
  <2>1. line \in Lines /\ Input BY <1>1, <1>2, <1>7 DEF Scanning, Input, Lines
  <2>2. ASSUME matched # 0
        PROVE  \E j \in Lines :
                 /\ Carries(matched, j) /\ j < line /\ pathdepth = data[j].depth
                 /\ \A l \in j .. line : data[l].depth >= pathdepth
    <3>1. PICK j \in Lines :
            /\ Carries(matched, j) /\ j < line /\ pathdepth = data[j].depth
            /\ \A l \in j .. line - 1 : data[l].depth >= pathdepth
      BY <1>2, <1>7, <2>2 DEF ReachInv
    <3>2. data[line].depth \in Nat /\ pathdepth \in Nat BY <2>1, <3>1, InputIs
    <3>3. data[line].depth >= pathdepth BY <1>7, <3>2 DEF Shallower
    <3>4. \A l \in j .. line : l = line \/ l \in j .. line - 1
      BY <1>2, <3>1 DEF Lines
    <3>5. \A l \in j .. line : data[l].depth >= pathdepth BY <3>1, <3>3, <3>4
    <3> QED BY <3>1, <3>5
  <2> QED BY <2>1, <2>2, InputIs
<1>8. CASE SkipLine
  <2>1. /\ Scanning /\ ~Shallower /\ line' = line + 1
        /\ UNCHANGED <<data, path, matched, pathdepth, found>>
    BY <1>8 DEF SkipLine
  <2>2. found' # 0 => FoundInReach' BY <1>4, <2>1 DEF ReachInv
  <2>3. line' - 1 = line /\ DOMAIN data' = Lines BY <1>2, <2>1
  <2>4. ASSUME matched # 0
        PROVE  \E j \in Lines :
                 /\ Carries(matched, j)' /\ j < line' /\ pathdepth' = data'[j].depth
                 /\ \A l \in j .. line' - 1 : data'[l].depth >= pathdepth'
    <3>1. PICK j \in Lines :
            /\ Carries(matched, j) /\ j < line /\ pathdepth = data[j].depth
            /\ \A l \in j .. line : data[l].depth >= pathdepth
      BY <1>7, <2>1, <2>4
    <3>2. Carries(matched, j)' BY <2>1, <3>1 DEF Carries
    <3>3. j < line' BY <1>2, <2>1, <3>1 DEF Lines
    <3> QED BY <2>1, <2>3, <3>1, <3>2, <3>3
  <2> QED BY <2>1, <2>2, <2>3, <2>4 DEF ReachInv, Carries
<1>9. CASE Descend
  <2>1. /\ Scanning /\ ~Shallower /\ Carries(matched + 1, line)
        /\ matched' = matched + 1 /\ pathdepth' = data[line].depth
        /\ UNCHANGED <<data, path>>
    BY <1>9 DEF Descend, Matches, Carries
  <2>2. CASE matched' = Len(path)
    <3>1. found' = line /\ line' = Len(data) + 1 BY <1>9, <2>2 DEF Descend
    <3>2. ~Scanning' BY <1>2, <2>1, <3>1 DEF Scanning, Lines
    <3>3. Carries(Len(path), line) BY <2>1, <2>2
    <3>4. ASSUME Len(path) > 1
          PROVE  \E j \in Lines : Carries(Len(path) - 1, j) /\ InReach(j, line)
      <4>1. matched = Len(path) - 1 /\ matched # 0 BY <1>1, <1>7, <2>1, <2>2, <3>4
      <4>2. PICK j \in Lines :
              /\ Carries(matched, j) /\ j < line /\ pathdepth = data[j].depth
              /\ \A l \in j .. line : data[l].depth >= pathdepth
        BY <1>7, <2>1, <4>1
      <4>3. InReach(j, line) BY <4>2 DEF InReach
      <4> QED BY <4>1, <4>2, <4>3
    <3>5. FoundInReach' BY <1>2, <2>1, <3>1, <3>3, <3>4 DEF FoundInReach, Carries, InReach
    <3> QED BY <3>2, <3>5 DEF ReachInv
  <2>3. CASE matched' # Len(path)
    <3>1. found' = found /\ line' = line + 1 BY <1>9, <2>3 DEF Descend
    <3>2. found' # 0 => FoundInReach' BY <1>4, <2>1, <3>1 DEF ReachInv
    <3>3. PICK c \in Lines : c = line BY <1>7, <2>1
    <3>4. Carries(matched, c)' BY <2>1, <3>3 DEF Carries
    <3>5. /\ c \in DOMAIN data' /\ c < line' /\ pathdepth' = data'[c].depth
          /\ \A l \in c .. line' - 1 : data'[l].depth >= pathdepth'
      <4>1. data[c].depth \in Nat BY <1>7, <2>1
      <4>2. \A l \in c .. line' - 1 : l = c BY <1>2, <3>1, <3>3
      <4>3. pathdepth' = data[c].depth BY <2>1, <3>3
      <4> QED BY <1>2, <2>1, <3>1, <3>3, <4>1, <4>2, <4>3
    <3> QED BY <3>2, <3>4, <3>5 DEF ReachInv
  <2> QED BY <2>2, <2>3
<1> QED BY <1>3, <1>5, <1>6, <1>8, <1>9 DEF ParseNext

LEMMA ReachInvariance == ParseSpec => []ReachInv
<1>1. ParseInit => ReachInv BY DEF ParseInit, ReachInv
<1> QED BY <1>1, ReachPreserved, ParseInvariance, PTL DEF ParseSpec

(* ParseYaml returns what the path selects, in texts of any length and for *)
(* paths of any number of steps; and in any text nothing out of reach of   *)
(* the step before.                                                        *)
THEOREM FindsSelectedHolds == ParseSpec => []FindsSelected
<1>1. ParseIInv /\ ReachInv => FindsSelected
  <2> SUFFICES ASSUME ParseIInv, Returned, Straight, Tidy
               PROVE  /\ Selected(Len(path)) # {} => found \in Selected(Len(path))
                      /\ Selected(Len(path)) = {} /\ Len(path) > 2 /\ Selected(2) # {} => found = 0
    BY DEF FindsSelected, ReachInv, FoundInReach
  <2>1. data \in YamlTexts /\ Len(data) \in Nat
    BY ParserAssumption DEF ParserAssumption, IsSequence, ParseIInv, ParseType
  <2>2. line # 0 BY <2>1 DEF Returned
  <2>3. Meant BY <2>1, <2>2 DEF Meant, Input, ParseIInv, ParseType
  <2>4. Input /\ Len(path) \in Nat /\ Len(path) >= 1 BY <2>3, InputIs DEF Meant
  <2>5. Selected(Len(path)) # {} => Sought
    <3>1. Len(path) > 1 => 2 \in 1 .. Len(path) BY <2>4
    <3> QED BY <2>3, <2>4, <3>1, SelectedBefore DEF Sought
  <2>6. Selected(2) # {} => Sought BY <2>3 DEF Sought
  <2>7. ASSUME Sought
        PROVE  found \in Selected(Len(path)) \/ (found = 0 /\ Selected(Len(path)) = {})
    <3>1. CASE Ended BY <3>1 DEF Ended
    <3>2. CASE UnderWay
      <4>1. line \in 1 .. Len(data) + 1 /\ line = Len(data) + 1 /\ matched \in Nat
        BY <2>1, <2>2 DEF ParseIInv, ParseType, Returned
      <4>2. Selected(Len(path)) = {} BY <2>3, <3>2, <4>1, EndOfText
      <4> QED BY <3>2, <4>2 DEF UnderWay
    <3> QED BY <2>2, <2>7, <3>1, <3>2 DEF ParseIInv
  <2> HIDE DEF Selected
  <2> QED BY <2>5, <2>6, <2>7
<1> QED BY <1>1, ParseInvariance, ReachInvariance, PTL
=============================================================================
