----------------------------- MODULE YamlParser -----------------------------
(***************************************************************************)
(* ParseYaml (YamlParser.cpp): the value that a path such as               *)
(* DriverInfo:Drivers:CarIdx:{5}UserName: selects in a session info text.  *)
(* It is one scan over the lines that keeps how much of the path is        *)
(* matched and how deep the last matched line was indented.                *)
(*                                                                         *)
(* A line is its depth, its key with the colon, its value and whether it   *)
(* begins an entry of a list; the dash counts as indentation, so that all  *)
(* keys of an entry are equally deep.  A step of a path is a key and the   *)
(* value it must have, or Untested.  Scanning a line is a step.            *)
(*                                                                         *)
(* Assumptions: every line of the text ends with a newline (what follows   *)
(* the last one is not looked at); paths end with a zero byte, for a       *)
(* string_view is read like a string.                                      *)
(***************************************************************************)
EXTENDS Integers, FiniteSetsExt, SequencesExt

CONSTANTS
    YamlTexts,  \* sequences of lines
    Paths,      \* sequences of steps
    NoKey,      \* the key of a line of spaces and dashes only
    Untested    \* in a path: no value is asked for

IsSequence(s) == Len(s) \in Nat /\ DOMAIN s = 1..Len(s)

ASSUME ParserAssumption ==
    /\ \A d \in YamlTexts :
         /\ IsSequence(d)
         /\ \A i \in DOMAIN d : d[i].depth \in Nat /\ d[i].item \in BOOLEAN
    /\ \A p \in Paths :
         IsSequence(p) /\ Len(p) > 0 /\ \A k \in DOMAIN p : p[k].key # NoKey

VARIABLES
    data, path,
    line,      \* the line that *data is in; 0 when no call is in progress
    matched,   \* pathPtr: steps of the path behind it
    pathdepth,
    found      \* the line whose value is returned; 0 for false

parseVars == <<data, path, line, matched, pathdepth, found>>

ParseInit ==
    /\ data \in YamlTexts /\ path = CHOOSE p \in Paths : TRUE
    /\ line = 0 /\ matched = 0 /\ pathdepth = 0 /\ found = 0

-----------------------------------------------------------------------------
Scanning == line \in DOMAIN data

(* A call, for any path.                                                   *)
Call ==
    /\ line \notin DOMAIN data
    /\ path' \in Paths
    /\ line' = 1 /\ matched' = 0 /\ pathdepth' = 0 /\ found' = 0
    /\ UNCHANGED data

(* Mutant: nothing ends the search before the end of the text.             *)
NeverShallower == FALSE

Shallower == data[line].depth < pathdepth

(* strncmp with the key, and with what is in the braces.                   *)
Matches ==
    LET step == path[matched + 1]
    IN  data[line].key = step.key /\ step.value \in {Untested, data[line].value}

(* The end of what was matched last is reached: false.                     *)
Leave ==
    /\ Scanning /\ Shallower
    /\ line' = Len(data) + 1
    /\ UNCHANGED <<data, path, matched, pathdepth, found>>

(* The line is the next step of the path; true if it was the last.  A line *)
(* without a value gives the length 0 and the pointer of an earlier value. *)
Descend ==
    /\ Scanning /\ ~Shallower /\ Matches
    /\ matched' = matched + 1 /\ pathdepth' = data[line].depth
    /\ IF matched' = Len(path)
       THEN found' = line /\ line' = Len(data) + 1
       ELSE line' = line + 1 /\ UNCHANGED found
    /\ UNCHANGED <<data, path>>

SkipLine ==
    /\ Scanning /\ ~Shallower /\ ~Matches
    /\ line' = line + 1
    /\ UNCHANGED <<data, path, matched, pathdepth, found>>

ParseNext == Call \/ Leave \/ Descend \/ SkipLine

ParseSpec == ParseInit /\ [][ParseNext]_parseVars

-----------------------------------------------------------------------------
(* What a path selects, by the structure of the text and not by a scan.    *)

Parent(i) ==
    Max({0} \cup {j \in 1..(i - 1) : data[j].depth < data[i].depth})

(* The first line of the entry that line i is in.                          *)
Entry(i) ==
    Max({0} \cup {j \in 1..i : Parent(j) = Parent(i) /\ data[j].item})

(* Line j may carry the step after step k, which line i carries: below it, *)
(* or, when the value of i picked an entry, in that entry.                 *)
Follows(k, i, j) ==
    IF path[k].value = Untested THEN Parent(j) = i
    ELSE Parent(j) = Parent(i) /\ Entry(j) = Entry(i)

Carries(k, i) ==
    data[i].key = path[k].key /\ path[k].value \in {Untested, data[i].value}

(* The lines that the first n steps of the path select.                    *)
Selected(n) ==
    LET S[k \in DOMAIN path] ==
          IF k = 1 THEN {i \in DOMAIN data : data[i].depth = 0 /\ Carries(1, i)}
          ELSE {j \in DOMAIN data : Carries(k, j) /\ \E i \in S[k - 1] : Follows(k - 1, i, j)}
    IN  S[n]

(* The section of the path: the lines from the one at depth 0 that the     *)
(* path begins with to the next one at depth 0.                            *)
Section ==
    {i \in DOMAIN data : \E s \in Selected(1) :
        s <= i /\ \A j \in (s + 1)..i : data[j].depth > 0}

(* The keys of the entry that line i begins.                               *)
KeysOf(i) == {data[j].key : j \in {j \in Section : Entry(j) = i}}

(* The path names each key once, and a value picks the entry of its last   *)
(* key.  (In an entry of a list within an entry, a key that is missing is  *)
(* found in the next of the outer entries.)                                *)
Straight ==
    /\ \A k, l \in DOMAIN path : path[k].key = path[l].key => k = l
    /\ \A k \in DOMAIN path : path[k].value # Untested => k > 1 /\ k >= Len(path) - 1

(* The text is what the path is meant for: its first key is there once;    *)
(* the others are, in that section, only where the path has them, and only *)
(* once when no value is asked for; a key that picks an entry is the first *)
(* of it; the entries of a list have the same keys; keys of the same thing *)
(* are equally deep.                                                       *)
Tidy ==
    /\ \E i \in Selected(1) : \A j \in DOMAIN data : data[j].key = path[1].key => j = i
    /\ \A k \in 2..Len(path), j \in Section : data[j].key = path[k].key =>
         /\ \E i \in Section : data[i].key = path[k - 1].key /\ Follows(k - 1, i, j)
         /\ path[k].value # Untested => data[j].item
    /\ \A k \in 1..(Len(path) - 1) : path[k].value = Untested =>
         \A i, j \in Selected(k) : i = j
    /\ \A i, j \in Section : data[i].item /\ data[j].item /\ Parent(i) = Parent(j) =>
         KeysOf(i) = KeysOf(j)
    /\ \A i, j \in Section : Parent(i) = Parent(j) => data[i].depth = data[j].depth

Returned == line = Len(data) + 1

(* Line i is below line j or beside it: nothing from j to i is shallower.  *)
InReach(j, i) == j < i /\ \A l \in j..i : data[l].depth >= data[j].depth

(* Of any text and for any path, tidy or not, what ParseYaml finds carries *)
(* the last step, and is below or beside a line that carries the step      *)
(* before: a key that is missing where it should be is answered from       *)
(* another entry, or another driver, but never from beyond the section of  *)
(* that line, when it is an indented one.                                  *)
(*                                                                         *)
(* In a tidy text it finds what the path selects, wherever else in the     *)
(* text, in other sections, the keys of the path are.  When the path       *)
(* selects nothing it finds nothing, if the first two steps of three or    *)
(* more are there: the search ends where the section ends.  (A key missing *)
(* right below the first line of its section is found in a later one.)     *)
FindsSelected ==
    LET n == Len(path)
        selected == Selected(n)
    IN  /\ found # 0 =>
             /\ Carries(n, found)
             /\ n > 1 => \E j \in DOMAIN data : Carries(n - 1, j) /\ InReach(j, found)
        /\ Returned /\ Straight /\ Tidy =>
             /\ selected # {} => found \in selected
             /\ selected = {} /\ n > 2 /\ Selected(2) # {} => found = 0
=============================================================================
