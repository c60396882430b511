---------------------------- MODULE SessionMessage ---------------------------
(***************************************************************************)
(* The parsed session info: who decodes the session text, and what is left *)
(* when decoding fails.  A holder is one of                                *)
(*   LiveClient      updateSessionInfo, whenever session.count changed;    *)
(*   DiskClient      updateSessionInfo, for every text it loads;           *)
(*   LiveConnection  getSessionInfo, until it has a message once;          *)
(*   Application     as<CarSetup>(), which the message does not hold.      *)
(* A text is a version and a document (SessionSchema) that YAML::Load may  *)
(* refuse (yaml).                                                          *)
(* It is loaded whole at the beginning of a call: a text read while it is  *)
(* rewritten is the subject of LiveClient.tla.  What YAML::Load and as<T>  *)
(* do is yaml-cpp's (external, by the version the build asks for).         *)
(***************************************************************************)
EXTENDS SessionSchema, Sequences

CONSTANTS
    Holders,     \* of the four above
    Documents,   \* the documents the first text may be
    Updates,     \* and those that later ones may be
    MaxVersion,  \* bound: texts
    NoMessage    \* no message, no text

ASSUME MessageAssumption ==
    /\ Holders \subseteq {"LiveClient", "DiskClient", "LiveConnection", "Application"}
    /\ \A d \in Documents \cup Updates : IsDocument(d)
    /\ NoMessage \notin [of : [version : Nat, doc : Documents \cup Updates], fields : Outcomes]
    /\ NoMessage \notin [version : Nat, doc : Documents \cup Updates]

VARIABLES
    holder,
    text,     \* version, doc
    pc,       \* "idle" or "decode"
    section,  \* the field of the root that is decoded next
    built,    \* what has been decoded in this call
    first,    \* sessionInfo_.first of LiveClient: the count of the text
    message,  \* NoMessage, or the text it is of (NoMessage when it was created
              \* and never assigned) and what decoding it came to
    result    \* of the last call for this text: "none", "cached", "ok", "error", "throws"

messageVars == <<holder, text, pc, section, built, first, message, result>>

Root == IF holder = "Application" THEN "CarSetup" ELSE "SessionInfoMessage"

(* The fields of the two roots in the order of decode.                     *)
Sections ==
    IF holder = "Application"
      THEN <<"UpdateCount", "TiresAero", "Chassis", "BrakesDriveUnit">>
      ELSE <<"WeekendInfo", "SessionInfo", "QualifyResultsInfo", "CameraInfo",
             "RadioInfo", "DriverInfo", "SplitTimeInfo">>

Places == Below[Root]
(* The fields that hold a struct, and the fields those are held in.        *)
Holds ==
    {<<p, PartOf(p[2])>> : p \in
        {q \in AllPlaces : q[2] \in Read(q[1]) /\ IsPart(q[2])}}
Above[c \in DOMAIN Converters] ==
    LET holds == {h[1] : h \in {g \in Holds : g[2] = c}}
    IN  holds \cup UNION {Above[p[1]] : p \in holds}

(* The documents of a set that have the root's structs.                    *)
DocumentsOf(docs) ==
    {d \in docs : \A p \in DOMAIN d.damage : p[1] = Root \/ \E q \in Above[p[1]] : q[1] = Root}

(* make_shared<SessionInfoMessage>().                                      *)
Empty == [of |-> NoMessage, fields |-> DefaultPart(Root)]

MessageInit ==
    /\ holder \in Holders
    /\ text \in [version : {1}, doc : DocumentsOf(Documents)]
    /\ pc = "idle" /\ section = 1 /\ built = Good
    /\ first = 0 /\ message = NoMessage /\ result = "none"

(* The simulator's next text, or the next override of a recording, which   *)
(* only a file that could be opened comes to.                              *)
NewText ==
    /\ pc = "idle" /\ text.version < MaxVersion
    /\ holder = "DiskClient" => message # NoMessage /\ message.of # NoMessage
    /\ text' \in [version : {text.version + 1}, doc : DocumentsOf(Updates)]
    /\ result' = "none"
    /\ UNCHANGED <<holder, pc, section, built, first, message>>

(* Mutant: the count of the session that ended stays.                      *)
ResetKeepingCount ==
    /\ holder = "LiveClient" /\ pc = "idle"
    /\ message' = NoMessage /\ result' = "none"
    /\ UNCHANGED <<holder, text, pc, section, built, first>>

(* LiveClient::resetSession, at every poll without a connection.           *)
resetSession ==
    /\ holder = "LiveClient" /\ pc = "idle"
    /\ first' = -1 /\ message' = NoMessage /\ result' = "none"
    /\ UNCHANGED <<holder, text, pc, section, built>>

Failed == IF holder = "DiskClient" THEN "error" ELSE "throws"

(* What makes a holder decode the text.                                    *)
NeedsText ==
    CASE holder = "LiveClient" -> first # text.version
      [] holder = "LiveConnection" -> message = NoMessage
      [] OTHER -> TRUE

(* YAML::Load; the clients then create the message when there is none.     *)
LoadYaml ==
    /\ pc = "idle" /\ NeedsText
    /\ first' = IF holder = "LiveClient" THEN text.version ELSE first
    /\ IF text.doc.yaml
         THEN /\ pc' = "decode"
              /\ message' = IF message = NoMessage /\ holder \in {"LiveClient", "DiskClient"}
                              THEN Empty ELSE message
              /\ UNCHANGED result
         ELSE result' = Failed /\ UNCHANGED <<pc, message>>
    /\ UNCHANGED <<holder, text, section, built>>

(* The call ends with what the holder has.                                 *)
Cached ==
    /\ pc = "idle" /\ ~NeedsText /\ result' = "cached"
    /\ UNCHANGED <<holder, text, pc, section, built, first, message>>

Return(r) == pc' = "idle" /\ section' = 1 /\ built' = Good /\ result' = r

(* Mutant: a section is decoded into the message that is handed out.       *)
DecodeInPlace ==
    /\ pc = "decode" /\ section <= Len(Sections)
    /\ LET out == Field(text.doc, Root, Sections[section], Decode(text.doc))
           now == Join({built, out})
       IN  /\ IF out.fails THEN Return(Failed)
                ELSE built' = now /\ section' = section + 1 /\ UNCHANGED <<pc, result>>
           /\ message' = [of |-> text, fields |-> now]
    /\ UNCHANGED <<holder, text, first>>

(* One section of convert<Root>::decode, into a value of its own; an       *)
(* exception drops that value.                                             *)
DecodeSection ==
    /\ pc = "decode" /\ section <= Len(Sections)
    /\ LET out == Field(text.doc, Root, Sections[section], Decode(text.doc))
       IN  IF out.fails THEN Return(Failed)
           ELSE /\ built' = Join({built, out}) /\ section' = section + 1
                /\ UNCHANGED <<pc, result>>
    /\ UNCHANGED <<holder, text, first, message>>

(* *sessionInfo = rootNode.as<SessionInfoMessage>()                        *)
Assign ==
    /\ pc = "decode" /\ section > Len(Sections)
    /\ message' = [of |-> text, fields |-> built]
    /\ Return("ok")
    /\ UNCHANGED <<holder, text, first>>

MessageNext == NewText \/ resetSession \/ LoadYaml \/ Cached \/ DecodeSection \/ Assign

MessageSpec == MessageInit /\ [][MessageNext]_messageVars
-----------------------------------------------------------------------------
(* What is wrong with a place that the rest of the message cannot do       *)
(* without: it has no default, or is not of a form that has one.           *)
Breaks(doc, p) ==
    CASE ~IsPart(p[2]) -> p[2] \in Converters[p[1]].need
      [] p[2] \in DOMAIN Lists -> doc.damage[p] # "none"
      [] p[2] \in DOMAIN Structs ->
           \/ doc.damage[p] = "scalar"
           \/ doc.damage[p] = "absent" /\ p[2] \in Converters[p[1]].need
           \/ doc.damage[p] = "empty" /\ Converters[PartOf(p[2])].need # {}

(* The texts there is a message for: the damage that is not below other    *)
(* damage breaks nothing.                                                  *)
Decodable(doc) ==
    /\ doc.yaml
    /\ \A p \in DOMAIN doc.damage : Above[p[1]] \cap DOMAIN doc.damage = {} => ~Breaks(doc, p)

(* What a message is to say of a text, place by place: a place holds the   *)
(* default when it, or what holds it, is damaged, and the text's value     *)
(* otherwise; only members that are never read stay unassigned.            *)
Says(doc) ==
    LET bad == DOMAIN doc.damage
        lost == {c \in DOMAIN Converters : Above[c] \cap bad # {}}
        gone == {c \in lost : \E q \in Above[c] \cap bad : doc.damage[q] # "empty"}
        unread == (UNION {Unassigned(c) : c \in DOMAIN Converters}) \cap Places
        read == Places \ unread
    IN  Outcome(FALSE, {p \in read : p[1] \in lost \/ p \in bad} \cup {p \in unread : p[1] \in gone},
                {p \in unread : p[1] \notin gone})

(* At any time, also after a call that failed half way, a message is that  *)
(* of one whole text: what is missing in the text costs its own place and  *)
(* what that place holds, and nothing else.  A message that was created    *)
(* for a text that then failed is empty, in every place.                   *)
MessageSays ==
    message # NoMessage =>
      \/ message = Empty
      \/ /\ message.of # NoMessage
         /\ Decodable(message.of.doc) /\ message.fields = Says(message.of.doc)

(* A call fails exactly for a text without which something that has no     *)
(* default is missing: one such field, of one driver, costs the whole      *)
(* update.                                                                 *)
FailsOnlyOnNeeded ==
    /\ result = "ok" => Decodable(text.doc)
    /\ result \in {"error", "throws"} => ~Decodable(text.doc)

(* After a call the live client holds the message of the count it says,    *)
(* unless that text cannot be decoded: then, and only then, the message    *)
(* under the new count is none, an empty one, or that of an earlier text,  *)
(* and no later call tries again.                                          *)
CountOfMessage ==
    holder = "LiveClient" /\ pc = "idle" /\ first = text.version =>
      IF Decodable(text.doc) THEN message # NoMessage /\ message.of = text
      ELSE message \in {NoMessage, Empty} \/ message.of.version < text.version
=============================================================================
