---------------------------- MODULE SessionSchema ----------------------------
(***************************************************************************)
(* ModelParser.h: how a session info message is read from, and written to, *)
(* a YAML document.  Every struct has a converter, named as the struct is: *)
(* the fields read with a default to fall back on, the fields read without *)
(* one (as<T>() throws when there is nothing to convert), and the fields   *)
(* that are written but whose reading is commented out.                    *)
(*                                                                         *)
(* Fields that are structs or lists of structs are Parts.  Which string or *)
(* number a plain field holds is left out.  ResultsPosition and            *)
(* ResultsFastestLap are left out with the two fields of Session that hold *)
(* them, which are never read.                                             *)
(***************************************************************************)
EXTENDS Integers, FiniteSets

Converter(defaulted, required, unread) ==
    [dflt |-> defaulted, need |-> required, unread |-> unread]

SessionInfoMessage == Converter(
    {"WeekendInfo", "SessionInfo", "QualifyResultsInfo", "CameraInfo",
     "RadioInfo", "DriverInfo", "SplitTimeInfo"}, {}, {})
WeekendInfo == Converter(
    {"TrackName", "TrackID", "TrackLength", "TrackLengthOfficial",
     "TrackDisplayName", "TrackDisplayShortName", "TrackConfigName",
     "TrackCity", "TrackCountry", "TrackAltitude", "TrackLatitude",
     "TrackLongitude", "TrackNorthOffset", "TrackNumTurns",
     "TrackPitSpeedLimit", "TrackType", "TrackDirection", "TrackWeatherType",
     "TrackSkies", "TrackSurfaceTemp", "TrackAirTemp", "TrackAirPressure",
     "TrackWindVel", "TrackWindDir", "TrackRelativeHumidity", "TrackFogLevel",
     "TrackPrecipitation", "TrackCleanup", "TrackDynamicTrack",
     "TrackVersion", "SeriesID", "SeasonID", "SessionID", "SubSessionID",
     "LeagueID", "Official", "RaceWeek", "EventType", "Category", "SimMode",
     "TeamRacing", "MinDrivers", "MaxDrivers", "DCRuleSet",
     "QualifierMustStartRace", "NumCarClasses", "NumCarTypes", "HeatRacing",
     "BuildType", "BuildTarget", "BuildVersion"},
    {"WeekendOptions", "TelemetryOptions"}, {})
WeekendOptions == Converter(
    {"NumStarters", "StartingGrid", "QualifyScoring", "CourseCautions",
     "StandingStart", "ShortParadeLap", "Restarts", "WeatherType", "Skies",
     "WindDirection", "WindSpeed", "WeatherTemp", "RelativeHumidity",
     "FogLevel", "TimeOfDay", "Date", "EarthRotationSpeedupFactor",
     "Unofficial", "CommercialMode", "NightMode", "IsFixedSetup",
     "StrictLapsChecking", "HasOpenRegistration", "HardcoreLevel",
     "NumJokerLaps", "IncidentLimit", "FastRepairsLimit",
     "GreenWhiteCheckeredLimit"}, {}, {})
TelemetryOptions == Converter({"TelemetryDiskFile"}, {}, {})
SessionInfo == Converter({}, {"Sessions"}, {})
Session == Converter(
    {"SessionNum", "SessionLaps", "SessionTime", "SessionNumLapsToAvg",
     "SessionType", "SessionTrackRubberState", "SessionName",
     "SessionSkipped", "SessionRunGroupsUsed",
     "SessionEnforceTireCompoundChange"}, {},
    {"ResultsPositions", "ResultsFastestLap", "ResultsAverageLapTime",
     "ResultsNumCautionFlags", "ResultsNumCautionLaps",
     "ResultsNumLeadChanges", "ResultsLapsComplete", "ResultsOfficial"})
QualifyResultsInfo == Converter({}, {"Results"}, {})
SessionResult == Converter(
    {"Position", "ClassPosition", "CarIdx", "FastestLap"}, {"FastestTime"},
    {})
CameraInfo == Converter({}, {"Groups"}, {})
Group == Converter({"GroupNum", "GroupName"}, {"Cameras"}, {})
Camera == Converter({"CameraNum", "CameraName"}, {}, {})
RadioInfo == Converter({"SelectedRadioNum"}, {"Radios"}, {})
Radio == Converter(
    {"RadioNum", "HopCount", "NumFrequencies", "TunedToFrequencyNum",
     "ScanningIsOn"}, {"Frequencies"}, {})
Frequency == Converter(
    {"FrequencyNum", "FrequencyName", "Priority", "CarIdx", "EntryIdx",
     "ClubID", "CanScan", "CanSquawk", "Muted", "IsMutable", "IsDeletable"},
    {}, {})
DriverInfo == Converter(
    {"DriverCarIdx", "DriverUserID", "PaceCarIdx", "DriverCarIsElectric",
     "DriverCarEngCylinderCount", "DriverCarGearNumForward",
     "DriverCarGearNeutral", "DriverCarGearReverse", "DriverCarVersion",
     "DriverSetupName", "DriverSetupIsModified", "DriverSetupLoadTypeName",
     "DriverSetupPassedTech", "DriverIncidentCount"},
    {"DriverHeadPosX", "DriverHeadPosY", "DriverHeadPosZ",
     "DriverCarIdleRPM", "DriverCarRedLine", "DriverCarFuelKgPerLtr",
     "DriverCarFuelMaxLtr", "DriverCarMaxFuelPct", "DriverCarSLFirstRPM",
     "DriverCarSLShiftRPM", "DriverCarSLLastRPM", "DriverCarSLBlinkRPM",
     "DriverCarEstLapTime", "Drivers"}, {"DriverPitTrkPct"})
Driver == Converter(
    {"CarIdx", "UserName", "AbbrevName", "Initials", "UserID", "TeamID",
     "TeamName", "CarNumber", "CarNumberRaw", "CarPath", "CarClassID",
     "CarID", "CarIsPaceCar", "CarIsAI", "CarIsElectric", "CarScreenName",
     "CarScreenNameShort", "CarClassShortName", "CarClassRelSpeed",
     "CarClassLicenseLevel", "CarClassMaxFuelPct", "CarClassWeightPenalty",
     "CarClassPowerAdjust", "CarClassDryTireSetLimit", "CarClassColor",
     "IRating", "LicLevel", "LicSubLevel", "LicString", "LicColor",
     "IsSpectator", "CarDesignStr", "HelmetDesignStr", "SuitDesignStr",
     "BodyType", "FaceType", "HelmetType", "CarNumberDesignStr",
     "CarSponsor_1", "CarSponsor_2", "ClubName", "ClubID", "DivisionName",
     "DivisionID", "CurDriverIncidentCount", "TeamIncidentCount"},
    {"CarClassEstLapTime"}, {})
SplitTimeInfo == Converter({}, {"Sectors"}, {})
Sector == Converter({"SectorNum"}, {"SectorStartPct"}, {})
CarSetup == Converter(
    {"UpdateCount"}, {"TiresAero", "Chassis", "BrakesDriveUnit"}, {})
TiresAero == Converter(
    {},
    {"LeftFrontTire", "LeftRearTire", "RightFrontTire", "RightRearTire",
     "AeroSettings"}, {})
Tire == Converter(
    {},
    {"StartingPressure", "LastHotPressure", "LastTempsOMI",
     "TreadRemaining"}, {})
AeroSettings == Converter(
    {"RearWingSetting", "OfDivePlanes"}, {"WingGurneySetting"}, {})
Chassis == Converter(
    {},
    {"Front", "LeftFront", "LeftRear", "RightFront", "RightRear", "Rear"},
    {})
FrontEnd == Converter(  \* Front
    {"ArbSize", "ToeIn", "DisplayPage"}, {"SteeringRatio"}, {})
ChassisCorner == Converter(
    {"CornerWeight", "RideHeight", "ShockDefl", "SpringPerchOffset",
     "SpringRate", "LsCompDamping", "HsCompDamping", "HsRbdDamping", "Camber",
     "ToeIn"}, {}, {})
Rear == Converter({"ArbSize", "CrossWeight"}, {}, {})
BrakesDriveUnit == Converter(
    {}, {"BrakeSpec", "Fuel", "Engine", "GearRatios"}, {})
BrakeSpec == Converter({"PadCompound", "BrakePressureBias"}, {}, {})
Fuel == Converter({"FuelLevel"}, {}, {})
Engine == Converter({"BoostLevel_Cal", "ThrottleShape_Tps"}, {}, {})
GearRatio == Converter(
    {"GearStack", "SpeedInFirst", "SpeedInSecond", "SpeedInThird",
     "SpeedInFourth", "SpeedInFifth", "SpeedInSixth"}, {}, {})
-----------------------------------------------------------------------------
Converters ==
    [SessionInfoMessage |-> SessionInfoMessage, WeekendInfo |-> WeekendInfo,
     WeekendOptions |-> WeekendOptions, TelemetryOptions |-> TelemetryOptions,
     SessionInfo |-> SessionInfo, Session |-> Session,
     QualifyResultsInfo |-> QualifyResultsInfo, SessionResult |-> SessionResult,
     CameraInfo |-> CameraInfo, Group |-> Group, Camera |-> Camera,
     RadioInfo |-> RadioInfo, Radio |-> Radio, Frequency |-> Frequency,
     DriverInfo |-> DriverInfo, Driver |-> Driver,
     SplitTimeInfo |-> SplitTimeInfo, Sector |-> Sector, CarSetup |-> CarSetup,
     TiresAero |-> TiresAero, Tire |-> Tire, AeroSettings |-> AeroSettings,
     Chassis |-> Chassis, Front |-> FrontEnd, ChassisCorner |-> ChassisCorner,
     Rear |-> Rear, BrakesDriveUnit |-> BrakesDriveUnit, BrakeSpec |-> BrakeSpec,
     Fuel |-> Fuel, Engine |-> Engine, GearRatio |-> GearRatio]

(* The fields that are lists, and the struct of their entries.             *)
Lists ==
    [Sessions |-> "Session", Results |-> "SessionResult", Groups |-> "Group",
     Cameras |-> "Camera", Radios |-> "Radio", Frequencies |-> "Frequency",
     Drivers |-> "Driver", Sectors |-> "Sector"]

(* The fields that are structs.                                            *)
Structs ==
    [WeekendInfo |-> "WeekendInfo", SessionInfo |-> "SessionInfo",
     QualifyResultsInfo |-> "QualifyResultsInfo", CameraInfo |-> "CameraInfo",
     RadioInfo |-> "RadioInfo", DriverInfo |-> "DriverInfo",
     SplitTimeInfo |-> "SplitTimeInfo", WeekendOptions |-> "WeekendOptions",
     TelemetryOptions |-> "TelemetryOptions", TiresAero |-> "TiresAero",
     Chassis |-> "Chassis", BrakesDriveUnit |-> "BrakesDriveUnit",
     LeftFrontTire |-> "Tire", LeftRearTire |-> "Tire", RightFrontTire |-> "Tire",
     RightRearTire |-> "Tire", AeroSettings |-> "AeroSettings", Front |-> "Front",
     LeftFront |-> "ChassisCorner", LeftRear |-> "ChassisCorner",
     RightFront |-> "ChassisCorner", RightRear |-> "ChassisCorner", Rear |-> "Rear",
     BrakeSpec |-> "BrakeSpec", Fuel |-> "Fuel", Engine |-> "Engine",
     GearRatios |-> "GearRatio"]

IsPart(f) == f \in DOMAIN Lists \cup DOMAIN Structs
PartOf(f) == IF f \in DOMAIN Lists THEN Lists[f] ELSE Structs[f]

(* What encode writes, and what decode reads.                              *)
Written(c) == Converters[c].dflt \cup Converters[c].need \cup Converters[c].unread
Read(c)    == Converters[c].dflt \cup Converters[c].need

(* A place is a field of a struct.  The entries of a list are alike, and   *)
(* so are the four tires and the four corners of a car.                    *)
PlacesOf(c) == {<<c, f>> : f \in Written(c)}
AllPlaces == UNION {PlacesOf(c) : c \in DOMAIN Converters}

(* The places of a struct, and of the structs in it, that hold a value: a  *)
(* list is one, too, as it may have no entries.                            *)
Below[c \in DOMAIN Converters] ==
    {<<c, f>> : f \in Written(c) \ DOMAIN Structs}
      \cup UNION {Below[PartOf(f)] : f \in {g \in Read(c) : IsPart(g)}}

Under(c, f) == IF f \in DOMAIN Structs THEN Below[Structs[f]]
               ELSE {<<c, f>>} \cup IF IsPart(f) THEN Below[PartOf(f)] ELSE {}

-----------------------------------------------------------------------------
(* A document: what is wrong at some of its places.  "absent": no such key; *)
(* "empty": the key and nothing after it; "scalar": something that is      *)
(* neither map, list nor a value of the type; "none": a list without       *)
(* entries.                                                                *)
Kinds == {"absent", "empty", "scalar", "none"}
KindsAt(p) ==
    IF ~IsPart(p[2]) THEN {"absent"}
    ELSE IF p[2] \in DOMAIN Lists THEN Kinds ELSE Kinds \ {"none"}
IsDocument(d) ==
    /\ d.yaml \in BOOLEAN /\ DOMAIN d.damage \subseteq AllPlaces
    /\ \A p \in DOMAIN d.damage : d.damage[p] \in KindsAt(p)
Whole(doc, p) == p \notin DOMAIN doc.damage

(* What comes of decoding: did it throw; the places that hold the default; *)
(* and those whose member was never assigned (decode starts from T t;).    *)
Outcome(fails, dflt, unset) == [fails |-> fails, dflt |-> dflt, unset |-> unset]
Outcomes == [fails : BOOLEAN, dflt : SUBSET AllPlaces, unset : SUBSET AllPlaces]
Good == Outcome(FALSE, {}, {})
Throw == Outcome(TRUE, {}, {})
Join(outcomes) ==
    Outcome(\E o \in outcomes : o.fails, UNION {o.dflt : o \in outcomes},
            UNION {o.unset : o \in outcomes})

(* T{}, the fallback for a section.                                        *)
DefaultPart(c) == Outcome(FALSE, Below[c], {})
Unassigned(c) == {<<c, f>> : f \in Converters[c].unread}

(* decode of an empty node: every key is absent.                           *)
DecodeEmpty(c) ==
    IF Converters[c].need # {} THEN Throw
    ELSE Outcome(FALSE, UNION {Under(c, f) : f \in Converters[c].dflt}, Unassigned(c))

(* Mutant: a broken struct falls back on the default as a missing one does. *)
FieldForgiving(doc, c, f, inner) ==
    LET p == <<c, f>>
    IN  CASE Whole(doc, p) /\ IsPart(f) -> inner[PartOf(f)]
          [] Whole(doc, p) /\ ~IsPart(f) -> Good
          [] ~Whole(doc, p) /\ IsPart(f) -> Outcome(FALSE, Under(c, f), {})
          [] OTHER -> IF f \in Converters[c].need THEN Throw ELSE Outcome(FALSE, {p}, {})

(* A struct or list that is not whole.                                     *)
DamagedPart(c, f, kind) ==
    CASE kind = "absent" /\ f \in Converters[c].need -> Throw
      [] kind = "empty" /\ f \in DOMAIN Lists -> Throw
      [] kind = "empty" /\ f \in DOMAIN Structs -> DecodeEmpty(PartOf(f))
      [] kind = "scalar" -> Throw
      [] OTHER -> Outcome(FALSE, Under(c, f), {})

(* One field.  Nothing in yaml-cpp's as<T>(fallback) catches what a        *)
(* decode inside it throws; a scalar throws at the first operator[], a     *)
(* list that is no sequence does not convert.                              *)
Field(doc, c, f, inner) ==
    LET p == <<c, f>>
    IN  CASE Whole(doc, p) /\ IsPart(f) -> inner[PartOf(f)]
          [] Whole(doc, p) /\ ~IsPart(f) -> Good
          [] ~Whole(doc, p) /\ IsPart(f) -> DamagedPart(c, f, doc.damage[p])
          [] OTHER -> IF f \in Converters[c].need THEN Throw ELSE Outcome(FALSE, {p}, {})

(* convert<c>::decode, of a node that is a map, for every struct c.        *)
Decode(doc) ==
    LET decode[c \in DOMAIN Converters] ==
            Join({Field(doc, c, f, decode) : f \in Read(c)}
                   \cup {Outcome(FALSE, {}, Unassigned(c))})
    IN  decode
=============================================================================
