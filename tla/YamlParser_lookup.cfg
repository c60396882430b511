SPECIFICATION ParseSpec
CONSTANTS
    YamlTexts <- MCTexts
    Paths <- MCPaths
    NoKey = NoKey
    Untested = Untested
    DriverInfo = DriverInfo
    SessionInfo = SessionInfo
    Drivers = Drivers
    CarIdx = CarIdx
    UserName = UserName
    Dots = Dots
    NoValue = NoValue
INVARIANT FindsSelected
