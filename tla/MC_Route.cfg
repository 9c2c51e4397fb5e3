CONSTANTS
    Years <- YearTypes
    Dates <- MC_Dates
    Lengths = {1, 2, 4, 5, 6, 7, 8, 12}
    Legs = {1, 30}
    Dwells = {5, 25}
    Zones <- MC_Zones
SPECIFICATION RouteSpec
PROPERTY LettersMoveInOpeningHours
CHECK_DEADLOCK FALSE
