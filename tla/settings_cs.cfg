\* The same settings, looked at through the reported circle size.
SPECIFICATION SettingsSpec
CONSTANTS
    Acronym = {"HR", "EZ"}
    LazerOnly = {"CL"}
    BaseCs = {40, 80}
    ClockRate = {fast}
    Absent = Absent
    Invalid = Invalid
INVARIANTS
    CsOfTheMods
