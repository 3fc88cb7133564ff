SPECIFICATION Spec
CONSTANTS
    None = None
    DayLength = 3
    WeekDays = 2
    DailyAt = 4
    WeeklyAt = 2
    TimeChoices = {1, 2}
    MaxEdits = 1
    MaxFaults = 0
PROPERTY DigestNotEarly
CHECK_DEADLOCK FALSE
