CONSTANTS
    Taps = {1, 2}
    Bubbles = {1, 2}
    Offered = {"attendance", "attendanceCommand", "dates", "datesRefresh", "holidays", "holidaysCommand", "holidaysRefresh", "holidaysNav", "exams", "examsCommand", "examSeat", "examRefresh", "timetable", "notice", "inbox", "paperYear", "paperSearch", "menu", "paper", "batch"}
    None = None
SPECIFICATION ScreensSpec
CHECK_DEADLOCK FALSE
INVARIANTS
    LastTapWins
    OneDownload
PROPERTIES
    BubbleSettles
