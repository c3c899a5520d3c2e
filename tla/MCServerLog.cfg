CONSTANTS
  MaxHour = 2
  MaxEntries = 2
  Field <- MCField
  Calendar <- MCCalendar
  LoggingEnabled = TRUE
  NULL = NULL
SPECIFICATION Spec
INVARIANT TypeOK OneFileOpen NoEarlyEntry LostOnlyAfterFailure OneHourWhileServing
PROPERTY HourNeverGoesBack CallsReturn StopReturns PicksUpHour
