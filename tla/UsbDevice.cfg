SPECIFICATION UsbSpec
CONSTANTS
  MaxEvents = 2
INVARIANTS UsbTypeOK EveryUHasReport
PROPERTIES WholeReports OwnAnswers ReportsFlow
