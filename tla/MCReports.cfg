SPECIFICATION Spec
CONSTANTS
  Books <- SomeBooks
  Documents <- SomeDocuments
  Askers <- SomeAskers
  Options <- SomeOptions
  YearOf <- Years
  MonthOf <- Months
  IsoWeekOf <- IsoWeeks
  WeekOf <- SundayWeeks
  MaxWrites = 2
INVARIANTS
  ReportsAreTheOwners
  DaysAddUp
  VarianceIsOfTheWrites
  SharesAddUp
