CONSTANTS
  Activities = {a1, a2}
  june = june
  july = july
  Months = {june, july}
  CreatedIn <- OneMonth
  reader = reader
  exporter = exporter
  Requests = {reader, exporter}
  Tasks <- TwoTasks
  Asked <- TwoMonths
  PageSize = 1
  Failures = TRUE
  Apart = TRUE
SPECIFICATION Spec
SYMMETRY ActivitySymmetry
INVARIANTS TypeOK FiguresAgree ListsAreRight ReportsAreTheirMonths
