SPECIFICATION Spec
CONSTANTS
  api1 = api1
  api2 = api2
  batch = batch
  api = api
  nightly = nightly
  Threads = {api1, api2, batch}
  Processes = {api, nightly}
  ProcessOf <- MCProcessOf
  Loops = {TRUE, FALSE}
  Calendar <- MCCalendar
  LineLists <- MCLineLists
  MaxInvoices = 2
  MaxRestarts = 1
INVARIANTS
  DuplicateNumberHasACause
  VatIsExact
  LinesAreRecorded
CHECK_DEADLOCK FALSE
