SPECIFICATION PartsSpec
CONSTANTS
  d1 = d1
  d2 = d2
  car = car
  motorcycle = motorcycle
  NoRates = NoRates
  NoExpense = NoExpense
  NoVehicle = NoVehicle
  NoDistance = NoDistance
  Blank = Blank
  NotLoaded = NotLoaded
  NoFetch = NoFetch
  Reading = Reading
  Drivers = {d1}
  Days = {1, 2}
  Requests = {r1, r2}
  Rates <- TwoRates
  Distances = {1}
  MaxEstimate = 2
  MaxStamp = 1
  RowDrivers = {d1}
  Dates = {1}
  Kilometers = {5, 7}
  VehicleTypes = {car, motorcycle}
  DefaultVehicle = car
  MaxChanges = 2
SYMMETRY SymmetricRequests
PROPERTIES
  ImplementsLedger
  NothingOverwrittenUnseen
  SavedIsWhatWasShown
CHECK_DEADLOCK FALSE
