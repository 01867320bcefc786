SPECIFICATION FairSpec
CONSTANTS
  Slices <- MCSlices
  Filters = {"all", "failed"}
  Jobs = {"j1", "j2"}
  MaxChanges = 2
  MaxLogins = 2
  MaxFlights = 2
INVARIANTS
  DashboardInv
  DetailsAgree
PROPERTIES
  ViewsSettle
