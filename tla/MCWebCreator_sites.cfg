SPECIFICATION SitesSpec
CONSTANTS
  Arguments <- MCArguments
  RandomNums <- MCRandomNums
INVARIANTS LinksOfPage UniqueNames
PROPERTIES Finishes
CHECK_DEADLOCK FALSE
