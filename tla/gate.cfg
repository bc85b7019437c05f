SPECIFICATION MCSpec
CONSTANTS
  h1 = h1
  h2 = h2
  Holders = {h1, h2}
  Classes <- MCClasses
  Jurisdictions <- MCJurisdictions
  NoClass = "none"
  Policies <- AllPolicies
  Mirrors <- AllMirrors
  Profiles <- AllProfiles
  NoRecord = NoRecord
  Broken = Broken
  MaxRound = 3
  MaxCounter = 1
  MaxChecks = 2
INVARIANTS VerdictsHold
PROPERTIES TimeAdmitsNobody LateProfileLiftsNothing
