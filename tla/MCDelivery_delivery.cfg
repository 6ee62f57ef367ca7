\* One workflow at a time: the verification of a pull request, a deploy, the routes.
CONSTANTS
  Checks = {}
  MaxPushes = 2
  MaxPeople = 1
  PerPage = 1
  Services = {"bliss-auth", "bliss-requests"}
  Prefixes = {"reviews", "conferences"}
  Universe <- MCUniverse
  Ours <- MCOurs
  Home = "reviews"
SPECIFICATION Spec
CHECK_DEADLOCK FALSE
INVARIANTS
  RedNeverLooksGreen
  OneCommentPerPage
  TouchedAsAsked
  PassedTablesAgree
PROPERTIES
  EveryRunReports
