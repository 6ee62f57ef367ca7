\* One screen at a time in one tab: every screen and the provider around them.
CONSTANTS
  Statuses = {"open"}
  Texts = {"ana"}
  MaxPage = 2
  Sizes = {20}
  DefaultSize = 20
  MaxListLoads = 3
  NRequests = 3
  PageSize = 1
  MaxQueueLoads = 5
  Fields = {"title", "createdBy"}
  Drafts <- MCDrafts
  Blank = "blank"
  LocalIssues <- MCLocalIssues
  RouteIssues <- MCRouteIssues
  MaxPosts = 3
  MaxForms = 2
  MaxReads = 4
  Services = {"requests", "auth"}
  Auth = "auth"
  MaxRounds = 2
  Tab = "tab"
  Tokens = {"t1", "t2"}
  Logouts = {"logout", "again"}
  MaxOpens = 1
  None = None
SPECIFICATION Spec
CHECK_DEADLOCK FALSE
INVARIANTS
  QueueShowsItsReviews
  FormTellsItsOutcome
  TestReadsItsRound
PROPERTIES
  ListShowsItsAnswers
  RefreshOnlyAdds
  NothingHangs
