SPECIFICATION FairSpec
CONSTANTS
  Unanswered = Unanswered
  MaxPlans = 2
  MaxRevisions = 2
  Budgets <- FewEvents
INVARIANTS
  HostActsAsReviewed
  CatalogIsHonest
PROPERTIES
  EditsSurvive
  NewsArrives
CHECK_DEADLOCK FALSE
