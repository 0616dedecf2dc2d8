SPECIFICATION Spec
CONSTANTS
  Messages = {"w1", "nv", "f1", "g1"}
  Msg <- Mixed
  Workers = {p1, p2}
  Hubs = {"h1"}
  MaxTurns = 2
  MaxTakes = 3
  MaxHomes = 2
  Answers <- MCAnswers
  Notices <- MCNotices
  RouteChoices <- MCRoutes
  Enabled = {"whatsapp", "weixin", "feishu"}
  Fleet = TRUE
SYMMETRY WorkerSymmetry
INVARIANTS ConversationsStayHome ContinuationAnswersLastTurn RepliesAreSound PlanIsFit NotificationsAreSafe
PROPERTY HistoryIsKept
CHECK_DEADLOCK FALSE
