SPECIFICATION CaptureSpec
CONSTANTS
    a1 = a1
    s1 = s1
    s2 = s2
    plan = plan
    news = news
    trade = trade
    NoText = NoText
    Sessions = {s1, s2}
    Agents = {a1}
    AgentOf <- MCAgentOf
    Texts = {plan, news, trade}
    Trader = {trade}
    Actionable = {plan, trade}
    Important = {news}
    NHooks = 2
    UseLLM = TRUE
    SummarizeEvery = 2
    MaxEvents = 4
    MaxFaults = 1
    MaxDays = 1
CHECK_DEADLOCK FALSE
INVARIANTS HashHonest LivingRecent
PROPERTIES FocusMovesForward LockReleased
