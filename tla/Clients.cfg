SPECIFICATION FairSpec
CONSTANTS
    Windows = {w1}
    Shells = {s1, s2}
    s1 = s1
    s2 = s2
    Procs = {s1, s2, "daemon"}
    FirstText <- MCFirstText
    Types <- MCTypes
    Planner <- MCPlanner
    Rest <- MCRest
    UserPlans <- MCUserPlans
    ModelAnswers <- MCModelAnswers
    Budgets <- MCBudgets
    TopFiles = 20
INVARIANTS TypeOK AnsweredByOwn OnlyConfirmed NothingInvented ReportsAreTrue NewestShown
PROPERTIES EverySettles Reaped
CHECK_DEADLOCK FALSE
