\* One ticker, three commits by two committers beside one batch; any cache at the start.
SPECIFICATION Spec
CHECK_DEADLOCK FALSE
SYMMETRY Symmetry
CONSTANTS
    c1 = c1
    c2 = c2
    Tickers = {t1}
    Committers <- MCCommitters
    Drafts <- MCDrafts
    DefaultRule <- MCDefault
    Fetched <- MCFetched
    Snapshots <- MCSnapshots
    Trees <- MCTrees
    Guards <- MCGuards
    Methods <- MCMethods
    One = 100
    TaxRate = 25
    Missing = Missing
    Groups = {2, Missing, NoGroup}
    NoGroup = NoGroup
    Torn = Torn
    None = None
    MaxCommits = 3
    MaxBatches = 1
INVARIANTS
    LaterCommitIsNewer
    VerdictFromOnePolicy
    PassSurvivesKnowledge
