\* The backup, the repository sync with its own lease, an ordinary task and
\* the provider warm-up, with every kind of trouble once.
SPECIFICATION FairSpec
CONSTANTS
    Task = {backup, tenantRepoSync, summary}
    PriorityZero = {backup}
    Bootstrap = {tenantRepoSync}
    LateStart = {tenantRepoSync}
    Actuator = {providerResidency}
    NoTask = NoTask
    Outside = Outside
    NoEntry = NoEntry
    StalePolls = 1
    MaxPasses = 1
    Troubles = {"outside", "shed", "class", "withdrawn", "slot", "restart", "skip"}
    MaxTrouble = 1
INVARIANTS
    TypeOK
PROPERTIES
    NoPollIsWasted
    EveryDueTaskRuns
