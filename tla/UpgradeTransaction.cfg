SPECIFICATION FairUpgrade
CONSTANTS
    Platforms = {"unix", "windows"}
    MaxDeaths = 4
INVARIANT OutcomeIsDurable
PROPERTY IntentHonored
PROPERTY UpgradeConverges
