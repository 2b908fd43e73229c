SPECIFICATION FairRobotSpec
CONSTANTS
    Null = Null
    NoOne = NoOne
    UserBlips <- MCUserBlips
    RobotBlips <- MCRobotBlips
    MaxTyped = 1
    MaxRemovals = 1
INVARIANTS ViewShowsManifest UserSeesHistory RobotSeesHistory
PROPERTIES EveryBlipIsAnswered
CHECK_DEADLOCK FALSE
