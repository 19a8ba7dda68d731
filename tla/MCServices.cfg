SPECIFICATION FairSpec
CONSTANTS
    Scenes = {"pool", "scan", "learning", "verdicts", "evaluation", "replies", "unsubscribe", "files", "identity", "graph", "stream", "tokens"}
    ForPool <- PoolHere
    ForScan <- ScanHere
    ForLearning <- LearningHere
    ForVerdicts <- VerdictsHere
    ForEvaluation <- EvaluationHere
    ForReplies <- RepliesHere
    ForUnsubscribe <- UnsubscribeHere
    ForFiles <- FilesHere
    ForIdentity <- IdentityHere
    ForGraph <- GraphHere
    ForStream <- StreamHere
    ForTokens <- TokensHere
INVARIANTS TypesKept   AskIsRaised  DbFilesRight   NoneMissed FileStaysGood
PROPERTIES RepliesRight PoolSafe   Settles Learns
CHECK_DEADLOCK FALSE
