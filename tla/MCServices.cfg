SPECIFICATION ServicesSpec
CONSTANTS
  Calls = {c1, c2}
  MaxCallFaults = 1
  MaxJobFaults = 3
  Models = {"a", "b"}
  Chain <- MCChain
  FailureThreshold = 2
  ResetTimeout = 1
  MaxLlmTime = 2
  MaxLlmFailures = 2
  Users = {"u1"}
  MaxSlots = 2
  MaxTemplates = 3
  Documents = {"d1"}
  LastChunk = 2
  MaxAttempts = 2
  Questions = {"q1", "q2"}
  ComplexQuestions = {"q2"}
  CompoundQuestions = {"q2"}
  UseHyde = {FALSE}
  Conversations = {}
  SourceDocs = {"d"}
  MaxIterations = 2
  ConfidenceThreshold = 6
  LastStored = 4
  Parent <- MCParent
  CandidateK = 2
  RrfK = 2
  RerankerTopN = 3
  TopK = 2
  MaxSubQueries = 2
  Denominator = 60
  Transactions = {"t1"}
  Interval = 2
  Lookback = 2
  MaxPgTime = 6
  Emails = {"e1"}
  MaxUsers = 2
  MaxMailAttempts = 2
  Admins = {"a1", "a2", "a3"}
  AdminEmail <- MCAdminEmail
  Anybody = "anybody"
  Devices = {"u1"}
  Randoms = {"r1"}
  Paragraphs <- MCParagraphs
  MaxParagraphs = 4
  ParentSize = 4
  ChunkOverlap = 1
  ProbeSize = 2
SYMMETRY MCSymmetry
INVARIANTS
  ServicesTypeOK
  BreakerOpensAfterFailures
  AnswerEndsWhole
  VersionsUnique
  OneActivePerOwner
  ProcessedHasAllChunks
  OrphansOnlyByRace
  AnswersKept
  RetrievalIsAsDefined
  UnsettledIsReported
  SignupMailed
  CredentialsAreOwners
  AccountsAreReached
CHECK_DEADLOCK FALSE
