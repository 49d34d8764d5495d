SPECIFICATION PSpec
CONSTANTS
  t3 = t3
  w3 = w3
  q1 = q1
  q2 = q2
  c1 = c1
  Tasks = {t1, t2}
  Workers = {w1, w2}
  Queues = {q1}
  Chapters = {c1}
  Requests = {r1}
  NoTask = NoTask
  NoWorker = NoWorker
  NoChapter = NoChapter
  NoQueue = NoQueue
  QueueOf <- MCQueueOf
  ChapterOf <- MCChapterOf
  WorkerQueue <- MCWorkerQueue
  Priorities <- MCPriorities
  MinPriority <- MCLowest
  MaxAttempts = 2
  MinKeep = 1
  Operator = FALSE
  MaxRestarts = 1
  MaxLost = 1
SYMMETRY MCSymmetry
INVARIANTS
  TypeOK
  OneHolder
  RunningIsOwned
  AttemptBudget
  TokenReachesRun
PROPERTIES
  FinalIsFinal
  RetentionSparesWork
  ImplementsLease
  PromotedGoesFirst
