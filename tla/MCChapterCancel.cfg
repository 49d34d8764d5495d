SPECIFICATION CSpec
CONSTANTS
  a = a
  b = b
  q1 = q1
  plain = plain
  Tasks = {t1}
  Workers = {w1}
  Queues = {q1}
  Chapters = {a, b}
  Requests = {r1}
  NoTask = NoTask
  NoWorker = NoWorker
  NoChapter = NoChapter
  NoQueue = NoQueue
  QueueOf <- MCQueueOf
  ChapterOf <- MCChapterOf
  WorkerQueue <- MCWorkerQueue
  Priorities = {0}
  MinPriority <- MCMinPriority
  MaxAttempts = 1
  MinKeep = 1
  Operator = FALSE
  MaxRestarts = 0
  MaxLost = 0
  Score <- MCScore
  Listings <- MCListings
  Loaded = {a, b}
  Modes = {FALSE}
  Asks = {"download"}
  Names = {plain}
  NameOf <- MCNameOf
  OtherFiles = {}
  NoFile = NoFile
  Torn = Torn
  Other = Other
PROPERTY CancelStopsDownload
