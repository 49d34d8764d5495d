SPECIFICATION CFairSpec
CONSTANTS
  a = a
  b = b
  q1 = q1
  plain = plain
  Tasks = {t1}
  Workers = {w1}
  Queues = {q1}
  Chapters = {a, b}
  Requests = {r1}
  NoTask = NoTask
  NoWorker = NoWorker
  NoChapter = NoChapter
  NoQueue = NoQueue
  QueueOf <- MCQueueOf
  ChapterOf <- MCChapterOf
  WorkerQueue <- MCWorkerQueue
  Priorities = {0}
  MinPriority <- MCMinPriority
  MaxAttempts = 2
  MinKeep = 1
  Operator = FALSE
  MaxRestarts = 1
  MaxLost = 1
  Score <- MCScore
  Listings <- MCListings
  Loaded = {a, b}
  Modes = {TRUE, FALSE}
  Asks = {"download", "now", "delete", "clear", "mark"}
  Names = {plain}
  NameOf <- MCNameOf
  OtherFiles = {}
  NoFile = NoFile
  Torn = Torn
  Other = Other
INVARIANTS
  CTypeOK
  DownloadingIsWorkedOn
PROPERTY NoChapterStaysDownloading
