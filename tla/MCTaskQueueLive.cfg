SPECIFICATION FairSpec
CONSTANTS
  t3 = t3
  w3 = w3
  q1 = q1
  q2 = q2
  c1 = c1
  Tasks = {t1, t3}
  Workers = {w1}
  Queues = {q1}
  Chapters = {c1}
  Requests = {r1}
  NoTask = NoTask
  NoWorker = NoWorker
  NoChapter = NoChapter
  NoQueue = NoQueue
  QueueOf <- MCQueueOf
  ChapterOf <- MCChapterOf
  WorkerQueue <- MCWorkerQueue
  Priorities = {1}
  MinPriority <- MCMinPriority
  MaxAttempts = 2
  MinKeep = 1
  Operator = TRUE
  MaxRestarts = 1
  MaxLost = 1
PROPERTY EveryTaskSettles
