SPECIFICATION Spec
CONSTANTS
  t1 = t1
  t2 = t2
  NoThread = NoThread
  NotANumber = NotANumber
  NoId = NoId
  Torn = Torn
  NoFile = NoFile
  Threads = {t1, t2}
  ValidNuts = {"almond", "cashew"}
  JobAnswers <- Answers
  SatietyAnswers <- Unclear
  MenuMode = TRUE
  MaxBacklog = 2
INVARIANTS OneListener StopLosesOneFlow OnlyAsTold LastUpdateShown
