INIT clockInit
NEXT clockNext
CONSTANTS
  None = None
  Goals = {"g1", "g2"}
  SessionOf <- GoalSession
  Sessions = {"s1", "s2"}
  MaxFacts = 2
  MaxStamp = 1
  MaxFaults = 1
  MaxOps = 2
  Names <- ToolNames
  Denied = {"chat_delete"}
  SecretNames = {"secret_get"}
  LaunchNames = {"launch"}
  PowerfulNames = {"fs_write"}
  SendNames = {"email_send"}
  DeleteNames = {"note_delete", "chat_delete"}
  MutatingNames = {"db_set"}
  Plugins = {"p1", "p2"}
  Owner <- ToolOwner
  Ids = {1, 2, 3}
  Events <- SomeEvents
  Subscribed = {"a", "b"}
  Forms <- SomeForms
  AnyPayload = AnyPayload
  NoRule = NoRule
  Tasks = {t1, t2}
  Callers = {t1, t2}
  MaxCalls = 3
  MaxMs = 2
  MaxRules = 1
  MaxEvents = 2
  MaxRequests = 3
  MaxTime = 4
  MaxCrashes = 1
  DbMayFail = TRUE
CHECK_DEADLOCK FALSE
INVARIANT AnswerIsOwn
