SPECIFICATION MsgSpec
CONSTANTS
  MsgTasks = {t1, t2}
  Users = {"ann", "bob"}
  Letters <- MCLetters
  Nodes = {"n1", "n2", "n3"}
  INIT_ON_ALLOC = TRUE
INVARIANT MailConserved
CHECK_DEADLOCK FALSE
