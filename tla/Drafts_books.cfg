CHECK_DEADLOCK FALSE
CONSTANTS
  ph1 = ph1  ph2 = ph2  m1 = m1  m2 = m2
  Phones = {ph1, ph2}
  Actions = {"sale"}
  Tasks = {m1, m2}
  MaxDrafts = 2
  MaxDirect = 1
  MaxGaps = 1
SPECIFICATION FairDraftSpec
INVARIANTS CommittedOnce OneDraftPerRecord UndoIsExact
PROPERTIES ImplementsConfirmation QuestionIsSettled
