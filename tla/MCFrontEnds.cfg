SPECIFICATION Spec
CONSTANTS
  Targets = {t}
  None = None
  Vps = vps
  r = r
  s = s
  Requests = {r, s}
  Users = {u}
  Routes <- SomeRoutes
  Texts <- EdgeTexts
  MaxEdits = 1
INVARIANTS StillReportTrue NoStaleAdmission
PROPERTIES AnswersMeanWhatTheySay
CHECK_DEADLOCK FALSE
