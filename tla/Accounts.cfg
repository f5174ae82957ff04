SPECIFICATION Spec
CONSTANTS
  Slots = {t1, t2}
  Redis = {t1}
  MaxEdits = 1
  RoleNames = {"MANAGER"}
  Working = {"ACTIVE"}
  NoEntry = NoEntry
CHECK_DEADLOCK FALSE
PROPERTIES CallsSettle SessionSurvives
