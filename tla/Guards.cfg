SPECIFICATION GuardSpec
CONSTANTS
  Slots = {t1, t2}
  Redis = {t1, t2}
  MaxEdits = 2
  RoleNames = {"MANAGER", "EMPLOYEE"}
  Working = {"ACTIVE", "TRIAL"}
  NoEntry = NoEntry
PROPERTIES EventuallyCurrent CurrentStaysCurrent
