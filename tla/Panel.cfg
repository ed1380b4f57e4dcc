SPECIFICATION Spec
CONSTANTS
  Half = 3
  num = 4
  MENU_MAX_SHOW_NUM = 2
INVARIANTS
  StepsAreKept
  MenuIsShown
  ClickIsJudged
