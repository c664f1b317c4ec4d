SPECIFICATION FairSpec
CONSTANTS
  MaxAsked = 4
  MaxHistory = 3
  Quota = 6
  MinWidth = 2
  DefaultWidth = 3
  WidthStep = 1
  Margin = 2
  Screens = {5, 7}
  Tabs = {"dashboard", "logs"}
INVARIANTS TypeOK ModelSeesDialogue ForgottenStaysForgotten KeyTogglesOnce
PROPERTIES GetsAnswered
CHECK_DEADLOCK FALSE
