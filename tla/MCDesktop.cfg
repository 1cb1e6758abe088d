CONSTANTS
  Width = 2
  Height = 2
  Ack = 250
  Reports <- MCReports
  Icons <- MCIcons
  CloseBox <- MCCloseBox
SPECIFICATION FairSpec
INVARIANT DesktopSound
PROPERTIES KeepsPointer ClicksLand ClickTaken CursorFollows
CHECK_DEADLOCK FALSE
VIEW Live
