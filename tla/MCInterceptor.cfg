SPECIFICATION FairSpec
CONSTANTS
  IntWord = 1024
  Unseen = 1
  Reach = 8
  Offers = 1
  Switch <- Switches
  Width = 3
  Height = 2
  HueStep = 3
  Hues = 4
  HueWord = 16
  Together = 2
  RetryCount = 2
  BeginIndex = {1, 2}
  Uses <- FewAtOnce
INVARIANTS HueFollowsKnob ScreenShowsCursor CursorFollowsShaft OneActPerPress DisplayShowsPeer NotLeftDark OneRunsOn BrokenMetOnce OneConnectionPerError
PROPERTIES NoPhantomStep PlainStepAnnounced CommandWasPlace SeenPressActs LinkFollowsSwitch BarRunsDown CallsReturn
CHECK_DEADLOCK FALSE
