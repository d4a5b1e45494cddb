SPECIFICATION FrameSpec
CONSTANTS
  Times = {0, 1}
  Anims = {a1, a2, a3}
  MaxTime = 2
  MaxTimers = 3
  MaxScriptOps = 6
  NoAnim = NoAnim
PROPERTY TimersServed
PROPERTY AnimsStepped
