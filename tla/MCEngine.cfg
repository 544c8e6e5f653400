SPECIFICATION EngineSpec
CONSTANTS
  Nil = Nil
  Blank = Blank
  TimePerUpdate = 2
  MaxUpdates = 2
  FrameTimes <- LoopFrameTimes
  FadeTime = 2
  IntroTime = 2
  Ahead = 2
  MaxStates = 5
INVARIANTS
  LoopIsSound
  OneStory
  ContainersAreTrue
  PicturesAreTrue
PROPERTIES
  WalksUndisturbed
  IsQueue
  InputIsTrue
  AnswersCome
CHECK_DEADLOCK FALSE
