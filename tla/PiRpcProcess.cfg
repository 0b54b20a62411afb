CONSTANTS
  p1 = p1
  g1 = g1
  g2 = g2
  d1 = d1
  d2 = d2
  none = none
  Command = {p1, g1, g2}
  TypeOf <- MCTypeOf
  Dialog = {d1, d2}
  OwnerOf <- MCOwnerOf
  NoCommand = none
  MaxUnread = 2
SPECIFICATION Spec
CHECK_DEADLOCK FALSE
INVARIANTS
  AnswersAreTheirOwn
  TimedUnlessAsked
  StoppedIsGone
PROPERTIES
  ImplementsCommands
  PromptsEnd
