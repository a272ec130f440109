\* Commands given one over the other, and every way of answering their prompts.
SPECIFICATION Spec
CONSTANTS
  Commands <- MCCommands
  bob = bob
  joe = joe
  toolong = toolong
  Inputs <- MCInputs
  Empty = empty
  Blanks = blanks
  MaxOpen = 2
INVARIANTS ExecutedIsValid RefusedIsAskedAgain PromptsAreBounded
  PromptsFollowTheForm
