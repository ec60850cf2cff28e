\* One element in the editor, its card and its expand dialog: two loads or stops
\* of the card and three of the dialog over two versions of what they are given,
\* one slot in the queue.
SPECIFICATION Spec
CONSTANTS
  a = a
  b = b
  cardA = cardA
  dialogA = dialogA
  cardB = cardB
  Elements = {a}
  Renderers = {cardA, dialogA}
  ElementOf <- OwnDialog
  Dialogs = {dialogA}
  Editable = {cardA}
  Order <- Some
  CONCURRENCY = 1
  MaxInputs = 2
  MaxSeq <- Fewer
  None = None
INVARIANTS
  ShownIsLatest
  NoOrphanWait
  SpinnerExplained
PROPERTIES
  StoppedStays
\* Users may stop using the page, and mounts are bounded.
CHECK_DEADLOCK FALSE
