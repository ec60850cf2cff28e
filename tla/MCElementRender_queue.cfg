\* Two elements share one slot; the one mounted last may have the first order.
SPECIFICATION FairSpec
CONSTANTS
  a = a
  b = b
  cardA = cardA
  dialogA = dialogA
  cardB = cardB
  Elements = {a, b}
  Renderers = {cardA, cardB}
  ElementOf <- OwnCard
  Dialogs = {}
  Editable = {cardB}
  Order <- Orders
  CONCURRENCY = 1
  MaxInputs = 1
  MaxSeq <- Three
  None = None
INVARIANTS
  SlotsServed
PROPERTIES
  EveryRenderEnds
\* Users may stop using the page, and mounts are bounded.
CHECK_DEADLOCK FALSE
