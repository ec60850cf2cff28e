--------------------------- MODULE MCElementRender ---------------------------
(* One element with its expand dialog, or two elements that share the load  *)
(* queue; the last to be mounted may have the first order.                  *)
EXTENDS ElementRender, TLC

CONSTANTS a, b, cardA, dialogA, cardB

OwnDialog == (cardA :> a) @@ (dialogA :> a)
OwnCard == (cardA :> a) @@ (cardB :> b)
Orders == (a :> 2) @@ (b :> 1)
Some == (a :> 2)
Fewer == (cardA :> 2) @@ (dialogA :> 3)
Three == (cardA :> 3) @@ (cardB :> 3)
=============================================================================
