---------------------------- MODULE BoundedReads ----------------------------
(***************************************************************************)
(* What a cache of query answers promises to those who read through it:    *)
(* the rows a reader is given were read at the source no longer ago than   *)
(* the bound of its key.  How the cache keeps, shares or drops what it     *)
(* knows is not said here.                                                 *)
(***************************************************************************)
EXTENDS Integers

CONSTANTS
  Readers,
  Keys,    \* what can be asked for
  Bound    \* [Keys -> Nat]: how old an answer may be when it is given

VARIABLES
  now,
  read     \* what became of the last read of each reader

Idle == [pc |-> "idle"]
Waiting(k) == [pc |-> "waiting", key |-> k]
Failed(k) == [pc |-> "failed", key |-> k]
Answered(k, t) == [pc |-> "answered", key |-> k, at |-> t]

Init == now = 0 /\ read = [r \in Readers |-> Idle]

(* Outcomes the reader of k may be given at this moment. *)
Outcome(k, v) ==
  \/ v = Failed(k)
  \/ /\ v.pc = "answered" /\ v.key = k
     /\ v.at \in Int /\ v.at <= now /\ now < v.at + Bound[k]

(* A reader asks, is given an outcome, does both at once, or goes away.    *)
Moves(r) ==
  \/ read'[r] = read[r]
  \/ read'[r] = Idle
  \/ \E k \in Keys : read'[r] = Waiting(k) \/ Outcome(k, read'[r])

Tick == now' = now + 1 /\ UNCHANGED read

ReadersMove ==
  /\ DOMAIN read' = Readers
  /\ \A r \in Readers : Moves(r)
  /\ UNCHANGED now

Next == Tick \/ ReadersMove

Spec == Init /\ [][Next]_<<now, read>>
=============================================================================
