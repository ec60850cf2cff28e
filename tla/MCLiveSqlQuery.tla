--------------------------- MODULE MCLiveSqlQuery ---------------------------
(* Small instances of LiveSqlQuery, over numbered keys and calls.          *)
EXTENDS LiveSqlQuery, TLC

(* Calls, and keys, are told apart only by what they do: of the initial    *)
(* states that are permutations of each other one is enough, the one whose *)
(* calls are sorted by key and, for a key, the bypassing ones last.        *)
Sorted ==
  /\ req[1].key = 1
  /\ \A r \in Requests \ {1} :
       \/ req[r].key = req[r - 1].key + 1
       \/ req[r].key = req[r - 1].key /\ (req[r - 1].bypass => req[r].bypass)

SortedInit == Init /\ Sorted
SortedSpec == SortedInit /\ [][Next]_vars /\ Fairness
=============================================================================
