------------------------ MODULE FilterOptionsProofs ------------------------
(***************************************************************************)
(* A list of options is fetched once, and a control offers its own, for    *)
(* any number of sources, controls and requests.  Both rest on what the    *)
(* session cache of fetchDynamicFilterOptionItems holds: a key names the   *)
(* only request of its source that may still bring, or has brought, the    *)
(* options, so whoever joins the promise of a key waits for a request of   *)
(* that key.                                                               *)
(***************************************************************************)
EXTENDS FilterOptions, TLAPS

Steps == Unsettled \cup Settled \cup {"free"}

FilterType ==
  /\ cache \in [Dynamic -> Fetches \cup {None}]
  /\ fetch \in [Fetches -> [pc : Steps, source : Sources \cup {None}]]
  /\ source \in [Controls -> Sources \cup {None}]
  /\ shown \in [Controls -> Sources \cup {None}]
  /\ awaiting \in [Controls -> SUBSET Fetches]

(* The key of a request that is under way, or has brought options, holds   *)
(* it; and what a key holds is a request for it.                           *)
CacheHolds ==
  /\ \A f \in Fetches :
       fetch[f].source \in Dynamic /\ fetch[f].pc \in Unsettled \cup {"done"} => cache[fetch[f].source] = f
  /\ \A k \in Dynamic : cache[k] # None => fetch[cache[k]].pc # "free" /\ fetch[cache[k]].source = k

(* What a control waits for was sent, and is about the control unless the  *)
(* control was given another source meanwhile.                             *)
AwaitsOwn ==
  \A c \in Controls : \A f \in awaiting[c] :
    fetch[f].pc # "free" /\ (c \notin overlapped => fetch[f].source = source[c])

FilterInv == FilterType /\ CacheHolds /\ AwaitsOwn /\ OwnOptions

-----------------------------------------------------------------------------

LEMMA InitFilter == Init => FilterInv
<1> SUFFICES ASSUME Init PROVE FilterInv
  OBVIOUS
<1>1. FilterType
  BY DEF Init, FilterType, Steps
<1>2. CacheHolds
  BY FilterOptionsAssumption DEF Init, CacheHolds, Unsettled, Sources
<1>3. AwaitsOwn /\ OwnOptions
  BY DEF Init, AwaitsOwn, OwnOptions
<1> QED BY <1>1, <1>2, <1>3 DEF FilterInv

(* The control c starts over with source k, and waits for request f of it. *)
LEMMA Rewatched ==
  ASSUME FilterInv, FilterType', NEW c \in Controls, NEW k \in Sources, StartOver(c, k), NEW f \in Fetches,
         awaiting' = [awaiting EXCEPT ![c] = @ \cup {f}],
         fetch'[f].pc # "free" /\ fetch'[f].source = k,
         \A g \in Fetches : fetch[g].pc # "free" => fetch'[g] = fetch[g]
  PROVE  AwaitsOwn' /\ OwnOptions'
<1>1. /\ source'[c] = k /\ shown'[c] = None
      /\ \A d \in Controls \ {c} : source'[d] = source[d] /\ shown'[d] = shown[d] /\ awaiting'[d] = awaiting[d]
      /\ awaiting'[c] = awaiting[c] \cup {f}
      /\ overlapped \subseteq overlapped' /\ overlapped' \subseteq overlapped \cup {c}
      /\ c \notin overlapped' => awaiting[c] = {}
  BY DEF StartOver, FilterInv, FilterType
<1>2. AwaitsOwn'
  <2> SUFFICES ASSUME NEW d \in Controls, NEW g \in awaiting'[d]
               PROVE  fetch'[g].pc # "free" /\ (d \notin overlapped' => fetch'[g].source = source'[d])
    BY DEF AwaitsOwn
  <2>1. CASE g \in awaiting[d]
    <3>1. g \in Fetches /\ fetch[g].pc # "free" /\ fetch'[g] = fetch[g]
      BY <2>1 DEF FilterInv, FilterType, AwaitsOwn
    <3> QED BY <1>1, <2>1, <3>1 DEF FilterInv, AwaitsOwn
  <2>2. CASE g \notin awaiting[d]
    BY <1>1, <2>2
  <2> QED BY <2>1, <2>2
<1>3. OwnOptions'
  BY <1>1 DEF FilterInv, OwnOptions
<1> QED BY <1>2, <1>3

(* A request is sent for a source no request of which the cache holds.     *)
LEMMA SendFilter ==
  ASSUME FilterInv, NEW c \in Controls, NEW k \in Sources, StartOver(c, k),
         NEW pc \in Unsettled, Send(c, k, pc), k \in Dynamic => cache[k] = None
  PROVE  FilterInv'
<1> DEFINE f == CHOOSE g \in Unsent : TRUE
<1>1. f \in Fetches /\ fetch[f].pc = "free"
  BY DEF Send, Unsent
<1>2. /\ fetch' = [fetch EXCEPT ![f] = [pc |-> pc, source |-> k]]
      /\ awaiting' = [awaiting EXCEPT ![c] = @ \cup {f}]
      /\ cache' = IF k \in Dynamic THEN [cache EXCEPT ![k] = f] ELSE cache
  BY DEF Send
<1> HIDE DEF f
<1>3. fetch'[f].pc = pc /\ fetch'[f].source = k /\ pc # "free" /\ \A g \in Fetches \ {f} : fetch'[g] = fetch[g]
  BY <1>1, <1>2 DEF FilterInv, FilterType, Unsettled
<1>4. FilterType'
  <2>1. fetch' \in [Fetches -> [pc : Steps, source : Sources \cup {None}]]
    BY <1>1, <1>2 DEF FilterInv, FilterType, Steps
  <2>2. cache' \in [Dynamic -> Fetches \cup {None}] /\ awaiting' \in [Controls -> SUBSET Fetches]
    BY <1>1, <1>2 DEF FilterInv, FilterType
  <2> QED BY <2>1, <2>2 DEF StartOver, FilterInv, FilterType
<1>5. CacheHolds'
  <2>1. CASE k \in Dynamic
    <3>1. cache'[k] = f /\ \A x \in Dynamic \ {k} : cache'[x] = cache[x]
      BY <1>2, <2>1 DEF FilterInv, FilterType
    <3>2. \A g \in Fetches : ~(fetch[g].source = k /\ fetch[g].pc \in Unsettled \cup {"done"})
      BY <2>1, FilterOptionsAssumption DEF FilterInv, CacheHolds
    <3>3. \A x \in Dynamic \ {k} : cache[x] # None => cache[x] \in Fetches \ {f}
      BY <1>1 DEF FilterInv, FilterType, CacheHolds
    <3> QED BY <1>1, <1>3, <2>1, <3>1, <3>2, <3>3 DEF FilterInv, CacheHolds
  <2>2. CASE k \notin Dynamic
    <3>1. \A x \in Dynamic : cache[x] # None => cache[x] \in Fetches \ {f}
      BY <1>1 DEF FilterInv, FilterType, CacheHolds
    <3> QED BY <1>1, <1>2, <1>3, <2>2, <3>1 DEF FilterInv, CacheHolds
  <2> QED BY <2>1, <2>2
<1>6. \A g \in Fetches : fetch[g].pc # "free" => fetch'[g] = fetch[g]
  BY <1>1, <1>3
<1> QED BY <1>1, <1>2, <1>3, <1>4, <1>5, <1>6, Rewatched DEF FilterInv

LEMMA WatchDynamicFilter ==
  ASSUME FilterInv, NEW c \in Controls, NEW k \in Dynamic, WatchDynamic(c, k)
  PROVE  FilterInv'
<1>0. StartOver(c, k) /\ k \in Sources
  BY DEF WatchDynamic, Sources
<1>1. CASE cache[k] # None /\ awaiting' = [awaiting EXCEPT ![c] = @ \cup {cache[k]}] /\ UNCHANGED <<cache, fetch>>
  <2>1. cache[k] \in Fetches /\ fetch[cache[k]].pc # "free" /\ fetch[cache[k]].source = k
    BY <1>1 DEF FilterInv, FilterType, CacheHolds
  <2>2. FilterType'
    BY <1>0, <1>1, <2>1 DEF StartOver, FilterInv, FilterType
  <2>3. CacheHolds'
    BY <1>1 DEF FilterInv, CacheHolds
  <2> QED BY <1>0, <1>1, <2>1, <2>2, <2>3, Rewatched DEF FilterInv
<1>2. CASE cache[k] = None /\ Send(c, k, "sent")
  BY <1>0, <1>2, SendFilter DEF Unsettled
<1> QED BY <1>1, <1>2 DEF WatchDynamic

LEMMA WatchFieldFilter ==
  ASSUME FilterInv, NEW c \in Controls, NEW k \in Field, WatchField(c, k)
  PROVE  FilterInv'
<1>1. StartOver(c, k) /\ k \in Sources /\ k \notin Dynamic
  BY FilterOptionsAssumption DEF WatchField, Sources
<1>2. PICK pc \in {"values", "tables"} : Send(c, k, pc)
  BY DEF WatchField
<1> QED BY <1>1, <1>2, SendFilter DEF Unsettled

(* A reply moves its request on; only a failed request leaves its key.     *)
LEMMA NetworkFilter ==
  ASSUME FilterInv, NEW f \in Fetches, Network(f)
  PROVE  FilterInv'
<1>1. PICK pc \in Unsettled \cup Settled : To(f, pc) /\ (pc \in {"empty", "rejected"} \/ UNCHANGED cache)
  BY DEF Network, Replies, BodyReplies, ChainReplies, NextEndpoints, Unsettled, Settled
<1>2. /\ UNCHANGED <<source, shown, awaiting, overlapped>> /\ fetch[f].pc \in Unsettled
      /\ cache' = cache \/ (pc = "empty" /\ cache' = [cache EXCEPT ![fetch[f].source] = None])
  <2>1. CASE Replies(f)
    <3>1. CASE To(f, "body") /\ UNCHANGED cache
      BY <2>1, <3>1 DEF Replies, Unsettled
    <3>2. CASE To(f, "empty") /\ cache' = [cache EXCEPT ![fetch[f].source] = None]
      <4>1. fetch'[f].pc = "empty" /\ fetch'[f].pc = pc
        BY <1>1, <3>2 DEF To, FilterInv, FilterType
      <4> QED BY <2>1, <3>2, <4>1 DEF Replies, Unsettled
    <3> QED BY <2>1, <3>1, <3>2 DEF Replies
  <2>2. CASE BodyReplies(f) \/ ChainReplies(f)
    BY <2>2 DEF BodyReplies, ChainReplies, Unsettled
  <2> QED BY <2>1, <2>2 DEF Network
<1>3. /\ fetch'[f].pc = pc /\ fetch'[f].source = fetch[f].source /\ pc # "free"
      /\ \A g \in Fetches \ {f} : fetch'[g] = fetch[g]
  BY <1>1 DEF To, FilterInv, FilterType, Unsettled, Settled
<1>4. FilterType'
  <2>1. fetch' \in [Fetches -> [pc : Steps, source : Sources \cup {None}]]
    BY <1>1 DEF To, FilterInv, FilterType, Steps
  <2> QED BY <1>2, <2>1 DEF FilterInv, FilterType
<1>5. CacheHolds'
  <2>0. \A k \in Dynamic : cache[k] # None => cache[k] \in Fetches
    BY DEF FilterInv, FilterType
  <2>1. CASE cache' = cache
    BY <1>2, <1>3, <2>0, <2>1 DEF FilterInv, CacheHolds
  <2>2. CASE pc = "empty" /\ cache' = [cache EXCEPT ![fetch[f].source] = None]
    <3>1. \A k \in Dynamic : cache'[k] = IF k = fetch[f].source THEN None ELSE cache[k]
      BY <2>2 DEF FilterInv, FilterType
    <3>2. ASSUME NEW g \in Fetches, g # f, fetch[g].source \in Dynamic, fetch[g].pc \in Unsettled \cup {"done"}
          PROVE  fetch[g].source # fetch[f].source
      BY <1>2, <3>2 DEF FilterInv, CacheHolds
    <3>3. pc \notin Unsettled \cup {"done"}
      BY <2>2 DEF Unsettled
    <3> QED BY <1>3, <2>0, <3>1, <3>2, <3>3 DEF FilterInv, CacheHolds
  <2> QED BY <1>2, <2>1, <2>2
<1>6. AwaitsOwn'
  <2>1. \A c \in Controls : awaiting[c] \subseteq Fetches
    BY DEF FilterInv, FilterType
  <2> QED BY <1>2, <1>3, <2>1 DEF FilterInv, AwaitsOwn
<1>7. OwnOptions'
  BY <1>2 DEF FilterInv, OwnOptions
<1> QED BY <1>4, <1>5, <1>6, <1>7 DEF FilterInv

(* What is delivered to a control that was never given another source      *)
(* meanwhile is about its source.                                          *)
LEMMA DeliverFilter ==
  ASSUME FilterInv, NEW c \in Controls, NEW f \in Fetches, Deliver(c, f)
  PROVE  FilterInv'
<1> DEFINE k == fetch[f].source
<1>1. /\ f \in awaiting[c] /\ UNCHANGED <<cache, fetch, source, overlapped>>
      /\ awaiting' = [awaiting EXCEPT ![c] = @ \ {f}]
      /\ \E r \in {k, None, shown[c]} : shown' = [shown EXCEPT ![c] = r]
  BY DEF Deliver
<1>2. k \in Sources \cup {None}
  BY DEF FilterInv, FilterType
<1>3. FilterType'
  <2>1. shown' \in [Controls -> Sources \cup {None}]
    BY <1>1, <1>2 DEF FilterInv, FilterType
  <2> QED BY <1>1, <2>1 DEF FilterInv, FilterType
<1>4. CacheHolds'
  BY <1>1 DEF FilterInv, CacheHolds
<1>5. AwaitsOwn'
  BY <1>1 DEF FilterInv, FilterType, AwaitsOwn
<1>6. OwnOptions'
  <2>1. c \notin overlapped => k = source[c]
    BY <1>1 DEF FilterInv, AwaitsOwn
  <2> QED BY <1>1, <2>1 DEF FilterInv, FilterType, OwnOptions
<1> QED BY <1>3, <1>4, <1>5, <1>6 DEF FilterInv

LEMMA StepFilter == FilterInv /\ [Next]_vars => FilterInv'
<1> SUFFICES ASSUME FilterInv, [Next]_vars PROVE FilterInv'
  OBVIOUS
<1>1. UNCHANGED vars => FilterInv'
  BY DEF vars, FilterInv, FilterType, CacheHolds, AwaitsOwn, OwnOptions
<1>2. Rest => UNCHANGED vars
  BY DEF Rest
<1> QED BY <1>1, <1>2, WatchDynamicFilter, WatchFieldFilter, DeliverFilter, NetworkFilter DEF Next

(* However many controls ask for a dynamic list, in whatever order they    *)
(* are mounted and change: two requests for it are never both under way or *)
(* successful.                                                             *)
THEOREM FetchedOnceHolds == Spec => []FetchedOnce
<1>1. FilterInv => FetchedOnce
  BY DEF FilterInv, CacheHolds, FetchedOnce
<1> QED BY <1>1, InitFilter, StepFilter, PTL DEF Spec

(* A control offers the options of its own source, however its requests    *)
(* overlap with those of other controls, as long as its source does not    *)
(* change while it waits.                                                  *)
THEOREM OwnOptionsHolds == Spec => []OwnOptions
<1>1. FilterInv => OwnOptions
  BY DEF FilterInv
<1> QED BY <1>1, InitFilter, StepFilter, PTL DEF Spec
=============================================================================
