----------------------------- MODULE SliceCache -----------------------------
(***************************************************************************)
(* What the slice cache promises its callers (the doc comments of Acquire, *)
(* Release and Close in internal/cutter/manager.go), without entries,      *)
(* counters, timers or locks. TrackCache is shown to implement it.         *)
(***************************************************************************)

CONSTANTS Callers, Keys, NoKey

VARIABLES
  slice,  \* per key: no slice, one being cut, or one that is ready
  use,    \* what each caller has of which key
  open    \* FALSE once the cache was closed; it promises nothing from then on

vars == <<slice, use, open>>

Status == {"idle", "waiting", "failed", "holding"}
Use == [status : Status, key : Keys \cup {NoKey}]

Unused == [status |-> "idle", key |-> NoKey]
Using(status, k) == [status |-> status, key |-> k]

\* The callers that hold the slice of k or wait for it.
Users(k) == {c \in Callers : use[c] \in {Using("waiting", k), Using("holding", k)}}

Init ==
  /\ slice = [k \in Keys |-> "none"]
  /\ use = [c \in Callers |-> Unused]
  /\ open = TRUE

\* A caller asks for a slice: it has it at once only if it is ready.
Ask(c, k) ==
  /\ use[c] = Unused
  /\ IF slice[k] = "ready"
       THEN /\ use' = [use EXCEPT ![c] = Using("holding", k)]
            /\ slice' = slice
       ELSE /\ use' = [use EXCEPT ![c] = Using("waiting", k)]
            /\ slice' = [slice EXCEPT ![k] = "cutting"]
  /\ UNCHANGED open

\* The cut of a key succeeds for all who wait for it ...
Ready(k) ==
  /\ slice[k] = "cutting"
  /\ slice' = [slice EXCEPT ![k] = "ready"]
  /\ UNCHANGED <<use, open>>

\* ... or fails for all of them.
Fail(k) ==
  /\ slice[k] = "cutting"
  /\ slice' = [slice EXCEPT ![k] = "none"]
  /\ use' = [c \in Callers |->
       IF use[c] = Using("waiting", k) THEN Using("failed", k) ELSE use[c]]
  /\ UNCHANGED open

\* A waiting caller gets the slice, complete and on the disk.
Obtain(c, k) ==
  /\ use[c] = Using("waiting", k)
  /\ slice[k] = "ready"
  /\ use' = [use EXCEPT ![c] = Using("holding", k)]
  /\ UNCHANGED <<slice, open>>

\* A caller returns with an error, or gives the slice back.
Leave(c) ==
  /\ use[c] # Unused
  /\ use' = [use EXCEPT ![c] = Unused]
  /\ UNCHANGED <<slice, open>>

\* A slice is removed only while nobody holds it or waits for it.
Evict(k) ==
  /\ slice[k] = "ready"
  /\ Users(k) = {}
  /\ slice' = [slice EXCEPT ![k] = "none"]
  /\ UNCHANGED <<use, open>>

Close ==
  /\ open' = FALSE
  /\ slice' = [k \in Keys |-> "none"]
  /\ use' = [c \in Callers |-> Unused]

Next ==
  /\ open
  /\ \/ \E c \in Callers : Leave(c) \/ \E k \in Keys : Ask(c, k) \/ Obtain(c, k)
     \/ \E k \in Keys : Ready(k) \/ Fail(k) \/ Evict(k)
     \/ Close

Spec == Init /\ [][Next]_vars
=============================================================================
