----------------------------- MODULE ThreadMap -----------------------------
(***************************************************************************)
(* What ThreadLocal<T, N> of kern_util.hpp promises its callers: a partial *)
(* map from threads to values with at most N bindings.  A call is one step *)
(* here and concerns the binding of the calling thread only.               *)
(***************************************************************************)
EXTENDS Naturals, FiniteSets

CONSTANTS
  Threads,   \* the thread_t identities
  Values,    \* what callers store
  Empty,     \* the value-initialised T{}
  Absent,    \* no binding
  N          \* the capacity

VARIABLES
  map,       \* map[t] is the value bound to t, or Absent
  reply,     \* reply[t] is what the last call of t returned
  resetting  \* TRUE while deinit runs

vars == <<map, reply, resetting>>

Bound == {t \in Threads : map[t] # Absent}

Init ==
  /\ map = [t \in Threads |-> Absent]
  /\ reply = [t \in Threads |-> "none"]
  /\ resetting = FALSE

Answer(t, r) == reply' = [reply EXCEPT ![t] = r]

Bind(t, v) ==
  /\ ~resetting
  /\ map[t] # Absent \/ Cardinality(Bound) < N
  /\ map' = [map EXCEPT ![t] = v]
  /\ Answer(t, "ok")
  /\ UNCHANGED resetting

Refuse(t) ==
  /\ ~resetting
  /\ map[t] = Absent
  /\ Answer(t, "refused")
  /\ UNCHANGED <<map, resetting>>

Unbind(t) ==
  /\ ~resetting
  /\ map[t] # Absent
  /\ map' = [map EXCEPT ![t] = Absent]
  /\ Answer(t, "ok")
  /\ UNCHANGED resetting

Find(t) ==
  /\ ~resetting
  /\ Answer(t, IF map[t] = Absent THEN "none" ELSE "found")
  /\ UNCHANGED <<map, resetting>>

Read(t) ==
  /\ ~resetting
  /\ map[t] # Absent
  /\ Answer(t, map[t])
  /\ UNCHANGED <<map, resetting>>

\* deinit drops the bindings one after another, and nothing else happens meanwhile.
Reset ==
  /\ \/ ~resetting /\ resetting' = TRUE
     \/ resetting /\ resetting' \in BOOLEAN
  /\ map' \in {map} \cup {[map EXCEPT ![t] = Absent] : t \in Threads}
  /\ resetting' \/ \A t \in Threads : map'[t] = Absent
  /\ UNCHANGED reply

Next ==
  \/ \E t \in Threads :
       \/ \E v \in Values : Bind(t, v)
       \/ Refuse(t) \/ Unbind(t) \/ Find(t) \/ Read(t)
  \/ Reset

Spec == Init /\ [][Next]_vars
=============================================================================
