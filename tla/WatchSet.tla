------------------------------ MODULE WatchSet ------------------------------
(***************************************************************************)
(* What the synchronizer promises its callers: a set of watched GitSync    *)
(* keys, any of which is handed, over and over, to a free worker of the    *)
(* pool.  Nothing is said of the order, of the lock or of the channel.     *)
(* SyncQueue (the linked list, the mutex and the key channel of            *)
(* internal/sync/syncer.go) is shown to implement this specification, and  *)
(* Numaplane composes the rest of the controller with it.                  *)
(***************************************************************************)
CONSTANTS
    Keys,      \* the "namespace/name" keys of GitSync objects
    Workers,   \* the goroutines that execute Syncer.run
    NoKey      \* what a worker without a task works on

VARIABLES
    watched,   \* the keys between StartWatching and StopWatching
    job        \* job[w]: the key worker w is synchronizing, or NoKey

wsVars == <<watched, job>>

WSTypeOK == /\ watched \subseteq Keys
            /\ job \in [Workers -> Keys \cup {NoKey}]

WSInit == /\ watched = {}
          /\ job = [w \in Workers |-> NoKey]

Watch(k) == /\ watched' = watched \cup {k}
            /\ UNCHANGED job

Unwatch(k) == /\ watched' = watched \ {k}
              /\ UNCHANGED job

\* A free worker starts on a key that is watched at that moment.
Pick(w, k) == /\ job[w] = NoKey
              /\ k \in watched
              /\ job' = [job EXCEPT ![w] = k]
              /\ UNCHANGED watched

Finish(w) == /\ job[w] # NoKey
             /\ job' = [job EXCEPT ![w] = NoKey]
             /\ UNCHANGED watched

\* The last thing a worker does for a GitSync that is gone.
FinishUnwatch(w) == /\ job[w] # NoKey
                    /\ job' = [job EXCEPT ![w] = NoKey]
                    /\ watched' = watched \ {job[w]}

WSNext == \/ \E k \in Keys : Watch(k) \/ Unwatch(k)
          \/ \E w \in Workers, k \in Keys : Pick(w, k)
          \/ \E w \in Workers : Finish(w) \/ FinishUnwatch(w)

WSSpec == WSInit /\ [][WSNext]_wsVars
=============================================================================
