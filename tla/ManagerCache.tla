--------------------------- MODULE ManagerCache ---------------------------
(* What ManagerFor promises its callers, with no lock and no steps in      *)
(* between: a call returns, at one instant, the resource manager that the  *)
(* cache holds at that instant for the requested account, region and role. *)
(* A manager may be installed for a key any number of times, and a key     *)
(* that has a manager never loses it.                                      *)
CONSTANTS Procs,    \* the reconcile workers that call ManagerFor
          RmIds,    \* account/region/role combinations
          Managers, \* the resource managers: <<combination, serial>> pairs
          Nil       \* no manager

VARIABLES installed, \* key -> the manager in the cache, or Nil
          held       \* worker -> the manager its last call returned, or Nil

absVars == <<installed, held>>

Init == /\ installed = [k \in RmIds |-> Nil]
        /\ held = [p \in Procs |-> Nil]

Install(k, m) == /\ m[1] = k
                 /\ installed' = [installed EXCEPT ![k] = m]
                 /\ UNCHANGED held

Get(p, k) == /\ held[p] = Nil
             /\ installed[k] # Nil
             /\ held' = [held EXCEPT ![p] = installed[k]]
             /\ UNCHANGED installed

Drop(p) == /\ held[p] # Nil
           /\ held' = [held EXCEPT ![p] = Nil]
           /\ UNCHANGED installed

Next == \/ \E k \in RmIds, m \in Managers : Install(k, m)
        \/ \E p \in Procs : Drop(p) \/ \E k \in RmIds : Get(p, k)

Spec == Init /\ [][Next]_absVars
===========================================================================
