-------------------------- MODULE ManagerFactory --------------------------
(* resourceManagerFactory.ManagerFor: reconcile workers of one kind share  *)
(* a map from account/region/role to a resource manager, guarded by a Go   *)
(* sync.RWMutex.  Each lock operation, each access to the map and the      *)
(* construction of a manager is a step of its own.                         *)
EXTENDS FiniteSets

CONSTANTS Procs,  \* reconcile workers (--reconcile-*-max-concurrent-syncs)
          RmIds,  \* account/region/role combinations in use
          Nil     \* the nil *resourceManager, and "no writer"

ASSUME NilAssumption == /\ Nil \notin Procs \cup RmIds
                        /\ Nil \notin RmIds \X Procs

(* A manager is named by the key and the worker that built it;             *)
(* BuildsOncePerKey shows that the name is unique.                         *)
Managers == RmIds \X Procs

(* The cache key "id/region/role" tells every two combinations apart: an   *)
(* account id and a region hold no slash.                                  *)
KeyWithoutRole(k) == CHOOSE j \in RmIds : TRUE \* a key that drops the role
Key(k) == k

VARIABLES rmCache,  \* the map
          readers,  \* workers that hold the read lock
          writer,   \* the worker that holds or waits for the write lock
          pc,       \* worker -> the next step of its ManagerFor call
          rmId,     \* worker -> the key of the call
          rm,       \* worker -> the local variable rm
          built     \* every manager constructed so far (observation only)

vars == <<rmCache, readers, writer, pc, rmId, rm, built>>

Steps == {"idle", "rlock", "lookup", "runlock", "lock", "drain", "create",
          "store", "unlock", "returned"}

TypeOK == /\ rmCache \in [RmIds -> Managers \cup {Nil}]
          /\ readers \subseteq Procs
          /\ writer \in Procs \cup {Nil}
          /\ pc \in [Procs -> Steps]
          /\ rmId \in [Procs -> RmIds \cup {Nil}]
          /\ rm \in [Procs -> Managers \cup {Nil}]
          /\ built \subseteq Managers

Init == /\ rmCache = [k \in RmIds |-> Nil]
        /\ readers = {}
        /\ writer = Nil
        /\ pc = [p \in Procs |-> "idle"]
        /\ rmId = [p \in Procs |-> Nil]
        /\ rm = [p \in Procs |-> Nil]
        /\ built = {}

Goto(p, from, to) == /\ pc[p] = from
                     /\ pc' = [pc EXCEPT ![p] = to]

(* A worker fetched a CR and asks for the manager of its key.              *)
Call(p) == /\ Goto(p, "idle", "rlock")
           /\ \E k \in RmIds : rmId' = [rmId EXCEPT ![p] = k]
           /\ UNCHANGED <<rmCache, readers, writer, rm, built>>

\* the lookup made outside the read lock
RLockNotHeld(p) == /\ Goto(p, "rlock", "lookup")
                   /\ writer = Nil
                   /\ UNCHANGED <<rmCache, readers, writer, rmId, rm, built>>

(* RLock waits while a writer holds the lock or has announced itself.      *)
RLock(p) == /\ Goto(p, "rlock", "lookup")
            /\ writer = Nil
            /\ readers' = readers \cup {p}
            /\ UNCHANGED <<rmCache, writer, rmId, rm, built>>

Lookup(p) == /\ Goto(p, "lookup", "runlock")
             /\ rm' = [rm EXCEPT ![p] = rmCache[Key(rmId[p])]]
             /\ UNCHANGED <<rmCache, readers, writer, rmId, built>>

RUnlock(p) == /\ Goto(p, "runlock", IF rm[p] # Nil THEN "returned" ELSE "lock")
              /\ readers' = readers \ {p}
              /\ UNCHANGED <<rmCache, writer, rmId, rm, built>>

(* Lock first excludes other writers and new readers ...                   *)
Announce(p) == /\ Goto(p, "lock", "drain")
               /\ writer = Nil
               /\ writer' = p
               /\ UNCHANGED <<rmCache, readers, rmId, rm, built>>

\* the write lock taken while readers are inside
LockWithReaders(p) == /\ Goto(p, "drain", "create")
                      /\ UNCHANGED <<rmCache, readers, writer, rmId, rm, built>>

(* ... and then waits until the readers that are inside have left.         *)
Lock(p) == /\ Goto(p, "drain", "create")
           /\ readers = {}
           /\ UNCHANGED <<rmCache, readers, writer, rmId, rm, built>>

(* newResourceManager: it never fails, and the map is not looked up again. *)
Create(p) == /\ Goto(p, "create", "store")
             /\ rm' = [rm EXCEPT ![p] = <<rmId[p], p>>]
             /\ built' = built \cup {<<rmId[p], p>>}
             /\ UNCHANGED <<rmCache, readers, writer, rmId>>

\* the new manager never put in the map
StoreForgotten(p) == /\ Goto(p, "store", "unlock")
                     /\ UNCHANGED <<rmCache, readers, writer, rmId, rm, built>>

Store(p) == /\ Goto(p, "store", "unlock")
            /\ rmCache' = [rmCache EXCEPT ![Key(rmId[p])] = rm[p]]
            /\ UNCHANGED <<readers, writer, rmId, rm, built>>

\* the deferred Unlock missing
UnlockForgotten(p) == /\ Goto(p, "unlock", "returned")
                      /\ UNCHANGED <<rmCache, readers, writer, rmId, rm, built>>

Unlock(p) == /\ Goto(p, "unlock", "returned")
             /\ writer' = Nil
             /\ UNCHANGED <<rmCache, readers, rmId, rm, built>>

(* The reconcile that used the manager is over.                            *)
Finish(p) == /\ Goto(p, "returned", "idle")
             /\ rm' = [rm EXCEPT ![p] = Nil]
             /\ rmId' = [rmId EXCEPT ![p] = Nil]
             /\ UNCHANGED <<rmCache, readers, writer, built>>

InCall(p) == \/ RLock(p) \/ Lookup(p) \/ RUnlock(p) \/ Announce(p)
             \/ Lock(p) \/ Create(p) \/ Store(p) \/ Unlock(p)

Step(p) == Call(p) \/ InCall(p) \/ Finish(p)

Next == \E p \in Procs : Step(p)

(* The Go scheduler runs every goroutine that can run, and the RWMutex     *)
(* wakes its waiters; nothing obliges a worker to call again.              *)
Fairness == \A p \in Procs : WF_vars(InCall(p))

Spec == Init /\ [][Next]_vars
FairSpec == Spec /\ Fairness

---------------------------------------------------------------------------
(* The Go map is never written by one worker while another reads or writes *)
(* it (the runtime aborts the process on such an access): what the RWMutex *)
(* around rmCache is for.                                                  *)
MapAccessExclusive ==
  \A p, q \in Procs : p # q /\ pc[p] = "store"
                        => pc[q] \notin {"lookup", "store"}

(* A call returns a manager of the account, region and role it asked for,  *)
(* so a reconcile never talks to AWS with another account's client.        *)
RightManager ==
  \A p \in Procs : pc[p] = "returned" => rm[p] # Nil /\ rm[p][1] = rmId[p]

(* A worker that is about to build a manager has not built one for this    *)
(* key before: the missing second lookup under the write lock costs at     *)
(* most one extra manager per worker and key, however long it runs.        *)
BuildsOncePerKey ==
  \A p \in Procs : pc[p] = "create" => <<rmId[p], p>> \notin built

(* ManagerFor implements the atomic get-or-install of ManagerCache: what a *)
(* call returns is what the map holds when it returns.                     *)
Abs == INSTANCE ManagerCache
         WITH installed <- rmCache,
              held <- [p \in Procs |-> IF pc[p] = "returned" THEN rm[p] ELSE Nil]
AtomicGet == Abs!Spec

(* Every call returns: no worker waits forever for the lock, whatever the  *)
(* others do.                                                              *)
CallsReturn == \A p \in Procs : pc[p] = "rlock" ~> pc[p] = "returned"

(* The comment in ManagerFor: the key and the cache "avoid creating        *)
(* multiple resource managers for the same account/region/roleARN          *)
(* combination".                                                           *)
OneManagerPerKey == \A m, n \in built : m[1] = n[1] => m = n
===========================================================================
