----------------------- MODULE ManagerFactory_proofs -----------------------
(* Proofs about ManagerFactory for any number of workers and keys.         *)
EXTENDS ManagerFactory, TLAPS

(* The write lock belongs to the worker between Announce and Unlock, the   *)
(* read lock to the workers between RLock and RUnlock, and past the drain  *)
(* no reader is inside.                                                    *)
LockInv ==
  /\ \A p \in Procs : pc[p] \in {"drain", "create", "store", "unlock"}
                        <=> writer = p
  /\ \A p \in Procs : pc[p] \in {"lookup", "runlock"} <=> p \in readers
  /\ \A p \in Procs : pc[p] \in {"create", "store", "unlock"} => readers = {}

(* The map holds managers under their own key, and the local variable rm   *)
(* agrees with the map wherever the worker holds a lock that protects it.  *)
CacheInv ==
  /\ \A k \in RmIds : rmCache[k] # Nil => rmCache[k][1] = k
  /\ \A p \in Procs :
       /\ pc[p] # "idle" => rmId[p] \in RmIds
       /\ pc[p] \in {"runlock", "unlock"} => rm[p] = rmCache[rmId[p]]
       /\ pc[p] \in {"store", "unlock"} => rm[p] = <<rmId[p], p>>

(* What a worker built it also installs, and a worker that missed a key    *)
(* has not built a manager for it.                                         *)
BuiltInv ==
  /\ \A k \in RmIds, p \in Procs :
       <<k, p>> \in built => \/ rmCache[k] # Nil
                             \/ (pc[p] = "store" /\ rmId[p] = k)
  /\ \A p \in Procs :
       (\/ pc[p] \in {"lock", "drain", "create"}
        \/ (pc[p] = "runlock" /\ rm[p] = Nil))
         => <<rmId[p], p>> \notin built

Inv == TypeOK /\ LockInv /\ CacheInv /\ RightManager /\ BuiltInv

---------------------------------------------------------------------------
LEMMA InitInv == Init => Inv
  BY NilAssumption DEF Init, Inv, TypeOK, Steps, LockInv, CacheInv,
                       RightManager, BuiltInv

LEMMA NextInv == Inv /\ [Next]_vars => Inv'
<1> SUFFICES ASSUME Inv, [Next]_vars PROVE Inv'
  OBVIOUS
<1> USE NilAssumption DEF Inv, TypeOK, Steps, Managers, Goto, Key
<1>1. CASE UNCHANGED vars
  BY <1>1 DEF vars, LockInv, CacheInv, RightManager, BuiltInv
<1>2. ASSUME NEW p \in Procs, Call(p) PROVE Inv'
  BY <1>2 DEF Call, LockInv, CacheInv, RightManager, BuiltInv
<1>3. ASSUME NEW p \in Procs, RLock(p) PROVE Inv'
  BY <1>3 DEF RLock, LockInv, CacheInv, RightManager, BuiltInv
<1>4. ASSUME NEW p \in Procs, Lookup(p) PROVE Inv'
  BY <1>4 DEF Lookup, LockInv, CacheInv, RightManager, BuiltInv
<1>5. ASSUME NEW p \in Procs, RUnlock(p) PROVE Inv'
  BY <1>5 DEF RUnlock, LockInv, CacheInv, RightManager, BuiltInv
<1>6. ASSUME NEW p \in Procs, Announce(p) PROVE Inv'
  BY <1>6 DEF Announce, LockInv, CacheInv, RightManager, BuiltInv
<1>7. ASSUME NEW p \in Procs, Lock(p) PROVE Inv'
  BY <1>7 DEF Lock, LockInv, CacheInv, RightManager, BuiltInv
<1>8. ASSUME NEW p \in Procs, Create(p) PROVE Inv'
  BY <1>8 DEF Create, LockInv, CacheInv, RightManager, BuiltInv
<1>9. ASSUME NEW p \in Procs, Store(p) PROVE Inv'
  BY <1>9 DEF Store, LockInv, CacheInv, RightManager, BuiltInv
<1>10. ASSUME NEW p \in Procs, Unlock(p) PROVE Inv'
  <2>1. /\ rm[p] \in RmIds \X Procs
        /\ rm[p][1] = rmId[p]
    BY <1>10 DEF Unlock, CacheInv
  <2>2. TypeOK' /\ LockInv' /\ CacheInv'
    BY <1>10 DEF Unlock, LockInv, CacheInv
  <2>3. RightManager'
    BY <1>10, <2>1 DEF Unlock, RightManager
  <2>4. BuiltInv'
    BY <1>10 DEF Unlock, BuiltInv
  <2> QED
    BY <2>2, <2>3, <2>4
<1>11. ASSUME NEW p \in Procs, Finish(p) PROVE Inv'
  BY <1>11 DEF Finish, LockInv, CacheInv, RightManager, BuiltInv
<1> QED
  BY <1>1, <1>2, <1>3, <1>4, <1>5, <1>6, <1>7, <1>8, <1>9, <1>10, <1>11
     DEF Next, Step, InCall

LEMMA InvAlways == Spec => []Inv
  BY InitInv, NextInv, PTL DEF Spec

---------------------------------------------------------------------------
(* Every variable of ManagerFor stays in its type.                         *)
THEOREM TypeCorrect == Spec => []TypeOK
<1>1. Inv => TypeOK
  BY DEF Inv
<1> QED
  BY <1>1, InvAlways, PTL

(* No worker touches the map while another writes it, for any number of    *)
(* workers: the RWMutex protocol of ManagerFor is sufficient.              *)
THEOREM MapExclusion == Spec => []MapAccessExclusive
<1>1. Inv => MapAccessExclusive
  BY NilAssumption DEF Inv, LockInv, MapAccessExclusive
<1> QED
  BY <1>1, InvAlways, PTL

(* Whatever the interleaving, ManagerFor returns a manager that was built  *)
(* for the account, region and role of the call.                           *)
THEOREM ReturnsRightManager == Spec => []RightManager
<1>1. Inv => RightManager
  BY DEF Inv
<1> QED
  BY <1>1, InvAlways, PTL

(* A worker builds at most one manager per key, so the cache leaks at most *)
(* one superseded manager per worker and key.                              *)
THEOREM OneBuildPerWorker == Spec => []BuildsOncePerKey
<1>1. Inv => BuildsOncePerKey
  BY DEF Inv, BuiltInv, BuildsOncePerKey
<1> QED
  BY <1>1, InvAlways, PTL

---------------------------------------------------------------------------
(* Each step of ManagerFactory is a step of ManagerCache or a stutter:     *)
(* Store installs, the step that leaves the lock returns what is installed.*)
LEMMA StepRefines == Inv /\ [Next]_vars => [Abs!Next]_(Abs!absVars)
<1> DEFINE Held == [p \in Procs |-> IF pc[p] = "returned" THEN rm[p] ELSE Nil]
<1> SUFFICES ASSUME Inv, [Next]_vars
             PROVE  Abs!Next \/ UNCHANGED <<rmCache, Held>>
  BY DEF Abs!absVars
<1> USE NilAssumption DEF Inv, TypeOK, Steps, Managers, Goto, Key
<1>1. CASE UNCHANGED vars
  BY <1>1 DEF vars
<1>2. ASSUME NEW p \in Procs, \/ Call(p) \/ RLock(p) \/ Lookup(p)
                              \/ Announce(p) \/ Lock(p) \/ Create(p)
      PROVE  UNCHANGED <<rmCache, Held>>
  BY <1>2 DEF Call, RLock, Lookup, Announce, Lock, Create
<1>3. ASSUME NEW p \in Procs, RUnlock(p)
      PROVE  Abs!Next \/ UNCHANGED <<rmCache, Held>>
  <2>1. CASE rm[p] = Nil
    BY <1>3, <2>1 DEF RUnlock
  <2>2. CASE rm[p] # Nil
    <3>1. /\ rmId[p] \in RmIds
          /\ rm[p] = rmCache[rmId[p]]
      BY <1>3 DEF RUnlock, CacheInv
    <3>2. Held' = [Held EXCEPT ![p] = rm[p]] /\ Held[p] = Nil
      BY <1>3, <2>2 DEF RUnlock
    <3>3. PICK k \in RmIds : k = rmId[p]
      BY <3>1
    <3>4. Abs!Get(p, k)
      BY <1>3, <2>2, <3>1, <3>2, <3>3 DEF RUnlock, Abs!Get
    <3> QED
      BY <3>4 DEF Abs!Next
  <2> QED
    BY <2>1, <2>2
<1>4. ASSUME NEW p \in Procs, Store(p)
      PROVE  Abs!Next \/ UNCHANGED <<rmCache, Held>>
  <2>1. /\ rmId[p] \in RmIds
        /\ rm[p] = <<rmId[p], p>>
    BY <1>4 DEF Store, CacheInv
  <2>2. UNCHANGED Held
    BY <1>4 DEF Store
  <2>3. Abs!Install(rmId[p], rm[p])
    BY <1>4, <2>1, <2>2 DEF Store, Abs!Install
  <2>4. rm[p] \in Managers
    BY <2>1
  <2> QED
    BY <2>1, <2>3, <2>4 DEF Abs!Next
<1>5. ASSUME NEW p \in Procs, Unlock(p)
      PROVE  Abs!Next \/ UNCHANGED <<rmCache, Held>>
  <2>1. /\ rmId[p] \in RmIds
        /\ rm[p] = rmCache[rmId[p]]
        /\ rm[p] = <<rmId[p], p>>
    BY <1>5 DEF Unlock, CacheInv
  <2>2. rm[p] # Nil
    BY <2>1
  <2>3. Held' = [Held EXCEPT ![p] = rm[p]] /\ Held[p] = Nil
    BY <1>5 DEF Unlock
  <2>4. PICK k \in RmIds : k = rmId[p]
    BY <2>1
  <2>5. Abs!Get(p, k)
    BY <1>5, <2>1, <2>2, <2>3, <2>4 DEF Unlock, Abs!Get
  <2> QED
    BY <2>5 DEF Abs!Next
<1>6. ASSUME NEW p \in Procs, Finish(p)
      PROVE  Abs!Next \/ UNCHANGED <<rmCache, Held>>
  <2>1. Held[p] # Nil /\ Held' = [Held EXCEPT ![p] = Nil]
    BY <1>6 DEF Finish, RightManager
  <2>2. Abs!Drop(p)
    BY <1>6, <2>1 DEF Finish, Abs!Drop
  <2> QED
    BY <2>2 DEF Abs!Next
<1> QED
  BY <1>1, <1>2, <1>3, <1>4, <1>5, <1>6 DEF Next, Step, InCall

(* The whole of ManagerFor behaves like one atomic access to a cache: what *)
(* is returned is what the cache holds at that instant.                    *)
THEOREM ImplementsManagerCache == Spec => AtomicGet
<1>1. Init => Abs!Init
  BY DEF Init, Abs!Init
<1> QED
  BY <1>1, StepRefines, InvAlways, PTL DEF Spec, AtomicGet, Abs!Spec
===========================================================================
