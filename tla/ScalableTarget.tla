-------------------------- MODULE ScalableTarget --------------------------
(* One ScalableTarget custom resource, the reconcile worker that owns its  *)
(* key, the AWS API it registers targets in, and the users and other AWS   *)
(* clients around them.  Every call to AWS or to the Kubernetes API is a   *)
(* step of its own, so anything may happen between two of them; the        *)
(* computation between two calls belongs to the step before it.            *)
(*                                                                         *)
(* The resource manager (ReadOne, Create, Update, Delete, LateInitialize,  *)
(* ResolveReferences) is the code of this repository; the order in which   *)
(* they are called is that of the generic reconciler of the ACK runtime.   *)
EXTENDS ScalableTargetResource, FiniteSets

CONSTANTS UserSpecs,    \* the specs users write
          ForeignSpecs, \* what other AWS clients register
          RoleStates,   \* the states of the referenced Role CR
          Renames,      \* whether users change the identity in a spec
          MaxUser,      \* bound on the users' actions
          MaxForeign,   \* bound on the actions of others (AWS, Role CR)
          MaxFaults     \* bound on failed calls and crashes

ASSUME TargetAssumption ==
  /\ UserSpecs \subseteq Specs
  /\ ForeignSpecs \subseteq {s \in Specs : s.cap # Nil /\ FitsInt32(s.cap)}
  /\ RoleStates \subseteq Opt(RoleCRs)
  /\ Renames \in BOOLEAN
  /\ MaxUser \in Nat /\ MaxForeign \in Nat /\ MaxFaults \in Nat

VARIABLES
  phase,      \* the CR: "absent", "live" or "deleting" (deletionTimestamp set)
  managed,    \* the CR carries the finalizer
  spec,       \* its spec; the last one while it is absent
  status,     \* its status
  roleCR,     \* the Role CR that RoleRef names, or Nil
  aws,        \* identity -> the registered target, or Nil
  now,        \* AWS's clock and the controller's
  queue,      \* where the key of the CR is: in the work queue, in its timer
  pc,         \* the next step of the worker
  desired,    \* the resource under reconciliation, or Nil
  isManaged,  \* ... and whether it carried the finalizer
  isDeleting, \* ... and whether it was being deleted
  latest,     \* the result of the last manager call, or Nil
  err,        \* the error the reconcile ends with, or Nil
  made,       \* targets this controller registered that nobody removed since
  dirty,      \* somebody else acted, or the worker died, since the last fetch
  left        \* what remains of the bounds

crVars == <<phase, managed, spec, status>>
worldVars == <<roleCR, now>>
reqVars == <<desired, isManaged, isDeleting>>
vars == <<phase, managed, spec, status, roleCR, aws, now, queue, pc, desired,
          isManaged, isDeleting, latest, err, made, dirty, left>>

Steps == {"idle", "resolve", "read", "manage", "create", "readback", "update",
          "late", "patch", "delete", "unmanage", "finish"}

Errors == Opt({"error", "notfound", "requeue", "terminal"})

TypeOK ==
  /\ phase \in {"absent", "live", "deleting"}
  /\ managed \in BOOLEAN
  /\ spec \in Specs
  /\ status \in Statuses
  /\ roleCR \in Opt(RoleCRs)
  /\ aws \in [Ids -> Opt(Targets)]
  /\ now \in Clocks
  /\ queue \in Queues
  /\ pc \in Steps
  /\ desired \in Opt(Resources)
  /\ isManaged \in BOOLEAN
  /\ isDeleting \in BOOLEAN
  /\ latest \in Opt(Resources)
  /\ err \in Errors
  /\ made \subseteq Ids
  /\ dirty \in BOOLEAN
  /\ left \in [user : 0 .. MaxUser, foreign : 0 .. MaxForeign,
               fault : 0 .. MaxFaults]

Init ==
  /\ phase = "absent"
  /\ managed = FALSE
  /\ spec \in UserSpecs
  /\ status = NoStatus
  /\ roleCR \in RoleStates
  /\ aws = [i \in Ids |-> Nil]
  /\ now = Epoch
  /\ queue = {}
  /\ pc = "idle"
  /\ desired = Nil
  /\ isManaged = FALSE
  /\ isDeleting = FALSE
  /\ latest = Nil
  /\ err = Nil
  /\ made = {}
  /\ dirty = TRUE
  /\ left = [user |-> MaxUser, foreign |-> MaxForeign, fault |-> MaxFaults]

Spend(k) == left[k] > 0 /\ left' = [left EXCEPT ![k] = @ - 1]

---------------------------------------------------------------------------
(* The users of the CR, the other clients of AWS, and time.                *)

UserCreate ==
  /\ phase = "absent"
  /\ Spend("user")
  /\ \E s \in UserSpecs : (Renames \/ s.id = spec.id) /\ spec' = s
  /\ phase' = "live"
  /\ managed' = FALSE
  /\ status' = NoStatus
  /\ queue' = queue \cup {"now"}
  /\ dirty' = TRUE
  /\ UNCHANGED <<worldVars, aws, pc, reqVars, latest, err, made>>

(* kubectl replace writes every field, kubectl apply keeps a role that the *)
(* controller filled in.  An edit that changes nothing is not noticed.     *)
UserEdit ==
  /\ phase # "absent"
  /\ Spend("user")
  /\ \E s \in UserSpecs, role \in {Nil, spec.role} :
       /\ Renames \/ s.id = spec.id
       /\ spec' = IF s.role = Nil THEN [s EXCEPT !.role = role] ELSE s
  /\ spec' # spec
  /\ queue' = queue \cup {"now"}
  /\ dirty' = TRUE
  /\ UNCHANGED <<phase, managed, status, worldVars, aws, pc, reqVars, latest,
                 err, made>>

UserDelete ==
  /\ phase = "live"
  /\ Spend("user")
  /\ phase' = IF managed THEN "deleting" ELSE "absent"
  /\ queue' = queue \cup {"now"}
  /\ dirty' = TRUE
  /\ status' = IF managed THEN status ELSE NoStatus
  /\ UNCHANGED <<managed, spec, worldVars, aws, pc, reqVars, latest, err, made>>

ForeignRegister ==
  /\ Spend("foreign")
  /\ \E i \in Ids, s \in ForeignSpecs :
       aws' = [aws EXCEPT ![i] = Registered(@, s, now.aws)]
  /\ dirty' = TRUE
  /\ UNCHANGED <<crVars, worldVars, queue, pc, reqVars, latest, err, made>>

ForeignDeregister ==
  /\ Spend("foreign")
  /\ \E i \in Ids : /\ aws[i] # Nil
                    /\ aws' = [aws EXCEPT ![i] = Nil]
                    /\ made' = made \ {i}
  /\ dirty' = TRUE
  /\ UNCHANGED <<crVars, worldVars, queue, pc, reqVars, latest, err>>

RoleChange ==
  /\ Spend("foreign")
  /\ roleCR' \in RoleStates \ {roleCR}
  /\ dirty' = TRUE
  /\ UNCHANGED <<crVars, now, aws, queue, pc, reqVars, latest, err, made>>

Tick ==
  /\ \E c \in ClockNames : /\ now[c] < MaxTime[c]
                           /\ now' = [now EXCEPT ![c] = @ + 1]
  /\ UNCHANGED <<crVars, roleCR, aws, queue, pc, reqVars, latest, err, made,
                 dirty, left>>

(* The timer that the ACK runtime sets after a reconcile without error.    *)
Resync ==
  /\ "later" \in queue
  /\ queue' = {"now"}
  /\ UNCHANGED <<crVars, worldVars, aws, pc, reqVars, latest, err, made, dirty,
                 left>>

---------------------------------------------------------------------------
(* The reconcile worker.                                                   *)

Idle == /\ pc' = "idle"
        /\ desired' = Nil
        /\ isManaged' = FALSE
        /\ isDeleting' = FALSE
        /\ latest' = Nil
        /\ err' = Nil

(* The process dies: the worker forgets what it did and the timers are     *)
(* lost; every CR is queued at the next start.                             *)
Crash ==
  /\ Spend("fault")
  /\ Idle
  /\ queue' = IF phase = "absent" THEN {} ELSE {"now"}
  /\ dirty' = TRUE
  /\ UNCHANGED <<crVars, worldVars, aws, made>>

FetchGone ==
  /\ pc = "idle" /\ "now" \in queue /\ phase = "absent"
  /\ queue' = queue \ {"now"}
  /\ UNCHANGED <<crVars, worldVars, aws, pc, reqVars, latest, err, made, dirty,
                 left>>

(* Conditions start from nothing, except when the CR is being deleted.     *)
Fetch ==
  /\ pc = "idle" /\ "now" \in queue /\ phase # "absent"
  /\ queue' = queue \ {"now"}
  /\ desired' = [spec   |-> spec,
                 status |-> IF phase = "deleting" THEN status
                            ELSE [status EXCEPT !.conds = NoConditions]]
  /\ isManaged' = managed
  /\ isDeleting' = (phase = "deleting")
  /\ dirty' = FALSE
  /\ pc' = "resolve"
  /\ UNCHANGED <<crVars, worldVars, aws, latest, err, made, left>>

FinishWith(r, e) == pc' = "finish" /\ latest' = r /\ err' = e

(* A deletion goes on whatever the references resolve to.                  *)
Resolve ==
  /\ pc = "resolve"
  /\ LET res == ResolveReferences(desired.spec, roleCR)
         r   == [desired EXCEPT !.spec = res.spec]
     IN  /\ desired' = r
         /\ IF res.ok \/ isDeleting
            THEN pc' = "read" /\ UNCHANGED <<latest, err>>
            ELSE FinishWith(r, "error")
  /\ UNCHANGED <<crVars, worldVars, aws, queue, isManaged, isDeleting, made,
                 dirty, left>>

ReadOne(r) == SdkFind(r, aws[r.spec.id])

(* Describe fails; the caller gets the resource it asked for, with the     *)
(* error in its conditions.                                                *)
ReadFails ==
  /\ pc \in {"read", "readback"}
  /\ Spend("fault")
  /\ LET r == IF pc = "read" THEN desired ELSE latest
     IN  FinishWith(OnError(r, "error"), "error")
  /\ UNCHANGED <<crVars, worldVars, aws, queue, reqVars, made, dirty>>

\* registered before the finalizer is on the CR
CreateBeforeManage ==
  /\ pc = "read"
  /\ ReadOne(desired) = Nil
  /\ pc' = IF isDeleting THEN "unmanage" ELSE "create"
  /\ UNCHANGED <<crVars, worldVars, aws, queue, reqVars, latest, err, made,
                 dirty, left>>

\* "not found" taken for a failure while the CR is being deleted
NotFoundIsFailure ==
  /\ pc = "read"
  /\ ReadOne(desired) = Nil
  /\ IF isDeleting THEN FinishWith(OnError(desired, "notfound"), "notfound")
     ELSE /\ pc' = IF isManaged THEN "create" ELSE "manage"
          /\ UNCHANGED <<latest, err>>
  /\ UNCHANGED <<crVars, worldVars, aws, queue, reqVars, made, dirty, left>>

ReadNotFound ==
  /\ pc = "read"
  /\ ReadOne(desired) = Nil
  /\ pc' = IF isDeleting THEN "unmanage"
           ELSE IF isManaged THEN "create" ELSE "manage"
  /\ UNCHANGED <<crVars, worldVars, aws, queue, reqVars, latest, err, made,
                 dirty, left>>

\* an existing target taken over as if it were managed
UpdateUnmanaged ==
  /\ pc = "read" /\ ~isDeleting /\ ~isManaged
  /\ ReadOne(desired) # Nil
  /\ latest' = OnSuccess(ReadOne(desired))
  /\ pc' = "update"
  /\ UNCHANGED <<crVars, worldVars, aws, queue, reqVars, err, made, dirty, left>>

(* The target exists but the CR has never been put under management: that  *)
(* is a terminal error, not an adoption.                                   *)
ReadUnmanaged ==
  /\ pc = "read" /\ ~isDeleting /\ ~isManaged
  /\ ReadOne(desired) # Nil
  /\ FinishWith(OnError(OnSuccess(ReadOne(desired)), "terminal"), "terminal")
  /\ UNCHANGED <<crVars, worldVars, aws, queue, reqVars, made, dirty, left>>

(* Computing the delta writes the defaults into desired.                   *)
ReadManaged ==
  /\ pc = "read" /\ ~isDeleting /\ isManaged
  /\ LET observed == ReadOne(desired)
     IN  /\ observed # Nil
         /\ latest' = OnSuccess(observed)
         /\ desired' = [desired EXCEPT
                          !.spec = CustomSetDefaults(@, observed.spec)]
         /\ pc' = IF NewResourceDelta(desired.spec, observed.spec) = {}
                  THEN "late" ELSE "update"
  /\ UNCHANGED <<crVars, worldVars, aws, queue, isManaged, isDeleting, err,
                 made, dirty, left>>

\* the finalizer taken off before the target is deregistered
UnmanageFirst ==
  /\ pc = "read" /\ isDeleting
  /\ ReadOne(desired) # Nil
  /\ latest' = OnSuccess(ReadOne(desired))
  /\ pc' = "unmanage"
  /\ UNCHANGED <<crVars, worldVars, aws, queue, reqVars, err, made, dirty, left>>

ReadToDelete ==
  /\ pc = "read" /\ isDeleting
  /\ ReadOne(desired) # Nil
  /\ latest' = OnSuccess(ReadOne(desired))
  /\ pc' = "delete"
  /\ UNCHANGED <<crVars, worldVars, aws, queue, reqVars, err, made, dirty, left>>

(* The finalizer is put on the CR before anything is created for it.       *)
Manage ==
  /\ pc = "manage"
  /\ IF phase = "absent"
     THEN Idle /\ queue' = queue \cup {"now"} /\ UNCHANGED managed
     ELSE /\ managed' = TRUE
          /\ isManaged' = TRUE
          /\ pc' = "create"
          /\ UNCHANGED <<queue, desired, isDeleting, latest, err>>
  /\ UNCHANGED <<phase, spec, status, worldVars, aws, made, dirty, left>>

(* The Register call of Create and Update, and how it may end: refused     *)
(* before it is sent, refused by AWS, failed, done but reported as failed, *)
(* done.                                                                   *)
Register(s, onFailure, onDone) ==
  LET id == s.id
      input == Payload(s)
      Takes == /\ PayloadOK(s) /\ Accepted(aws[id], input)
               /\ aws' = [aws EXCEPT ![id] = Registered(@, input, now.aws)]
               /\ made' = made \cup {id}
  IN  \/ /\ ~PayloadOK(s) \/ ~Accepted(aws[id], input)
         /\ onFailure
         /\ UNCHANGED <<aws, made, left>>
      \/ /\ PayloadOK(s)
         /\ Spend("fault")
         /\ onFailure
         /\ UNCHANGED <<aws, made>>
      \/ /\ Spend("fault")
         /\ Takes
         /\ onFailure
      \/ /\ Takes
         /\ onDone
         /\ UNCHANGED left

Create ==
  /\ pc = "create"
  /\ Register(desired.spec,
              FinishWith(OnError(desired, "error"), "error"),
              /\ latest' = OnSuccess(desired)
              /\ pc' = "readback"
              /\ UNCHANGED err)
  /\ UNCHANGED <<crVars, worldVars, queue, reqVars, dirty>>

(* The runtime reads the target back and takes its status.                 *)
ReadBackNotFound ==
  /\ pc = "readback"
  /\ ReadOne(latest) = Nil
  /\ FinishWith(latest, "requeue")
  /\ UNCHANGED <<crVars, worldVars, aws, queue, reqVars, made, dirty, left>>

ReadBack ==
  /\ pc = "readback"
  /\ LET observed == ReadOne(latest)
     IN  /\ observed # Nil
         /\ latest' = [latest EXCEPT !.status = OnSuccess(observed).status]
  /\ pc' = "late"
  /\ UNCHANGED <<crVars, worldVars, aws, queue, reqVars, err, made, dirty, left>>

Update ==
  /\ pc = "update"
  /\ Register(desired.spec,
              FinishWith(OnError(latest, "error"), "error"),
              /\ latest' = OnSuccess(SdkUpdated(desired, now))
              /\ pc' = "late"
              /\ UNCHANGED err)
  /\ UNCHANGED <<crVars, worldVars, queue, reqVars, dirty>>

(* LateInitialize reads the target once more.                              *)
LateInitializeFails ==
  /\ pc = "late"
  /\ \/ Spend("fault") /\ err' = "error"
     \/ ReadOne(latest) = Nil /\ err' = "notfound" /\ UNCHANGED left
  /\ latest' = LateInitializeFailed(latest)
  /\ pc' = "finish"
  /\ UNCHANGED <<crVars, worldVars, aws, queue, reqVars, made, dirty>>

(* The spec is patched when late initialization changed it and the change  *)
(* survives ClearResolvedReferences.  desired keeps what is patched from.  *)
LateInitialize ==
  /\ pc = "late"
  /\ LET observed == ReadOne(latest)
         filled   == LateInitializeFromReadOneOutput(observed, latest)
     IN  /\ observed # Nil
         /\ IF IncompleteLateInitialization(filled)
            THEN latest' = LateInitializeFailed(filled) /\ err' = "requeue"
            ELSE latest' = [filled EXCEPT !.status.conds.late = "True"]
                 /\ err' = Nil
         /\ desired' = [desired EXCEPT !.spec = latest.spec]
         /\ pc' = IF ClearResolvedReferences(filled.spec)
                       = ClearResolvedReferences(latest.spec)
                  THEN "finish" ELSE "patch"
  /\ UNCHANGED <<crVars, worldVars, aws, queue, isManaged, isDeleting, made,
                 dirty, left>>

PatchSpec ==
  /\ pc = "patch"
  /\ phase # "absent"
  /\ spec' = MergePatch(spec, ClearResolvedReferences(desired.spec),
                              ClearResolvedReferences(latest.spec))
  /\ queue' = IF spec' # spec THEN queue \cup {"now"} ELSE queue
  /\ pc' = "finish"
  /\ UNCHANGED <<phase, managed, status, worldVars, aws, reqVars, latest, err,
                 made, dirty, left>>

\* the error of Deregister dropped
DeleteIgnoringErrors ==
  /\ pc = "delete"
  /\ LET id == latest.spec.id
     IN  \/ Spend("fault") /\ UNCHANGED <<aws, made>>
         \/ /\ aws' = [aws EXCEPT ![id] = Nil]
            /\ made' = made \ {id}
            /\ UNCHANGED left
  /\ pc' = "unmanage"
  /\ UNCHANGED <<crVars, worldVars, queue, reqVars, latest, err, dirty>>

Delete ==
  /\ pc = "delete"
  /\ LET id == latest.spec.id
         Takes == /\ aws[id] # Nil
                  /\ aws' = [aws EXCEPT ![id] = Nil]
                  /\ made' = made \ {id}
         Fails == FinishWith(OnError(latest, "error"), "error")
     IN  \/ aws[id] = Nil /\ Fails /\ UNCHANGED <<aws, made, left>>
         \/ Spend("fault") /\ Fails /\ UNCHANGED <<aws, made>>
         \/ Spend("fault") /\ Takes /\ Fails
         \/ Takes /\ pc' = "unmanage" /\ UNCHANGED <<latest, err, left>>
  /\ UNCHANGED <<crVars, worldVars, queue, reqVars, dirty>>

(* Without its finalizer a CR that is being deleted disappears.            *)
Unmanage ==
  /\ pc = "unmanage"
  /\ phase' = "absent"
  /\ managed' = FALSE
  /\ status' = NoStatus
  /\ Idle
  /\ UNCHANGED <<spec, worldVars, aws, queue, made, dirty, left>>

(* The status is patched; the error decides when the key is served again.  *)
Finish ==
  /\ pc = "finish"
  /\ LET to == IF isDeleting THEN latest.status
               ELSE [latest.status EXCEPT !.conds = EnsureSynced(@, err)]
     IN  status' = IF phase = "absent" THEN status
                   ELSE MergePatch(status, desired.status, to)
  /\ queue' = queue \cup Requeued(err)
  /\ Idle
  /\ UNCHANGED <<phase, managed, spec, worldVars, aws, made, dirty, left>>

Worker ==
  \/ FetchGone \/ Fetch \/ Resolve
  \/ ReadFails \/ ReadNotFound \/ ReadUnmanaged \/ ReadManaged \/ ReadToDelete
  \/ Manage \/ Create \/ ReadBack \/ ReadBackNotFound \/ Update
  \/ LateInitialize \/ LateInitializeFails \/ PatchSpec
  \/ Delete \/ Unmanage \/ Finish

Environment ==
  \/ UserCreate \/ UserEdit \/ UserDelete
  \/ ForeignRegister \/ ForeignDeregister \/ RoleChange
  \/ Tick \/ Resync \/ Crash

Next == Worker \/ Environment

Spec == Init /\ [][Next]_vars

(* The work queue hands out a queued key and a goroutine runs on, and a    *)
(* timer that is set fires; nobody is obliged to edit, fail or crash.      *)
FairSpec == Spec /\ WF_vars(Worker) /\ WF_vars(Resync)

---------------------------------------------------------------------------
(* Safety.                                                                 *)

(* As long as a target that the controller registered exists, its CR       *)
(* exists and carries the finalizer, through lost answers, failed calls,   *)
(* crashes and re-created CRs: the finalizer goes on before Register and   *)
(* comes off only after Describe or Deregister said the target is gone.    *)
NoOrphan == made # {} => managed /\ phase # "absent"

(* The worker writes to AWS only for a CR that carries the finalizer and   *)
(* only to the target that CR names, however old its copy of the CR is.    *)
WritesOnlyManaged ==
  [][pc' # pc => \A i \in Ids : aws'[i] # aws[i]
                   => managed /\ phase # "absent" /\ i = spec.id]_vars

(* What a user asked for: the role of a reference, else the given role.    *)
WantedRole == IF spec.ref = "named" THEN roleCR.arn ELSE spec.role

Matches(t) ==
  /\ t # Nil
  /\ spec.cap # Nil => t.cap = spec.cap
  /\ WantedRole # Nil => t.role = WantedRole
  /\ spec.susp # Nil => \A f \in Flags : spec.susp[f] # Nil
                                           => t.susp[f] = spec.susp[f]

(* Synced=True is honest although IsSynced always answers true: if nobody  *)
(* else acted since the reconcile fetched the CR, every field the user set *)
(* has that value in AWS.  (A terminal error also sets Synced=True.)       *)
SyncedMeansMatching ==
  (/\ pc = "idle" /\ phase = "live" /\ ~dirty
   /\ status.conds.synced = "True" /\ status.conds.terminal # "True")
     => Matches(aws[spec.id])

(* LastModifiedTime, once it is set, does not disappear while the CR       *)
(* exists, and the time of an update is replaced by that of a later update *)
(* only, whichever of the three writers sets it.  What the controller's    *)
(* clock shows is left open: wrong or set back, it may well date an update *)
(* before the creation, or before an earlier update.                       *)
LastModifiedNeverBack ==
  [][phase # "absent" /\ phase' # "absent" /\ status.lmt # Nil
       => status'.lmt # Nil /\ Supersedes(status'.lmt, status.lmt)]_vars

(* An update leaves the fields the user did not set as they are in AWS,    *)
(* unless somebody else acted after the CR was fetched: the payload holds  *)
(* nil or the value that was read.                                         *)
UnsetFieldsUntouched ==
  [][pc = "update" /\ pc' # pc /\ ~dirty =>
       LET old == aws[spec.id]
           new == aws'[spec.id]
       IN  /\ spec.cap = Nil => new.cap = old.cap
           /\ spec.role = Nil /\ spec.ref # "named" => new.role = old.role
           /\ spec.susp = Nil => new.susp = old.susp]_vars

(* The controller writes nothing to the spec but the role, also when users *)
(* edit the CR between the fetch and the patch; without such an edit it is *)
(* a role that the user left out and AWS chose, and never beside a RoleRef *)
(* where the pair of them would make every later ResolveReferences fail.   *)
LateInitFillsGap ==
  [][pc' # pc /\ spec' # spec =>
       /\ spec' = [spec EXCEPT !.role = spec'.role]
       /\ ~dirty => /\ spec.role = Nil /\ spec.ref = Nil
                    /\ spec'.role = aws[spec.id].role]_vars

(* The reconciler implements the finalizer protocol.                       *)
Protocol == INSTANCE FinalizerProtocol
FinalizerRefinement == Protocol!Spec

---------------------------------------------------------------------------
(* Liveness, under FairSpec.                                               *)

(* A deletion completes, whatever fails on the way.                        *)
DeletionCompletes == phase = "deleting" ~> phase = "absent"

(* A spec that AWS can honour.                                             *)
Satisfiable == /\ spec.cap # Nil /\ FitsInt32(spec.cap)
               /\ spec.ref # Nil => spec.role = Nil
               /\ spec.ref # "unnamed"
               /\ spec.ref = "named" => GetReferencedResourceState(roleCR)

(* When everybody stops acting, AWS ends up as the spec says, drift made   *)
(* by others included, and the status says so.                             *)
ConvergesToSpec ==
  <>[](phase = "live" /\ managed /\ Satisfiable
         => Matches(aws[spec.id]) /\ status.conds.synced = "True")

(* ... and then the controller stops calling Register.                     *)
UpdatesCease == <>[][~(pc = "update" /\ pc' = "late")]_vars

---------------------------------------------------------------------------
(* Claims of the repository that the code does not keep.                   *)

(* customSetLastModifiedTimeToCreationTime "sets the LastModifiedTime      *)
(* field to the creationTime": no target is modified before it is created, *)
(* by AWS's own clock.                                                     *)
ModifiedAfterCreation ==
  (/\ status.ctime # Nil /\ status.lmt # Nil
   /\ status.lmt.by = "aws") => status.lmt.at >= status.ctime
===========================================================================
