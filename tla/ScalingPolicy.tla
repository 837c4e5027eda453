--------------------------- MODULE ScalingPolicy --------------------------
(* One ScalingPolicy custom resource, the reconcile worker that owns its   *)
(* key, the policy in AWS and the scalable target it hangs on, which may   *)
(* be registered after the policy is wanted and takes the policy with it   *)
(* when it is deregistered.  Steps are cut as in ScalableTarget: one for   *)
(* every call to AWS or to the Kubernetes API.                             *)
(*                                                                         *)
(* LateInitialize, ResolveReferences and ClearResolvedReferences of this   *)
(* resource return what they are given, so nothing is patched into the     *)
(* spec and nothing is read a third time.                                  *)
EXTENDS ScalingPolicyResource

CONSTANTS UserSpecs,    \* the specs users write
          ForeignSpecs, \* what other AWS clients put
          MaxUser,      \* bound on the users' actions
          MaxForeign,   \* bound on the actions of others in AWS
          MaxFaults     \* bound on failed calls and crashes

ASSUME PolicyAssumption ==
  /\ UserSpecs \subseteq Specs
  /\ ForeignSpecs \subseteq {s \in Specs : PayloadOK(s)}
  /\ MaxUser \in Nat /\ MaxForeign \in Nat /\ MaxFaults \in Nat

VARIABLES
  phase,      \* the CR: "absent", "live" or "deleting" (deletionTimestamp set)
  managed,    \* the CR carries the finalizer
  spec,       \* its spec; the last one while it is absent
  status,     \* its status
  registered, \* the scalable target exists in AWS
  policy,     \* the policy in AWS, or Nil
  now,        \* AWS's clock and the controller's
  queue,      \* where the key of the CR is: in the work queue, in its timer
  pc,         \* the next step of the worker
  desired,    \* the resource under reconciliation, or Nil
  isManaged,  \* ... and whether it carried the finalizer
  isDeleting, \* ... and whether it was being deleted
  latest,     \* the result of the last manager call, or Nil
  err,        \* the error the reconcile ends with, or Nil
  made,       \* the controller put the policy and nobody removed it since
  dirty,      \* somebody else acted, or the worker died, since the last fetch
  left        \* what remains of the bounds

crVars == <<phase, managed, spec, status>>
awsVars == <<registered, policy, made>>
reqVars == <<desired, isManaged, isDeleting>>
vars == <<phase, managed, spec, status, registered, policy, now, queue, pc,
          desired, isManaged, isDeleting, latest, err, made, dirty, left>>

Steps == {"idle", "read", "manage", "create", "readback", "update", "delete",
          "unmanage", "finish"}

TypeOK ==
  /\ phase \in {"absent", "live", "deleting"}
  /\ managed \in BOOLEAN
  /\ spec \in Specs
  /\ status \in Statuses
  /\ registered \in BOOLEAN
  /\ policy \in Opt(Policies)
  /\ now \in Clocks
  /\ queue \in Queues
  /\ pc \in Steps
  /\ desired \in Opt(Resources)
  /\ isManaged \in BOOLEAN
  /\ isDeleting \in BOOLEAN
  /\ latest \in Opt(Resources)
  /\ err \in Opt({"error", "requeue", "terminal"})
  /\ made \in BOOLEAN
  /\ dirty \in BOOLEAN
  /\ left \in [user : 0 .. MaxUser, foreign : 0 .. MaxForeign,
               fault : 0 .. MaxFaults]

Init ==
  /\ phase = "absent"
  /\ managed = FALSE
  /\ spec \in UserSpecs
  /\ status = NoStatus
  /\ registered \in BOOLEAN
  /\ policy = Nil
  /\ now = Epoch
  /\ queue = {}
  /\ pc = "idle"
  /\ desired = Nil
  /\ isManaged = FALSE
  /\ isDeleting = FALSE
  /\ latest = Nil
  /\ err = Nil
  /\ made = FALSE
  /\ dirty = TRUE
  /\ left = [user |-> MaxUser, foreign |-> MaxForeign, fault |-> MaxFaults]

Spend(k) == left[k] > 0 /\ left' = [left EXCEPT ![k] = @ - 1]

---------------------------------------------------------------------------
(* The users of the CR, the other clients of AWS, and time.                *)

UserCreate ==
  /\ phase = "absent"
  /\ Spend("user")
  /\ spec' \in UserSpecs
  /\ phase' = "live"
  /\ managed' = FALSE
  /\ status' = NoStatus
  /\ queue' = queue \cup {"now"}
  /\ dirty' = TRUE
  /\ UNCHANGED <<awsVars, now, pc, reqVars, latest, err>>

UserEdit ==
  /\ phase # "absent"
  /\ Spend("user")
  /\ spec' \in UserSpecs \ {spec}
  /\ queue' = queue \cup {"now"}
  /\ dirty' = TRUE
  /\ UNCHANGED <<phase, managed, status, awsVars, now, pc, reqVars, latest, err>>

UserDelete ==
  /\ phase = "live"
  /\ Spend("user")
  /\ phase' = IF managed THEN "deleting" ELSE "absent"
  /\ status' = IF managed THEN status ELSE NoStatus
  /\ queue' = queue \cup {"now"}
  /\ dirty' = TRUE
  /\ UNCHANGED <<managed, spec, awsVars, now, pc, reqVars, latest, err>>

TargetRegistered ==
  /\ ~registered
  /\ Spend("foreign")
  /\ registered' = TRUE
  /\ dirty' = TRUE
  /\ UNCHANGED <<crVars, policy, made, now, queue, pc, reqVars, latest, err>>

(* Deregistering a target deletes its policies.                            *)
TargetDeregistered ==
  /\ registered
  /\ Spend("foreign")
  /\ registered' = FALSE
  /\ policy' = Nil
  /\ made' = FALSE
  /\ dirty' = TRUE
  /\ UNCHANGED <<crVars, now, queue, pc, reqVars, latest, err>>

ForeignPut ==
  /\ Spend("foreign")
  /\ \E s \in ForeignSpecs : /\ Accepted(registered, policy, Payload(s))
                             /\ policy' = PutPolicy(policy, Payload(s), now.aws)
  /\ dirty' = TRUE
  /\ UNCHANGED <<crVars, registered, made, now, queue, pc, reqVars, latest, err>>

ForeignDelete ==
  /\ policy # Nil
  /\ Spend("foreign")
  /\ policy' = Nil
  /\ made' = FALSE
  /\ dirty' = TRUE
  /\ UNCHANGED <<crVars, registered, now, queue, pc, reqVars, latest, err>>

Tick ==
  /\ \E c \in ClockNames : /\ now[c] < MaxTime[c]
                           /\ now' = [now EXCEPT ![c] = @ + 1]
  /\ UNCHANGED <<crVars, awsVars, queue, pc, reqVars, latest, err, dirty, left>>

(* The timer that the ACK runtime sets after a reconcile without error.    *)
Resync ==
  /\ "later" \in queue
  /\ queue' = {"now"}
  /\ UNCHANGED <<crVars, awsVars, now, pc, reqVars, latest, err, dirty, left>>

---------------------------------------------------------------------------
(* The reconcile worker.                                                   *)

Idle == /\ pc' = "idle"
        /\ desired' = Nil
        /\ isManaged' = FALSE
        /\ isDeleting' = FALSE
        /\ latest' = Nil
        /\ err' = Nil

(* The process dies, the timers with it; every CR is queued at the start.  *)
Crash ==
  /\ Spend("fault")
  /\ Idle
  /\ queue' = IF phase = "absent" THEN {} ELSE {"now"}
  /\ dirty' = TRUE
  /\ UNCHANGED <<crVars, awsVars, now>>

FetchGone ==
  /\ pc = "idle" /\ "now" \in queue /\ phase = "absent"
  /\ queue' = queue \ {"now"}
  /\ UNCHANGED <<crVars, awsVars, now, pc, reqVars, latest, err, dirty, left>>

(* Conditions start from nothing, except when the CR is being deleted.     *)
Fetch ==
  /\ pc = "idle" /\ "now" \in queue /\ phase # "absent"
  /\ queue' = queue \ {"now"}
  /\ desired' = [spec   |-> spec,
                 status |-> IF phase = "deleting" THEN status
                            ELSE [status EXCEPT !.conds = NoConditions]]
  /\ isManaged' = managed
  /\ isDeleting' = (phase = "deleting")
  /\ dirty' = FALSE
  /\ pc' = "read"
  /\ UNCHANGED <<crVars, awsVars, now, latest, err, left>>

FinishWith(r, e) == pc' = "finish" /\ latest' = r /\ err' = e

ReadOne(r) == SdkFind(r, policy)

ReadFails ==
  /\ pc \in {"read", "readback"}
  /\ Spend("fault")
  /\ LET r == IF pc = "read" THEN desired ELSE latest
     IN  FinishWith(OnError(r, "error"), "error")
  /\ UNCHANGED <<crVars, awsVars, now, queue, reqVars, dirty>>

\* "not found" taken for a failure while the CR is being deleted
NotFoundIsFailure ==
  /\ pc = "read"
  /\ ReadOne(desired) = Nil
  /\ IF isDeleting THEN FinishWith(OnError(desired, "error"), "error")
     ELSE /\ pc' = IF isManaged THEN "create" ELSE "manage"
          /\ UNCHANGED <<latest, err>>
  /\ UNCHANGED <<crVars, awsVars, now, queue, reqVars, dirty, left>>

\* put before the finalizer is on the CR
CreateBeforeManage ==
  /\ pc = "read"
  /\ ReadOne(desired) = Nil
  /\ pc' = IF isDeleting THEN "unmanage" ELSE "create"
  /\ UNCHANGED <<crVars, awsVars, now, queue, reqVars, latest, err, dirty, left>>

(* A deletion of what is not there is done: a policy that went with its    *)
(* target does not hold its CR back.                                       *)
ReadNotFound ==
  /\ pc = "read"
  /\ ReadOne(desired) = Nil
  /\ pc' = IF isDeleting THEN "unmanage"
           ELSE IF isManaged THEN "create" ELSE "manage"
  /\ UNCHANGED <<crVars, awsVars, now, queue, reqVars, latest, err, dirty, left>>

(* The policy exists but the CR has never been put under management: that  *)
(* is a terminal error, not an adoption.                                   *)
ReadUnmanaged ==
  /\ pc = "read" /\ ~isDeleting /\ ~isManaged
  /\ ReadOne(desired) # Nil
  /\ FinishWith(OnError(OnSuccess(ReadOne(desired)), "terminal"), "terminal")
  /\ UNCHANGED <<crVars, awsVars, now, queue, reqVars, dirty, left>>

(* Without a delta the observed resource is the result.                    *)
ReadManaged ==
  /\ pc = "read" /\ ~isDeleting /\ isManaged
  /\ LET observed == ReadOne(desired)
     IN  /\ observed # Nil
         /\ latest' = OnSuccess(observed)
         /\ pc' = IF NewResourceDelta(desired.spec, observed.spec) = {}
                  THEN "finish" ELSE "update"
  /\ UNCHANGED <<crVars, awsVars, now, queue, reqVars, err, dirty, left>>

ReadToDelete ==
  /\ pc = "read" /\ isDeleting
  /\ ReadOne(desired) # Nil
  /\ latest' = OnSuccess(ReadOne(desired))
  /\ pc' = "delete"
  /\ UNCHANGED <<crVars, awsVars, now, queue, reqVars, err, dirty, left>>

(* The finalizer is put on the CR before anything is created for it.       *)
Manage ==
  /\ pc = "manage"
  /\ IF phase = "absent"
     THEN Idle /\ queue' = queue \cup {"now"} /\ UNCHANGED managed
     ELSE /\ managed' = TRUE
          /\ isManaged' = TRUE
          /\ pc' = "create"
          /\ UNCHANGED <<queue, desired, isDeleting, latest, err>>
  /\ UNCHANGED <<phase, spec, status, awsVars, now, dirty, left>>

(* The PutScalingPolicy call of Create and Update, and how it may end:     *)
(* refused before it is sent, refused by AWS, failed, done but reported as *)
(* failed, done.                                                           *)
Put(s, onFailure, onDone) ==
  LET input == Payload(s)
      Takes == /\ PayloadOK(s) /\ Accepted(registered, policy, input)
               /\ policy' = PutPolicy(policy, input, now.aws)
               /\ made' = TRUE
  IN  \/ /\ ~PayloadOK(s) \/ ~Accepted(registered, policy, input)
         /\ onFailure
         /\ UNCHANGED <<policy, made, left>>
      \/ /\ PayloadOK(s)
         /\ Spend("fault")
         /\ onFailure
         /\ UNCHANGED <<policy, made>>
      \/ /\ Spend("fault")
         /\ Takes
         /\ onFailure
      \/ /\ Takes
         /\ onDone
         /\ UNCHANGED left

Create ==
  /\ pc = "create"
  /\ Put(desired.spec,
         FinishWith(OnError(desired, "error"), "error"),
         /\ latest' = OnSuccess(SdkCreated(desired, policy'))
         /\ pc' = "readback"
         /\ UNCHANGED err)
  /\ UNCHANGED <<crVars, registered, now, queue, reqVars, dirty>>

(* The runtime reads the policy back and takes its status.                 *)
ReadBackNotFound ==
  /\ pc = "readback"
  /\ ReadOne(latest) = Nil
  /\ FinishWith(latest, "requeue")
  /\ UNCHANGED <<crVars, awsVars, now, queue, reqVars, dirty, left>>

ReadBack ==
  /\ pc = "readback"
  /\ LET observed == ReadOne(latest)
     IN  /\ observed # Nil
         /\ latest' = [latest EXCEPT !.status = OnSuccess(observed).status]
  /\ pc' = "finish"
  /\ UNCHANGED <<crVars, awsVars, now, queue, reqVars, err, dirty, left>>

(* The result is the desired resource, whose status is that of the CR.     *)
Update ==
  /\ pc = "update"
  /\ Put(desired.spec,
         FinishWith(OnError(latest, "error"), "error"),
         /\ latest' = OnSuccess(SdkUpdated(desired, policy', now))
         /\ pc' = "finish"
         /\ UNCHANGED err)
  /\ UNCHANGED <<crVars, registered, now, queue, reqVars, dirty>>

\* the error of DeleteScalingPolicy dropped
DeleteIgnoringErrors ==
  /\ pc = "delete"
  /\ \/ Spend("fault") /\ UNCHANGED <<policy, made>>
     \/ policy' = Nil /\ made' = FALSE /\ UNCHANGED left
  /\ pc' = "unmanage"
  /\ UNCHANGED <<crVars, registered, now, queue, reqVars, latest, err, dirty>>

Delete ==
  /\ pc = "delete"
  /\ LET Takes == policy # Nil /\ policy' = Nil /\ made' = FALSE
         Fails == FinishWith(OnError(latest, "error"), "error")
     IN  \/ policy = Nil /\ Fails /\ UNCHANGED <<policy, made, left>>
         \/ Spend("fault") /\ Fails /\ UNCHANGED <<policy, made>>
         \/ Spend("fault") /\ Takes /\ Fails
         \/ Takes /\ pc' = "unmanage" /\ UNCHANGED <<latest, err, left>>
  /\ UNCHANGED <<crVars, registered, now, queue, reqVars, dirty>>

(* Without its finalizer a CR that is being deleted disappears.            *)
Unmanage ==
  /\ pc = "unmanage"
  /\ phase' = "absent"
  /\ managed' = FALSE
  /\ status' = NoStatus
  /\ Idle
  /\ UNCHANGED <<spec, awsVars, now, queue, dirty, left>>

(* The status is patched; the error decides when the key is served again.  *)
Finish ==
  /\ pc = "finish"
  /\ LET to == IF isDeleting THEN latest.status
               ELSE [latest.status EXCEPT !.conds = EnsureSynced(@, err)]
     IN  status' = IF phase = "absent" THEN status
                   ELSE MergePatch(status, desired.status, to)
  /\ queue' = queue \cup Requeued(err)
  /\ Idle
  /\ UNCHANGED <<phase, managed, spec, awsVars, now, dirty, left>>

Worker ==
  \/ FetchGone \/ Fetch
  \/ ReadFails \/ ReadNotFound \/ ReadUnmanaged \/ ReadManaged \/ ReadToDelete
  \/ Manage \/ Create \/ ReadBack \/ ReadBackNotFound \/ Update
  \/ Delete \/ Unmanage \/ Finish

Environment ==
  \/ UserCreate \/ UserEdit \/ UserDelete
  \/ TargetRegistered \/ TargetDeregistered \/ ForeignPut \/ ForeignDelete
  \/ Tick \/ Resync \/ Crash

Next == Worker \/ Environment

Spec == Init /\ [][Next]_vars

(* The work queue hands out a queued key and a goroutine runs on, and the  *)
(* timer that is set fires; nobody has to register a target, to edit, to   *)
(* fail or to crash.                                                       *)
FairSpec == Spec /\ WF_vars(Worker) /\ WF_vars(Resync)

---------------------------------------------------------------------------
(* Safety.                                                                 *)

(* As long as a policy that the controller put exists, its CR exists and   *)
(* carries the finalizer, also when its target comes and goes.             *)
NoOrphan == made => managed /\ phase # "absent"

(* What a user asked for: the fields that are set, in the section of the   *)
(* policy's type; AWS has no empty slices.                                 *)
Matches(p) ==
  /\ p # Nil
  /\ spec.type # Nil => p.type = spec.type
  /\ LET want == spec[p.type]
     IN  want # Nil => /\ want.num # Nil => p.config.num = want.num
                       /\ want.other # Nil => p.config.other = want.other
                       /\ want.list = <<>> => p.config.list = Nil
                       /\ want.list \notin {Nil, <<>>} => p.config.list = want.list

Settled == /\ pc = "idle" /\ phase = "live" /\ ~dirty
           /\ status.conds.synced = "True" /\ status.conds.terminal # "True"

(* Synced=True is honest: if nobody else acted since the reconcile fetched *)
(* the CR, the target is registered and the policy is the one the spec     *)
(* describes, field by field, though slices are compared by length first.  *)
SyncedMeansMatching == Settled => registered /\ Matches(policy)

(* ... and the alarms in the status are those of the policy, whether they  *)
(* come from the answer to Create, to Update or to Describe.               *)
AlarmsCurrent == Settled => status.alarms = policy.alarms

(* The reconciler implements the finalizer protocol.                       *)
Protocol == INSTANCE FinalizerProtocol
              WITH Ids <- {"policy"}, made <- IF made THEN {"policy"} ELSE {}
FinalizerRefinement == Protocol!Spec

---------------------------------------------------------------------------
(* Liveness, under FairSpec.                                               *)

(* A deletion completes, whatever fails on the way and whether the policy, *)
(* or its target, is still there.                                          *)
DeletionCompletes == phase = "deleting" ~> phase = "absent"

(* A spec that AWS can honour.                                             *)
Satisfiable ==
  /\ spec.type # Nil /\ spec[spec.type] # Nil
  /\ \A k \in Types \ {spec.type} : spec[k] = Nil
  /\ PayloadOK(spec)

(* When everybody stops acting and the target is there, in whichever order *)
(* the two were made, the policy ends up as the spec says.                 *)
ConvergesToSpec ==
  <>[](phase = "live" /\ managed /\ registered /\ Satisfiable
         => Matches(policy) /\ status.conds.synced = "True")

(* ... and then the controller stops calling PutScalingPolicy.             *)
UpdatesCease == <>[][~(pc = "update" /\ pc' = "finish" /\ err' = Nil)]_vars

(* A claim that the policy is in order does not outlive its truth for ever *)
(* when everybody stops acting, even if the target it needs is gone and no *)
(* reconcile can put the policy again.                                     *)
ClaimsCorrected ==
  <>[](phase = "live" /\ status.conds.synced = "True"
       /\ status.conds.terminal # "True" => registered /\ Matches(policy))

---------------------------------------------------------------------------
(* Claims of the repository that the code does not keep.                   *)

(* The CreationTime in the status is "for when the scaling policy was      *)
(* created": of the policy that exists.                                    *)
CreationTimeCurrent == Settled => status.ctime = policy.ctime
===========================================================================
