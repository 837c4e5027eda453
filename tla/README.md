# Verification of the Application Auto Scaling controller

TLA+ specifications of the ACK service controller for AWS Application Auto
Scaling, model-checked with TLC on small instances and, where the prover
reaches, proved with TLAPS for every value of the constants. The reference is
the code under `src/`; every definition that stands for code is listed with its
lines in `PROJECT.json` ("map").

## The system

The controller watches two kinds of custom resources (CRs) and makes AWS agree
with them. One reconcile worker at a time owns the key of a CR; several CRs are
reconciled in parallel. The order in which a reconcile calls the code of this
repository is fixed by the ACK runtime (a Go module dependency, so external).

| Component | State | Operations | Interacts with |
|---|---|---|---|
| ScalableTarget resource manager (`pkg/resource/scalable_target`) | none of its own; reads and returns copies of the CR, keeps its results in the CR's status and in AWS | `ReadOne`, `Create`, `Update`, `Delete`, `LateInitialize`, `ResolveReferences`, `ClearResolvedReferences`, `IsSynced`; `newResourceDelta` + `customSetDefaults`; `updateConditions` | AWS (`Describe`/`Register`/`DeregisterScalableTarget`), Role CRs of the IAM controller, the runtime |
| ScalingPolicy resource manager (`pkg/resource/scaling_policy`) | as above | as above; late initialization and references are empty | AWS (`Describe`/`Put`/`DeleteScalingPolicy`); a policy needs a registered target and dies with it |
| Resource descriptors (`descriptor.go`) | the finalizer of the CR | `IsManaged`, `MarkManaged`, `MarkUnmanaged`, `MarkAdopted`, `Delta` | runtime, Kubernetes API |
| Resource manager factories (`manager_factory.go`) | a map from account/region/role to resource manager, behind an `RWMutex` | `ManagerFor` | called by every worker of a kind, concurrently |
| Identity and adoption (`resource.go`, `identifiers.go`) | – | `SetIdentifiers`, `PopulateResourceFromAnnotation`, `SetStatus`, conditions accessors | runtime (adoption path) |
| CRD types (`apis/v1alpha1`) | the CRs | – | – |
| Process start-up and registry (`cmd/controller`, `registry.go`) | list of kinds | flag parsing, wiring | – |
| ACK runtime: reconciler, work queue, API-server client (external) | work queue, finalizers, patches | fetch, reconcile, requeue, resync, patch | all of the above |

### What is hard about it

* **Interleaving with the world.** Between any two calls of a reconcile a user
  may edit or delete the CR, another AWS client may change or remove the target
  or policy, a Role CR may change. The worker goes on with the copy it fetched.
* **Crashes and lost answers.** Nothing is persisted between calls except the
  finalizer, the spec patch of late initialization and the final status patch.
  A `Register` or `Put` may have taken effect although the worker saw an error
  or died.
* **Ordering.** The finalizer must be on the CR before anything is made in AWS
  and may go only after it is gone; a policy may be reconciled before its target.
* **Stale state.** `IsSynced` always answers true, the status written after an
  update is the one of the fetched CR with some fields replaced, and
  `LastModifiedTime` exists nowhere but in the status, where it comes from AWS's
  clock at first and from the controller's `time.Now()` after an update.
* **Coming to rest.** A reconcile that finds a difference calls AWS again; a
  difference that never goes away makes that happen at every resync.
* **Concurrency in the process.** The manager map is shared by all workers of a
  kind and its lookup and its insertion are two critical sections.

`PROJECT.json` ("hazards") lists these at their lines, with the properties that
cover them.

### What makes each component correct

* *Resource managers*: what they report as synced is what AWS has; they converge
  to what the user asked for, also after drift, faults and crashes, and then
  stop calling AWS; they do not change what the user left open; they never write
  to the spec more than the late-initialized role; the time of an update is not
  lost to an older one; nothing that does not fit an int32 is sent.
* *Descriptors / finalizer*: a target or policy that the controller made never
  outlives the protection of its CR; deletions complete.
* *Factory*: the map is accessed without races, each call returns a manager for
  its own key, every call returns.

## Modules

| Module | Role |
|---|---|
| `ManagerCache` | Abstract specification: an atomic get-or-install cache. |
| `ManagerFactory` | `ManagerFor` cut at its lock and map operations; refines `ManagerCache`. |
| `ManagerFactory_proofs` | Its proofs. |
| `FinalizerProtocol` | Abstract specification: what the finalizer promises. |
| `AckResource` | What both resource managers share: nil, times, conditions, `onError`/`onSuccess`, merge patches. |
| `ScalableTargetResource` | Pure functions of the ScalableTarget manager: `SdkFind`, delta, payload, late initialization, references; the effect of `Register`. |
| `ScalableTarget` | One ScalableTarget CR with its worker, users, AWS, a Role CR, faults; refines `FinalizerProtocol`. |
| `ScalableTarget_proofs` | Its proofs: types, ownership, the finalizer protocol. |
| `ScalableTargetSync_proofs` | Its proofs about what a reconcile reports and writes: honesty of `Synced`, times, updates, late initialization. |
| `ScalingPolicyResource`, `ScalingPolicy` | The same for a ScalingPolicy CR and the target it hangs on; refines `FinalizerProtocol`. |
| `ScalingPolicy_proofs` | Its proofs. |
| `SharedTarget` | Two ScalableTarget CRs that name one target: two instances of `ScalableTarget` over one AWS. |
| `SharedTarget_proofs` | Its proofs, from instances of `ScalableTarget_proofs`. |
| `Autoscaling` | The CR of a target and the CR of a policy on it: an instance of `ScalableTarget` and one of `ScalingPolicy` over one AWS. |
| `Autoscaling_proofs` | Its proofs, from instances of the proofs of both. |
| `Adoption` | Identities and adoption of both kinds: the adopter of AdoptedResources, and the worker of a CR with the adoption annotation. |
| `Adoption_proofs` | Its proofs. |
| `MCScalableTarget`, `MCScalingPolicy`, `MCSharedTarget`, `MCAutoscaling`, `MCAdoption` | Constants for TLC. |

Operators that are defined directly above another with nearly its name
(`NoRangeCheck`, `DeleteIgnoringErrors`, `AlwaysCreationTime`, ...) and carry a
one-line `\*` comment are mutated forms of the definition that follows: each is a
plausible bug, and with it in place TLC finds the property named next to it in
`PROJECT.json` ("mutants") violated. They are not part of any specification.

### How state and actions correspond to the code

`ScalableTarget` and `ScalingPolicy` have one CR (`phase`, `managed` for the
finalizer, `spec`, `status`), AWS (`aws`; `policy` and `registered`), two clocks
(`now`), what the runtime holds for the key (`queue`: it is in the work queue now,
waits in a timer for later, or both) and the local variables of the reconcile
(`desired`, `isManaged`, `isDeleting`, `latest`, `err`, with `pc` naming the next
call). `made` and `dirty` are history variables: what the controller made that
nobody removed, and whether anybody else acted since the fetch.

One action is one call to AWS or to the Kubernetes API together with all the
computation up to the next call: `ReadManaged` is `ReadOne` with `sdkFind`,
`onSuccess`, and then `Delta`, which writes defaults into `desired` as
`customSetDefaults` does; `Create` and `Update` are the range checks, the AWS
call with its five outcomes (refused locally, refused by AWS, failed, done but
reported failed, done), the construction of the returned resource and
`onError`/`onSuccess`; `Finish` is the derivation of the `Synced` condition, the
status patch and the requeue decision. `Crash` forgets every local variable and
every timer at any step, also while the worker is idle; the process that starts
again lists the CRs and queues their keys.

A key comes into the work queue only where the runtime puts it there (`Requeued`):
when a user writes the CR (an edit that changes nothing, a status patch or a
finalizer bumps no generation and is filtered), at once after an error that may go
away, and by the timer of the resync, which is set after a reconcile without error
(`helm/values.yaml`, `defaultResyncPeriod`). A terminal error sets nothing: until
an edit or a restart nobody serves that CR again, whatever happens in AWS.

The order of calls is that of the runtime's reconciler: fetch; clear conditions
(not on deletion); resolve references; `ReadOne`; on `NotFound` put the finalizer
on, `Create`, read back; on a difference `Update`; `LateInitialize`, with the spec
patched if that changed it; status patch. A resource that exists while the CR
carries no finalizer is a terminal error and is not requeued. On deletion:
`ReadOne`, `Delete`, remove the finalizer. Patches are JSON merge patches without
a version check, so they overwrite only the fields the controller changed.

`SharedTarget` and `Autoscaling` compose: a step of one worker is the action of its
module, and for the other CR it is the act of a stranger, which `dirty` and `made`
record. In `SharedTarget` the two workers write to one `aws`. In `Autoscaling` the
variable `registered` of `ScalingPolicy` is replaced by `aws[Target] # Nil`, and
`PolicyFollows` deletes the policy when the target is deregistered. A crash takes
both workers.

`Adoption` abstracts the reconcile loop away and keeps what the identity goes
through: the keys that the user gives (`given`, each may be missing), the request
made of them (`SetIdentifiers` or `PopulateResourceFromAnnotation`, then
`RequiredFieldsMissing` and `ListRequest`), the answer, of which `sdkFind` takes the
first element, and the CR that carries it (`spec`, with finalizer and annotation).
The adopter creates the CR unless one of its name exists, and then reports; the
worker of an annotated CR patches it. Both are calls of the runtime, so external.

`ManagerFactory` has the `RWMutex` (readers, announced writers, holder), the map
and one `pc` per worker; reading the map, unlocking, and building a manager are
separate steps, in the order of the code.

### Abstractions

* A target's `id` is resourceID + scalableDimension + serviceNamespace; `cap` is
  the pair of capacities, which every function treats alike; a suspended state is
  a function on its flags; ARN and account metadata of the status are left out.
  A configuration of a policy has three leaves, one per way in which the code
  treats a leaf: an int32 number, a slice, any other pointer.
* Messages and reasons of conditions are left out, and of the conditions only
  `Terminal`, `Recoverable`, `ResourceSynced` and `LateInitialized` are kept:
  nothing in `src/` reads or writes another.
* AWS dates `CreationTime` by its clock (`now.aws`), an update is dated by the
  controller's (`now.controller`, `customSetLastModifiedTimeToCurrentTime`). A time
  in a status says which clock it was read from, and no comparison is ever made
  between the two. Of the controller's clock only *when* it was read is kept, not
  what it showed, so that it may be wrong, be set back, or be the clock of another
  host after a restart: then `lastModifiedTime` as a number may go back, or lie
  before `creationTime`, and no property says otherwise.
* AWS is what the code relies on: `Register` and `Put` are upserts that keep what
  they are not told, and `Put` replaces a whole configuration; `Register` needs
  capacities for a new target, `Put` needs a registered target, a type and a
  configuration of that type only; both fill in fields that are left out
  (`ServiceRole`, flags, `DefaultOther`); deregistering a target deletes its
  policies; target tracking makes its own alarms.
* Alarms are told apart by the metric they watch, and only target tracking has any: the
  alarms that a user attaches to a step policy in CloudWatch are left out.
* An error with code "UNKNOWN", which `sdkFind` takes for `NotFound`, does not come
  from the AWS SDK in use and is not modelled.

## Runs

| Run | Result | What it shows |
|---|---|---|
| `manager_factory` | pass | Three workers and two keys, every interleaving: no conflicting accesses to the map (`MapAccessExclusive`), a call returns a manager for its key (`RightManager`), at most one build per worker and key (`BuildsOncePerKey`), refinement of the atomic cache (`AtomicGet`), every call returns (`CallsReturn`). |
| `one_manager_per_key` | violation | Two workers that miss together build two managers (finding 1). |
| `scalable_target` | pass | Safety of a ScalableTarget CR: `NoOrphan`, `WritesOnlyManaged`, `SyncedMeansMatching`, `LastModifiedNeverBack`, `UnsetFieldsUntouched`, `LateInitFillsGap`, `FinalizerRefinement`. |
| `scalable_target_liveness` | pass | `DeletionCompletes`, `ConvergesToSpec`, `UpdatesCease`. |
| `renamed_target` | violation | An edit of the identity orphans the target (finding 2). |
| `modified_before_creation` | violation | `LastModifiedTime` before `CreationTime` (finding 3). |
| `scaling_policy` | pass | Safety of a ScalingPolicy CR while its target comes and goes: `NoOrphan`, `SyncedMeansMatching`, `AlarmsCurrent`, `FinalizerRefinement`. |
| `scaling_policy_liveness` | pass | `DeletionCompletes`, `ConvergesToSpec`, `UpdatesCease`, and `ClaimsCorrected`: a condition Synced=True does not outlive the loss of the policy or its target, although `IsSynced` always answers true. |
| `shared_target` | pass | Two CRs that disagree about one target. When both are gone the target is gone, whichever registered or overwrote it (`NothingLeft`); one that was refused because the target exists does not touch it (`RefusedLeavesAlone`); no deletion hangs, and a CR that is left alone has the target as it wants it, or was refused while its rival had the target and says so by its terminal condition (`DeletedOrServed`). A refused CR is not served when its rival goes: nothing queues it. |
| `autoscaling` | pass | A target's CR and a policy's CR: what was made goes with its CR in either order of deletion (`GoneWithItsCR`); a policy claims to be synced only while a target's CR protects the target (`SyncedPolicyHasTarget`); two live CRs end up served and a policy without its target ends up admitting it (`SettlesTogether`). |
| `adoption` | pass | A managed CR has a complete identity (`IdentityComplete`) that agrees with every key the user gave (`AdoptsWhatWasNamed`), though a Describe with a key missing has several answers; deleting it removes that target or policy and no other (`DeletesOnlyAdopted`); an adoption that names what exists completes (`AdoptionCompletes`). |
| `creation_time_current` | violation | Synced=True next to the creation time of another policy (finding 4). |

### Bounds, and why they are enough

* `manager_factory`: with three workers there can be two readers against an
  announced writer, and a second writer that replaces the entry a third has just
  read; two keys allow a wrong key to be returned.
* `scalable_target`: three user actions (`MaxUser`) allow create–edit–delete,
  create–delete–create and create–edit–edit; one foreign action and one fault
  (failed call, lost answer, or crash, at any step) fall anywhere among them. The
  specs cover each field set and unset, each kind of reference, and a capacity
  beyond int32 (9 with `MaxInt32 = 5`). `MaxTime` bounds each clock: here the
  controller's has two instants and AWS's stands still, since the one property
  about times compares updates with each other; the two violation runs about
  creation times and `scaling_policy` move both clocks, the others none.
* `scaling_policy`: the same with two foreign actions, so that a target can be
  deregistered and registered again, and with two slices of equal length.
* `shared_target`: both CRs start just written and unnoticed, so either worker may
  be first at every step. A behaviour has one of two `Budgets`: two user actions,
  which delete both or delete one and write it again, and no fault; or one user
  action and one fault anywhere. All three at once, as in a fault between the two
  deletions, is left to the theorems about the two safety properties, which hold for
  every budget. Edits, other clients and the Role CR are left
  to `scalable_target`: to one CR its rival is already another client.
* `autoscaling`: the same with one CR of each kind, edits of the target's CR
  included (there is one policy spec, so the policy's CR is written and deleted but
  not edited), and either a fault or the loss of the target to another client, not
  both in one behaviour.
* `adoption`: two dimensions of one resource, each with a target and a policy, so
  that a request without the dimension has two answers; each key is left out in one
  of the requests. Three user actions allow to ask, delete and ask again; one
  resource appears or vanishes; one failure or crash takes any of the two workers.
* The liveness runs take one identity, no clock, and specs on which a reconcile
  can come to rest (`SettledSpecs`). On others it does not: an omitted capacity, a
  `RoleRef` without `from`, or an omitted leaf of a policy that AWS fills in
  differs at every read, and every reconcile calls `Register` or `Put` again.
  `UpdatesCease` is therefore a statement about the specs without these shapes and
  cannot show the hazards that `PROJECT.json` lists for them (`delta.go`, liveness).
  The safety runs include such specs.
* Deadlock checking is off in the runs of the two CR modules because the system
  may stop there: with the bounds used up and no CR in existence nothing is left
  to do. It is on for `ManagerFactory`.

### Fairness

`FairSpec` assumes weak fairness of `Worker`, since the work queue hands out a
queued key and a goroutine between two calls keeps running (calls return, if only
with an error), and of `Resync`: a timer that was set fires. `Resync` is enabled
only while the timer is set (`"later" \in queue`), that is after a reconcile
without error, so the fairness gives nothing to a CR whose last reconcile ended with
a terminal error. Nothing is assumed
of users, other AWS clients, the Role CR, the clocks or faults. In `SharedTarget` and
`Autoscaling` each CR has a worker and a resync of its own, with a weak fairness
each, since the work queue gives different keys to different workers; in `Adoption`
the adopter and the worker are two reconcilers of one process. In `ManagerFactory`
a worker inside `ManagerFor` keeps running; no worker is obliged to call it.

## Findings

1. `ManagerFor` does not look again after it takes the write lock, so two managers
   for one key can be built although the comment says the key avoids that. The
   loser stays in use by its caller. Harmless beyond the waste: `RightManager`
   and `BuildsOncePerKey` hold.
2. `resourceID` (and the rest of the identity) can be edited; the target registered
   before is forgotten, and the finalizer goes although the comment at
   `descriptor.go` promises that backend resources are cleaned up first. Policies
   have the same shape (`policyName`).
3. `LastModifiedTime` is initialized from `CreationTime` only while it is nil: after
   a target was removed by others and registered again it is still the creation time
   of the former target, earlier than the present one by AWS's own clock. Policies
   share the code.
4. `sdkUpdate` builds its result from the fetched CR and drops what was just read:
   the creation time is stale or missing after an update until a later reconcile
   finds no difference. Targets share the code.

## Proofs

`ManagerFactory_proofs`, for any sets of workers and keys: `TypeCorrect`,
`MapExclusion`, `ReturnsRightManager`, `OneBuildPerWorker`,
`ImplementsManagerCache`. The invariant ties each `pc` to the lock state (a worker
that reads the map is among the readers, one that builds or stores holds the
write lock) and to the contents of the map.

`ScalableTarget_proofs`, for any identities, capacities, roles, flags and bounds,
from `AckAssumption` (`MaxInt32` and the bounds of `MaxTime` are naturals, `Nil` is none of the
values it is compared with), `ResourceAssumption` and `TargetAssumption`:

* `TypeCorrect`. `TypeOK` is not inductive: a step that uses `desired` or `latest`
  must know that they are not nil, so `TypeInv` adds `Present`, which says for each
  value of `pc` which of them are. One lemma per function of
  `ScalableTargetResource` gives the type of its result. That capacities in AWS are
  int32 follows from the range checks of the payload.
* `NothingOrphaned` and `WritesUnderFinalizer`, assuming `~Renames` (the run
  `renamed_target` shows that they are false without). The strengthening has three
  parts: `OwnerInv` (while a reconcile runs, its `isManaged` is what the CR carries,
  because nobody else touches the finalizer, and it is true from `create` on),
  `IdInv` (every copy the worker holds names the identity of the CR) and `MadeInv`
  (what was made is in AWS under that identity and its CR carries the finalizer;
  nothing of it is left when `pc` is `unmanage`).
* `ImplementsProtocol`, from the same invariant: each step maps to a step of
  `FinalizerProtocol` or a stutter, the refinement mapping being the identity on
  `phase`, `managed` and `made`.

`ScalableTargetSync_proofs`, from the same three assumptions and without any on
`Renames`:

* `ModifiedTimeMonotone`, from `ClockInv`: no reading of the controller's clock kept
  anywhere was taken in the future (`NotAhead`), `desired` has the time that the CR
  has, and what a call returns has one that replaces it rightfully (`NotBefore`).
  Nothing is assumed of AWS's clock or of what the controller's shows: the theorem
  is about which of the events wins, and says that the time of an update gives way
  to that of a later update only. Merge patches make this subtle: a field on which
  `desired` and `latest` agree is not written, so the two must agree only where the
  CR has the same value.
* `LateInitIsSafe` and `UnsetFieldsStay`, from `FetchedInv` (until somebody else
  acts, the CR is as it was fetched) and `PatchInv` (at the spec patch `desired` and
  `latest` differ in the role and `desired` has neither role nor reference).
* `SyncedIsHonest`, from `CleanInv`, the invariant of an undisturbed reconcile
  (`~dirty` and a live CR). It says for each `pc` what `desired` and `latest` are in
  terms of the spec, the Role CR and AWS as they are now: `desired` is the spec with
  references resolved, and with the defaults of what was read once there was a
  difference; from `readback` and `late` on, AWS matches the spec unless `err` or
  the `Synced` condition already says otherwise. `SyncedMeansMatching` alone speaks
  of idle states only and says nothing of how they were reached.

`ScalingPolicy_proofs`, for any numbers, lists, values and bounds, from
`AckAssumption`, `PolicyResourceAssumption` and `PolicyAssumption`:

* `TypeCorrect`, as above, with one lemma per function of `ScalingPolicyResource`;
  that no empty slice and no number beyond int32 is stored follows from `Stored` and
  the range checks.
* `NothingOrphaned` and `ImplementsProtocol`, from `OwnerInv` and `MadeInv`, which
  adds that a policy in AWS hangs on a registered target. The refinement maps the
  Boolean `made` to the set of what was made.
* `SyncedIsHonest` and `AlarmsAreCurrent`, from `CleanInv`: at `readback`, and at
  `finish` without an error, the target is registered, the policy matches the spec
  and `latest` has its alarms. Its two sources are `NoDeltaMatches` (no difference
  means equal, although slices are compared with an order of their own) and
  `PutMatches` (what `Put` was sent is what is stored).

The compositions are not proved anew. Each `*_proofs` module of a reconciler has
lemmas about what its invariant owes to others: it holds of a CR that was just
written (`FreshInv`), a stranger in AWS keeps it (`StrangerKeeps`), so does the
death of the process (`ForgetKeeps`), and a worker leaves in AWS what it made and
what was there before (`WorkerMakes`). `SharedTarget_proofs` and
`Autoscaling_proofs` instantiate these modules, once for each CR; lemmas `Same...`
say that the actions of the instance are those of the composition. Both assume
`~Renames`, and `SharedAssumption` and `AutoscalingAssumption`, which say of the
constants of the composition what the assumptions of its parts say:

* `NothingIsLeft`, `GoneWithTheirCRs`: to the invariants of the parts they add that
  everything in AWS was made by one of the CRs. No part could say so, having other
  clients; in the composition there are none that make anything.
* `RefusedKeepsOff`: a worker that writes to a target has the finalizer on its CR.
* `SyncedPolicyIsKept`: the policy's `CleanInv` gives a registered target, which
  the target's CR made, hence carries the finalizer.

`Adoption_proofs`, for any values of keys, identities, requests and bounds, from
`AdoptionAssumption` (identities are complete, requests need not be, and `Nil` is
neither a value nor an identity):

* `TypeCorrect` and `ManagedIsComplete`, from `CopyInv`: what a worker is about to
  store was an element of an answer, hence complete (`IdentitiesComplete`,
  `FoundMatches`), and what it is about to delete is what the CR names.
* `HonoursTheUser`, from `WantInv`: as long as no user acts, the identity in hand
  agrees with each key that was given; an answer agrees with what it was asked for
  (`FoundHonours`).
* `DeletesItsOwn`, from `CopyInv`: to a complete request there is one answer
  (`FoundComplete`), and nobody else touches a CR that is being deleted.

Every invariant and every action property of the passing runs, and each refinement,
is thus a theorem; so is the type invariant of `ManagerFactory`, which no run lists
and on which the other proofs about that module rest. Only model-checked are the liveness properties (`CallsReturn`,
`DeletionCompletes`, `ConvergesToSpec`, `UpdatesCease`, `ClaimsCorrected`,
`SettlesTogether`, `DeletedOrServed`, `AdoptionCompletes`): they need `ENABLED` and
fairness, which the prover does not reason about. The four findings are
counterexamples and stay with TLC as well.

## Not modelled

`ARNFromName`, which has no caller; `EnsureTags`, `FilterSystemTags` and
`mirrorAWSTags`, which do nothing for these kinds; generated deep copies (a TLA+
value is a copy; where the code shares one, as `customSetDefaults` and
`ResolveReferences` do, the model updates the shared variable); start-up, flags
and metrics; leader election, which is off by default, so that two processes may
overlap during a rollout (one process is assumed to reconcile); the choice of the
account and region of a CR, which the runtime makes from fields that
`setStatusDefaults` writes once; the runtime's
retain policy, field exports and cross-account roles; requests of a dead process
that AWS executes after the restart.

## Plan

Done: the models, runs and proofs above. Left:

1. Honesty of `Synced` for two CRs on one target and for a target with a policy,
   from the `CleanInv` of each part and a rely condition like `StrangerKeeps`.
2. What remains true of a CR whose identity was edited: a form of `NothingOrphaned`
   for the identities that the CR has had.
3. That the compositions implement `FinalizerProtocol` once for each CR.
