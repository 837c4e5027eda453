------------------------------ MODULE Adoption -----------------------------
(* Bringing a target or a policy that exists in AWS under the management   *)
(* of a custom resource.  There are two ways: an AdoptedResource names it, *)
(* and the runtime's adopter makes the CR; or a CR is written with the     *)
(* adoption annotation, and its own worker completes it.  Either way the   *)
(* code of this repository turns the given keys into a request, describes, *)
(* takes the first answer and puts finalizer and annotation on the CR.     *)
(*                                                                         *)
(* An identity is a record of keys, policyName among them if it is that of *)
(* a policy; a key that is not given is Nil.                               *)
EXTENDS FiniteSets, Integers

CONSTANTS Nil,
          Values,     \* of keys
          Identities, \* what may exist in AWS
          Requests,   \* the keys that users give
          MaxUser,    \* bound on the users' actions
          MaxForeign, \* bound on the actions of other AWS clients
          MaxFaults   \* bound on failed calls and crashes

Keys == {"resourceID", "scalableDimension", "serviceNamespace", "policyName"}

(* Of a policy, or of a target.                                            *)
Names(V) == [Keys -> V] \cup [Keys \ {"policyName"} -> V]

IsComplete(id) == \A k \in DOMAIN id : id[k] # Nil

ASSUME AdoptionAssumption ==
  /\ Nil \notin Values \cup Names(Values \cup {Nil})
  /\ Identities \subseteq Names(Values)
  /\ Requests \subseteq Names(Values \cup {Nil})
  /\ MaxUser \in Nat /\ MaxForeign \in Nat /\ MaxFaults \in Nat

(* The adopter of AdoptedResources and the worker of the CR.               *)
Workers == {"adopter", "worker"}

VARIABLES
  aws,      \* the targets and policies that exist
  asked,    \* "nothing", by "AdoptedResource" or by "annotation"
  given,    \* the keys that were given, or Nil
  reported, \* the AdoptedResource is marked as adopted
  refused,  \* the CR has the Terminal condition
  phase,    \* the CR: "absent", "live" or "deleting"
  managed,  \* it carries the finalizer
  adopted,  \* it carries the annotation of an adopted resource
  spec,     \* the identity in its spec, or Nil
  pc,       \* worker -> its next step
  copy,     \* worker -> the identity it works with, or Nil
  dirty,    \* workers that started before a user last acted
  left      \* what remains of the bounds

askVars == <<asked, given, reported, refused>>
crVars == <<phase, managed, adopted, spec>>
workVars == <<pc, copy, dirty>>
vars == <<aws, askVars, crVars, workVars, left>>

Steps == {"idle", "adopt", "store", "report", "find", "delete", "release"}

Unnamed(id) == [k \in DOMAIN id |-> Nil]

TypeOK ==
  /\ aws \subseteq Identities
  /\ asked \in {"nothing", "AdoptedResource", "annotation"}
  /\ given \in Requests \cup {Nil}
  /\ asked # "nothing" => given # Nil
  /\ reported \in BOOLEAN /\ refused \in BOOLEAN
  /\ phase \in {"absent", "live", "deleting"}
  /\ managed \in BOOLEAN /\ adopted = managed
  /\ spec = Nil <=> phase = "absent"
  /\ pc \in [Workers -> Steps]
  /\ \A w \in Workers : copy[w] = Nil <=> pc[w] = "idle"
  /\ dirty \subseteq Workers
  /\ left \in [user : 0 .. MaxUser, foreign : 0 .. MaxForeign,
               fault : 0 .. MaxFaults]

Init ==
  /\ aws \in SUBSET Identities
  /\ asked = "nothing" /\ given = Nil
  /\ reported = FALSE /\ refused = FALSE
  /\ phase = "absent" /\ managed = FALSE /\ adopted = FALSE /\ spec = Nil
  /\ pc = [w \in Workers |-> "idle"]
  /\ copy = [w \in Workers |-> Nil]
  /\ dirty = {}
  /\ left = [user |-> MaxUser, foreign |-> MaxForeign, fault |-> MaxFaults]

Spend(k) == left[k] > 0 /\ left' = [left EXCEPT ![k] = @ - 1]

---------------------------------------------------------------------------
(* Identifiers.  Nil is an error.                                          *)

Overlay(id, keys) ==
  [k \in DOMAIN id |-> IF keys[k] # Nil THEN keys[k] ELSE id[k]]

\* as for a target: the policy's name forgotten
SetTargetIdentifiers(id, keys) ==
  IF keys["resourceID"] = Nil THEN Nil
  ELSE [k \in DOMAIN id |-> IF k # "policyName" /\ keys[k] # Nil THEN keys[k]
                            ELSE id[k]]

SetIdentifiers(id, keys) ==
  IF keys["resourceID"] = Nil THEN Nil ELSE Overlay(id, keys)

PopulateResourceFromAnnotation(id, keys) ==
  IF keys["resourceID"] = Nil \/ keys["serviceNamespace"] = Nil THEN Nil
  ELSE Overlay(id, keys)

(* sdkFind does not ask AWS without the resource of a target or without    *)
(* every key of a policy.                                                  *)
RequiredFieldsMissing(id) ==
  IF "policyName" \in DOMAIN id THEN ~IsComplete(id) ELSE id.resourceID = Nil

\* the dimension not sent
RequestWithoutDimension(id) ==
  [k \in {k \in DOMAIN id \ {"scalableDimension"} : id[k] # Nil} |-> id[k]]

(* The Describe request holds the keys that are known.                     *)
ListRequest(id) == [k \in {k \in DOMAIN id : id[k] # Nil} |-> id[k]]

(* AWS answers only to a request with a namespace, with all that matches,  *)
(* in no order that is promised.                                           *)
Answerable(request) == "serviceNamespace" \in DOMAIN request

Answer(id) ==
  LET request == ListRequest(id)
  IN  {i \in aws : /\ DOMAIN i = DOMAIN id
                   /\ \A k \in DOMAIN request : i[k] = request[k]}

NotFound(id) ==
  \/ RequiredFieldsMissing(id)
  \/ Answerable(ListRequest(id)) /\ Answer(id) = {}

Found(id) ==
  IF RequiredFieldsMissing(id) \/ ~Answerable(ListRequest(id)) THEN {}
  ELSE Answer(id)

---------------------------------------------------------------------------
(* Users and other clients of AWS.                                         *)

AskByResource ==
  /\ asked = "nothing"
  /\ Spend("user")
  /\ asked' = "AdoptedResource"
  /\ given' \in Requests
  /\ reported' = FALSE
  /\ dirty' = Workers
  /\ UNCHANGED <<aws, refused, crVars, pc, copy>>

(* The spec is left out, or filled in as far as the CRD requires.          *)
AskByAnnotation ==
  /\ asked = "nothing" /\ phase = "absent"
  /\ Spend("user")
  /\ asked' = "annotation"
  /\ given' \in Requests
  /\ spec' \in {i \in Identities : DOMAIN i = DOMAIN given'} \cup {Unnamed(given')}
  /\ phase' = "live"
  /\ refused' = FALSE
  /\ dirty' = Workers
  /\ UNCHANGED <<aws, reported, managed, adopted, pc, copy>>

(* An AdoptedResource can be deleted without a trace.                      *)
Withdraw ==
  /\ asked = "AdoptedResource"
  /\ Spend("user")
  /\ asked' = "nothing"
  /\ dirty' = Workers
  /\ UNCHANGED <<aws, given, reported, refused, crVars, pc, copy>>

AskedAfterCR == IF asked = "annotation" THEN "nothing" ELSE asked

UserDelete ==
  /\ phase = "live"
  /\ Spend("user")
  /\ IF managed THEN phase' = "deleting" /\ UNCHANGED <<asked, spec>>
     ELSE phase' = "absent" /\ spec' = Nil /\ asked' = AskedAfterCR
  /\ dirty' = Workers
  /\ UNCHANGED <<aws, given, reported, refused, managed, adopted, pc, copy>>

Appear == /\ Spend("foreign")
          /\ \E i \in Identities \ aws : aws' = aws \cup {i}
          /\ UNCHANGED <<askVars, crVars, workVars>>

Vanish == /\ Spend("foreign")
          /\ \E i \in aws : aws' = aws \ {i}
          /\ UNCHANGED <<askVars, crVars, workVars>>

---------------------------------------------------------------------------
(* The adopter and the worker.                                             *)

GoTo(w, step, id) == /\ pc' = [pc EXCEPT ![w] = step]
                     /\ copy' = [copy EXCEPT ![w] = id]

Begin(w, step, id) == GoTo(w, step, id) /\ dirty' = dirty \ {w}

(* Failed calls and crashes leave nothing of a worker's progress.          *)
Interrupted ==
  /\ Spend("fault")
  /\ \E lost \in SUBSET {w \in Workers : pc[w] # "idle"} :
       /\ lost # {}
       /\ pc' = [w \in Workers |-> IF w \in lost THEN "idle" ELSE pc[w]]
       /\ copy' = [w \in Workers |-> IF w \in lost THEN Nil ELSE copy[w]]
  /\ UNCHANGED <<aws, askVars, crVars, dirty>>

(* Without a resourceID this fails, and is tried again in vain.            *)
BeginResource ==
  /\ pc["adopter"] = "idle"
  /\ asked = "AdoptedResource" /\ ~reported
  /\ LET id == SetIdentifiers(Unnamed(given), given)
     IN  id # Nil /\ Begin("adopter", "adopt", id)
  /\ UNCHANGED <<aws, askVars, crVars, left>>

(* Here a missing key is a terminal error, which is not tried again.       *)
BeginAnnotation ==
  /\ pc["worker"] = "idle"
  /\ asked = "annotation" /\ phase = "live" /\ ~managed /\ ~refused
  /\ LET id == PopulateResourceFromAnnotation(spec, given)
     IN  IF id = Nil THEN refused' = TRUE /\ UNCHANGED workVars
         ELSE Begin("worker", "adopt", id) /\ UNCHANGED refused
  /\ UNCHANGED <<aws, asked, given, reported, crVars, left>>

\* the request kept in place of the answer
AdoptRequested(w) ==
  /\ pc[w] = "adopt"
  /\ Found(copy[w]) # {}
  /\ GoTo(w, "store", copy[w])
  /\ UNCHANGED <<aws, askVars, crVars, dirty, left>>

(* sdkFind takes every key from the first element of the answer.           *)
Adopt(w) ==
  /\ pc[w] = "adopt"
  /\ \E i \in Found(copy[w]) : GoTo(w, "store", i)
  /\ UNCHANGED <<aws, askVars, crVars, dirty, left>>

\* an empty answer not noticed
AdoptMissing(w) ==
  /\ pc[w] = "adopt"
  /\ Found(copy[w]) = {}
  /\ GoTo(w, "store", Nil)
  /\ UNCHANGED <<aws, askVars, crVars, dirty, left>>

AdoptFails(w) ==
  /\ pc[w] = "adopt"
  /\ Found(copy[w]) = {}
  /\ GoTo(w, "idle", Nil)
  /\ UNCHANGED <<aws, askVars, crVars, dirty, left>>

(* MarkManaged and MarkAdopted.                                            *)
MarkedAs(id) == managed' = TRUE /\ adopted' = TRUE /\ spec' = id

(* The adopter makes the CR unless there is one of its name.               *)
CreateCR ==
  /\ pc["adopter"] = "store"
  /\ IF phase = "absent" THEN phase' = "live" /\ MarkedAs(copy["adopter"])
     ELSE UNCHANGED crVars
  /\ GoTo("adopter", "report", copy["adopter"])
  /\ UNCHANGED <<aws, askVars, dirty, left>>

(* ... and says so, if its AdoptedResource is still there.                 *)
Report ==
  /\ pc["adopter"] = "report"
  /\ reported' = (reported \/ asked = "AdoptedResource")
  /\ GoTo("adopter", "idle", Nil)
  /\ UNCHANGED <<aws, asked, given, refused, crVars, dirty, left>>

(* The worker patches the CR that it finds under the name.                 *)
PatchCR ==
  /\ pc["worker"] = "store"
  /\ IF phase = "absent" THEN UNCHANGED <<managed, adopted, spec>>
     ELSE MarkedAs(copy["worker"])
  /\ GoTo("worker", "idle", Nil)
  /\ UNCHANGED <<aws, askVars, phase, dirty, left>>

BeginDelete ==
  /\ pc["worker"] = "idle"
  /\ phase = "deleting"
  /\ Begin("worker", "find", spec)
  /\ UNCHANGED <<aws, askVars, crVars, left>>

Find ==
  /\ pc["worker"] = "find"
  /\ IF NotFound(copy["worker"]) THEN GoTo("worker", "release", copy["worker"])
     ELSE \E i \in Found(copy["worker"]) : GoTo("worker", "delete", i)
  /\ UNCHANGED <<aws, askVars, crVars, dirty, left>>

(* AWS refuses to delete what is not there.                                *)
Delete ==
  /\ pc["worker"] = "delete"
  /\ aws' = aws \ {copy["worker"]}
  /\ IF copy["worker"] \in aws THEN GoTo("worker", "release", copy["worker"])
     ELSE GoTo("worker", "idle", Nil)
  /\ UNCHANGED <<askVars, crVars, dirty, left>>

(* MarkUnmanaged; the CR disappears.                                       *)
Release ==
  /\ pc["worker"] = "release"
  /\ phase' = "absent" /\ managed' = FALSE /\ adopted' = FALSE /\ spec' = Nil
  /\ asked' = AskedAfterCR
  /\ GoTo("worker", "idle", Nil)
  /\ UNCHANGED <<aws, given, reported, refused, dirty, left>>

Adopter == \/ BeginResource \/ Adopt("adopter") \/ AdoptFails("adopter")
           \/ CreateCR \/ Report

Worker == \/ BeginAnnotation \/ Adopt("worker") \/ AdoptFails("worker")
          \/ PatchCR \/ BeginDelete \/ Find \/ Delete \/ Release

Environment == \/ AskByResource \/ AskByAnnotation \/ Withdraw \/ UserDelete
               \/ Appear \/ Vanish \/ Interrupted

Next == Adopter \/ Worker \/ Environment

Spec == Init /\ [][Next]_vars

(* Both keep working; AWS may answer with any of several matches.          *)
FairSpec == Spec /\ WF_vars(Adopter) /\ WF_vars(Worker)

---------------------------------------------------------------------------
(* A managed CR names one target or policy and no other, even if the user  *)
(* gave fewer keys and several matched: no later Describe is ambiguous.    *)
IdentityComplete == managed => IsComplete(spec)

(* Adoption honours every key that the user wrote, in the AdoptedResource, *)
(* the annotation or the spec, unless users acted while it was under way.  *)
AdoptsWhatWasNamed ==
  [][\A w \in Workers \ dirty :
       (pc[w] = "store" /\ pc'[w] # "store" /\ ~managed /\ managed') =>
         LET want == IF w = "worker" THEN Overlay(spec, given) ELSE given
         IN  \A k \in DOMAIN want : want[k] # Nil => spec'[k] = want[k]]_vars

(* The deletion of an adopted CR deletes in AWS what the CR names, however *)
(* many others would have matched the request it was adopted with.         *)
DeletesOnlyAdopted ==
  [][pc' # pc => \A i \in aws \ aws' : managed /\ i = spec]_vars

(* What is named in full and exists ends up adopted, in spite of lost      *)
(* answers, crashes and of being deleted and asked for again.              *)
AdoptionCompletes ==
  <>[](given \in aws =>
         /\ asked = "AdoptedResource" => reported
         /\ asked = "annotation" /\ phase = "live" => managed)
===========================================================================
