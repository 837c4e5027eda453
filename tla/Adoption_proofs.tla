--------------------------- MODULE Adoption_proofs -------------------------
(* Proofs about Adoption, for any values of keys, identities, requests and *)
(* bounds.                                                                 *)
EXTENDS Adoption, TLAPS

(* What the steps of either reconciler know of the identity they hold: one *)
(* that is to be stored was found in AWS, and one that is to be deleted is *)
(* that of the CR, which nobody else touches while it is being deleted.    *)
CopyInv ==
  /\ copy = [w \in Workers |-> copy[w]]
  /\ pc["adopter"] \in {"idle", "adopt", "store", "report"}
  /\ pc["worker"] # "report"
  /\ \A w \in Workers : pc[w] = "store" => copy[w] \in Identities
  /\ phase = "deleting" => managed
  /\ managed => phase # "absent" /\ spec \in Identities
  /\ pc["worker"] \in {"find", "delete", "release"} =>
       phase = "deleting" /\ copy["worker"] = spec

(* The keys that the user gave to the adoption under way at w.             *)
Wanted(w) == IF w = "worker" THEN Overlay(spec, given) ELSE given

Honours(id, want) == /\ DOMAIN id = DOMAIN want
                     /\ \A k \in DOMAIN want : want[k] # Nil => id[k] = want[k]

(* As long as no user acts, what is being adopted honours them.            *)
WantInv ==
  \A w \in Workers \ dirty : pc[w] \in {"adopt", "store"} =>
    /\ Honours(copy[w], Wanted(w))
    /\ w = "worker" => phase = "live"

IInv == TypeOK /\ CopyInv /\ WantInv

---------------------------------------------------------------------------
(* Identities.                                                             *)

(* What exists in AWS is complete, and so no absence of an identity.       *)
LEMMA IdentitiesComplete ==
  ASSUME NEW id \in Identities
  PROVE  /\ IsComplete(id) /\ id # Nil
         /\ id = [k \in DOMAIN id |-> id[k]]
<1>1. id \in Names(Values)
  BY AdoptionAssumption
<1>2. id \in [Keys -> Values] \/ id \in [Keys \ {"policyName"} -> Values]
  BY <1>1 DEF Names
<1>3. \A k \in DOMAIN id : id[k] \in Values
  BY <1>2
<1>4. id \in Names(Values \cup {Nil})
  BY <1>2 DEF Names
<1> QED
  BY <1>2, <1>3, <1>4, AdoptionAssumption DEF IsComplete

(* An identity whose keys are all left out is still an identity.           *)
LEMMA UnnamedNotNil ==
  ASSUME NEW id \in Requests
  PROVE  Unnamed(id) # Nil
<1>1. id \in [Keys -> Values \cup {Nil}]
        \/ id \in [Keys \ {"policyName"} -> Values \cup {Nil}]
  BY AdoptionAssumption DEF Names
<1>2. DOMAIN id = Keys \/ DOMAIN id = Keys \ {"policyName"}
  BY <1>1
<1>3. Unnamed(id) \in Names(Values \cup {Nil})
  BY <1>2 DEF Unnamed, Names
<1> QED
  BY <1>3, AdoptionAssumption

(* AWS answers with what exists and agrees with each key that was sent.    *)
LEMMA FoundMatches ==
  ASSUME NEW id, NEW i \in Found(id)
  PROVE  /\ i \in aws /\ DOMAIN i = DOMAIN id
         /\ \A k \in DOMAIN id : id[k] # Nil => i[k] = id[k]
BY DEF Found, Answer, ListRequest

(* Of what honours the user's keys, the answer honours them too.           *)
LEMMA FoundHonours ==
  ASSUME NEW id, NEW want, Honours(id, want), NEW i \in Found(id)
  PROVE  Honours(i, want)
BY FoundMatches DEF Honours

(* To a complete request there is one answer.                              *)
LEMMA FoundComplete ==
  ASSUME NEW id \in Identities, aws \subseteq Identities, NEW i \in Found(id)
  PROVE  i = id
<1>1. i \in Identities /\ DOMAIN i = DOMAIN id
  BY FoundMatches
<1>2. \A k \in DOMAIN id : i[k] = id[k]
  BY FoundMatches, IdentitiesComplete DEF IsComplete
<1>3. /\ i = [k \in DOMAIN i |-> i[k]]
      /\ id = [k \in DOMAIN id |-> id[k]]
  BY <1>1, IdentitiesComplete
<1> QED
  BY <1>1, <1>2, <1>3

---------------------------------------------------------------------------
(* Parts of TypeOK and of the steps.                                       *)

Bounds == left \in [user : 0 .. MaxUser, foreign : 0 .. MaxForeign,
                    fault : 0 .. MaxFaults]

LEMMA SpendBounds ==
  ASSUME Bounds, NEW k \in {"user", "foreign", "fault"}, Spend(k)
  PROVE  Bounds'
BY AdoptionAssumption DEF Bounds, Spend

WorkOK == /\ pc \in [Workers -> Steps]
          /\ copy = [w \in Workers |-> copy[w]]
          /\ \A w \in Workers : copy[w] = Nil <=> pc[w] = "idle"

(* A worker's step leaves the other's progress alone.                      *)
LEMMA GoToWork ==
  ASSUME WorkOK, NEW w \in Workers, NEW step \in Steps, NEW id,
         GoTo(w, step, id), id = Nil <=> step = "idle"
  PROVE  /\ WorkOK'
         /\ pc'[w] = step /\ copy'[w] = id
         /\ \A v \in Workers \ {w} : pc'[v] = pc[v] /\ copy'[v] = copy[v]
<1>1. /\ pc' \in [Workers -> Steps]
      /\ pc'[w] = step
      /\ \A v \in Workers \ {w} : pc'[v] = pc[v]
  BY DEF WorkOK, GoTo
<1>2. /\ copy' = [v \in Workers |-> copy'[v]]
      /\ copy'[w] = id
      /\ \A v \in Workers \ {w} : copy'[v] = copy[v]
  BY DEF WorkOK, GoTo
<1> QED
  BY <1>1, <1>2 DEF WorkOK

(* An interruption sends workers to idle.                                  *)
LEMMA InterruptedWork ==
  ASSUME WorkOK, Interrupted
  PROVE  /\ WorkOK'
         /\ \A w \in Workers : \/ pc'[w] = "idle"
                               \/ pc'[w] = pc[w] /\ copy'[w] = copy[w]
<1>1. PICK lost \in SUBSET {w \in Workers : pc[w] # "idle"} :
        /\ pc' = [w \in Workers |-> IF w \in lost THEN "idle" ELSE pc[w]]
        /\ copy' = [w \in Workers |-> IF w \in lost THEN Nil ELSE copy[w]]
  BY DEF Interrupted
<1>2. pc' \in [Workers -> Steps]
  BY <1>1 DEF WorkOK, Steps
<1>3. copy' = [w \in Workers |-> copy'[w]]
  BY <1>1
<1> QED
  BY <1>1, <1>2, <1>3 DEF WorkOK

---------------------------------------------------------------------------
(* Everything of TypeOK that is not about the progress of the workers.     *)
WorldOK ==
  /\ aws \subseteq Identities
  /\ asked \in {"nothing", "AdoptedResource", "annotation"}
  /\ given \in Requests \cup {Nil}
  /\ asked # "nothing" => given # Nil
  /\ reported \in BOOLEAN /\ refused \in BOOLEAN
  /\ phase \in {"absent", "live", "deleting"}
  /\ managed \in BOOLEAN /\ adopted = managed
  /\ spec = Nil <=> phase = "absent"
  /\ dirty \subseteq Workers

LEMMA TypeParts ==
  /\ TypeOK /\ CopyInv => WorldOK /\ WorkOK /\ Bounds
  /\ WorldOK /\ WorkOK /\ Bounds => TypeOK
BY DEF TypeOK, CopyInv, WorldOK, WorkOK, Bounds

(* Every step preserves the types: what is stored in the CR or held by a   *)
(* worker is an identity, because it is taken from an answer of AWS.       *)
LEMMA NextType ==
  ASSUME TypeOK, CopyInv, Next
  PROVE  WorldOK' /\ WorkOK' /\ Bounds'
<1> USE TypeParts DEF WorldOK, Workers
<1>1. CASE AskByResource
  BY <1>1, SpendBounds, AdoptionAssumption DEF AskByResource, crVars, WorkOK
<1>2. CASE AskByAnnotation
  <2>1. given' \in Requests /\ Nil \notin Requests
    BY <1>2, AdoptionAssumption DEF AskByAnnotation
  <2>2. spec' # Nil
    BY <1>2, <2>1, IdentitiesComplete, UnnamedNotNil DEF AskByAnnotation
  <2> QED
    BY <1>2, <2>1, <2>2, SpendBounds DEF AskByAnnotation, WorkOK
<1>3. CASE Withdraw
  BY <1>3, SpendBounds DEF Withdraw, crVars, WorkOK
<1>4. CASE UserDelete
  BY <1>4, SpendBounds DEF UserDelete, AskedAfterCR, WorkOK
<1>5. CASE Appear \/ Vanish
  BY <1>5, SpendBounds DEF Appear, Vanish, askVars, crVars, workVars, WorkOK
<1>6. CASE Interrupted
  BY <1>6, SpendBounds, InterruptedWork
  DEF Interrupted, askVars, crVars
<1>7. CASE BeginResource
  <2>1. PICK id : id # Nil /\ Begin("adopter", "adopt", id)
    BY <1>7 DEF BeginResource
  <2>2. WorkOK'
    BY <2>1, GoToWork DEF Begin, Steps
  <2> QED
    BY <1>7, <2>1, <2>2 DEF BeginResource, Begin, askVars, crVars, Bounds
<1>8. CASE BeginAnnotation
  <2>1. WorkOK' /\ dirty' \subseteq Workers
    BY <1>8, GoToWork DEF BeginAnnotation, Begin, workVars, WorkOK, Steps
  <2> QED
    BY <1>8, <2>1 DEF BeginAnnotation, crVars, Bounds
<1>9. ASSUME NEW w \in Workers, Adopt(w)
      PROVE  WorldOK' /\ WorkOK' /\ Bounds'
  <2>1. PICK i \in Found(copy[w]) : GoTo(w, "store", i)
    BY <1>9 DEF Adopt
  <2>2. i # Nil
    BY <2>1, FoundMatches, IdentitiesComplete
  <2>3. WorkOK'
    BY <2>1, <2>2, GoToWork DEF Steps
  <2> QED
    BY <1>9, <2>3 DEF Adopt, askVars, crVars, Bounds
<1>10. ASSUME NEW w \in Workers, AdoptFails(w)
       PROVE  WorldOK' /\ WorkOK' /\ Bounds'
  <2>1. WorkOK'
    BY <1>10, GoToWork DEF AdoptFails, Steps
  <2> QED
    BY <1>10, <2>1 DEF AdoptFails, askVars, crVars, Bounds
<1>11. CASE CreateCR
  <2>1. copy["adopter"] # Nil
    BY <1>11 DEF CreateCR, WorkOK
  <2>2. WorkOK'
    BY <1>11, <2>1, GoToWork DEF CreateCR, Steps
  <2>3. managed' \in BOOLEAN /\ adopted' = managed'
    BY <1>11, ZenonT(30) DEF CreateCR, MarkedAs, crVars
  <2>4. (spec' = Nil <=> phase' = "absent") /\ phase' \in {phase, "live"}
    BY <1>11, <2>1 DEF CreateCR, MarkedAs, crVars
  <2> QED
    BY <1>11, <2>2, <2>3, <2>4 DEF CreateCR, askVars, Bounds
<1>12. CASE Report
  <2>1. WorkOK'
    BY <1>12, GoToWork DEF Report, Steps
  <2> QED
    BY <1>12, <2>1 DEF Report, crVars, Bounds
<1>13. CASE PatchCR
  <2>1. copy["worker"] # Nil
    BY <1>13 DEF PatchCR, WorkOK
  <2>2. WorkOK'
    BY <1>13, GoToWork DEF PatchCR, Steps
  <2>3. managed' \in BOOLEAN /\ adopted' = managed'
    BY <1>13, ZenonT(30) DEF PatchCR, MarkedAs
  <2>4. spec' = Nil <=> phase' = "absent"
    BY <1>13, <2>1 DEF PatchCR, MarkedAs
  <2> QED
    BY <1>13, <2>2, <2>3, <2>4 DEF PatchCR, askVars, Bounds
<1>14. CASE BeginDelete
  <2>1. WorkOK'
    BY <1>14, GoToWork DEF BeginDelete, Begin, Steps
  <2> QED
    BY <1>14, <2>1 DEF BeginDelete, Begin, askVars, crVars, Bounds
<1>15. CASE Find
  <2>1. copy["worker"] # Nil
    BY <1>15 DEF Find, WorkOK
  <2>2. \A i \in Found(copy["worker"]) : i # Nil
    BY FoundMatches, IdentitiesComplete
  <2>3. WorkOK'
    BY <1>15, <2>1, <2>2, GoToWork DEF Find, Steps
  <2> QED
    BY <1>15, <2>3 DEF Find, askVars, crVars, Bounds
<1>16. CASE Delete
  <2>1. copy["worker"] # Nil
    BY <1>16 DEF Delete, WorkOK
  <2>2. WorkOK'
    BY <1>16, <2>1, GoToWork DEF Delete, Steps
  <2> QED
    BY <1>16, <2>2 DEF Delete, askVars, crVars, Bounds
<1>17. CASE Release
  <2>1. WorkOK'
    BY <1>17, GoToWork DEF Release, Steps
  <2> QED
    BY <1>17, <2>1 DEF Release, AskedAfterCR, Bounds
<1> QED
  BY <1>1, <1>2, <1>3, <1>4, <1>5, <1>6, <1>7, <1>8, <1>9, <1>10, <1>11,
     <1>12, <1>13, <1>14, <1>15, <1>16, <1>17
  DEF Next, Adopter, Worker, Environment

(* Every step preserves what the workers know of the identity they hold.   *)
LEMMA NextCopy ==
  ASSUME TypeOK, CopyInv, Next
  PROVE  CopyInv'
<1> USE TypeParts DEF Workers
<1>0. WorkOK' /\ copy' = [w \in Workers |-> copy'[w]]
  BY NextType DEF WorkOK
<1>1. CASE AskByResource \/ Withdraw \/ Appear \/ Vanish
  BY <1>1 DEF AskByResource, Withdraw, Appear, Vanish, askVars, crVars,
     workVars, CopyInv
<1>2. CASE AskByAnnotation
  BY <1>2 DEF AskByAnnotation, CopyInv
<1>3. CASE UserDelete
  BY <1>3, <1>0 DEF UserDelete, CopyInv
<1>4. CASE Interrupted
  BY <1>4, <1>0, InterruptedWork DEF Interrupted, askVars, crVars, CopyInv
<1>5. CASE BeginResource
  <2>1. PICK id : Begin("adopter", "adopt", id)
    BY <1>5 DEF BeginResource
  <2> QED
    BY <1>5, <1>0, <2>1 DEF BeginResource, Begin, crVars, CopyInv, GoTo, WorkOK
<1>6. CASE BeginAnnotation
  <2>1. CASE UNCHANGED workVars
    BY <1>6, <2>1 DEF BeginAnnotation, workVars, crVars, CopyInv
  <2>2. CASE \E id : Begin("worker", "adopt", id)
    BY <1>6, <1>0, <2>2
    DEF BeginAnnotation, Begin, crVars, CopyInv, GoTo, WorkOK
  <2> QED
    BY <1>6, <2>1, <2>2 DEF BeginAnnotation
<1>7. ASSUME NEW w \in Workers, Adopt(w)
      PROVE  CopyInv'
  <2>1. PICK i \in Found(copy[w]) : GoTo(w, "store", i)
    BY <1>7 DEF Adopt
  <2>2. i \in Identities
    BY <2>1, FoundMatches DEF TypeOK
  <2> QED
    BY <1>7, <1>0, <2>1, <2>2 DEF Adopt, crVars, CopyInv, GoTo, WorkOK
<1>8. ASSUME NEW w \in Workers, AdoptFails(w)
      PROVE  CopyInv'
  BY <1>8, <1>0 DEF AdoptFails, crVars, CopyInv, GoTo, WorkOK
<1>9. CASE CreateCR
  BY <1>9, <1>0 DEF CreateCR, MarkedAs, crVars, CopyInv, GoTo, WorkOK
<1>10. CASE Report
  BY <1>10, <1>0 DEF Report, crVars, CopyInv, GoTo, WorkOK
<1>11. CASE PatchCR
  BY <1>11, <1>0 DEF PatchCR, MarkedAs, CopyInv, GoTo, WorkOK
<1>12. CASE BeginDelete
  BY <1>12, <1>0 DEF BeginDelete, Begin, crVars, CopyInv, GoTo, WorkOK
<1>13. CASE Find
  <2>1. managed /\ phase = "deleting" /\ copy["worker"] = spec
    BY <1>13 DEF Find, CopyInv
  <2>2. \A i \in Found(copy["worker"]) : i = spec
    BY <2>1, FoundComplete DEF CopyInv, TypeOK
  <2> QED
    BY <1>13, <1>0, <2>1, <2>2 DEF Find, crVars, CopyInv, GoTo, WorkOK
<1>14. CASE Delete
  BY <1>14, <1>0 DEF Delete, crVars, CopyInv, GoTo, WorkOK
<1>15. CASE Release
  BY <1>15, <1>0 DEF Release, CopyInv, GoTo, WorkOK
<1> QED
  BY <1>1, <1>2, <1>3, <1>4, <1>5, <1>6, <1>7, <1>8, <1>9, <1>10, <1>11,
     <1>12, <1>13, <1>14, <1>15
  DEF Next, Adopter, Worker, Environment

(* Every step preserves that what is being adopted honours the user's keys.*)
LEMMA NextWant ==
  ASSUME TypeOK, CopyInv, WantInv, Next
  PROVE  WantInv'
<1> USE TypeParts DEF Workers
<1>0. WorkOK'
  BY NextType
<1>1. CASE AskByResource \/ AskByAnnotation \/ Withdraw \/ UserDelete
  BY <1>1 DEF AskByResource, AskByAnnotation, Withdraw, UserDelete, WantInv
<1>2. CASE Appear \/ Vanish
  BY <1>2 DEF Appear, Vanish, askVars, crVars, workVars, WantInv, Wanted, Overlay
<1>3. CASE Interrupted
  BY <1>3, InterruptedWork
  DEF Interrupted, askVars, crVars, WantInv, Wanted, Overlay
<1>4. CASE BeginResource
  <2> DEFINE id == SetIdentifiers(Unnamed(given), given)
  <2>1. id # Nil /\ GoTo("adopter", "adopt", id) /\ dirty' = dirty \ {"adopter"}
    BY <1>4 DEF BeginResource, Begin
  <2>2. Honours(id, given)
    BY <2>1 DEF SetIdentifiers, Overlay, Unnamed, Honours
  <2>3. /\ copy'["adopter"] = id
        /\ pc'["worker"] = pc["worker"] /\ copy'["worker"] = copy["worker"]
    BY <2>1, GoToWork DEF Steps
  <2> QED
    BY <1>4, <2>1, <2>2, <2>3
    DEF BeginResource, askVars, crVars, WantInv, Wanted, Overlay
<1>5. CASE BeginAnnotation
  <2>1. CASE UNCHANGED workVars
    BY <1>5, <2>1
    DEF BeginAnnotation, workVars, crVars, WantInv, Wanted, Overlay
  <2>2. CASE ~UNCHANGED workVars
    <3> DEFINE id == PopulateResourceFromAnnotation(spec, given)
    <3>1. id # Nil /\ GoTo("worker", "adopt", id) /\ dirty' = dirty \ {"worker"}
      BY <1>5, <2>2 DEF BeginAnnotation, Begin
    <3>2. id = Overlay(spec, given)
      BY <3>1 DEF PopulateResourceFromAnnotation
    <3>3. Honours(id, Overlay(spec, given))
      BY <3>2 DEF Honours
    <3>4. /\ copy'["worker"] = id
          /\ pc'["adopter"] = pc["adopter"] /\ copy'["adopter"] = copy["adopter"]
      BY <3>1, GoToWork DEF Steps
    <3>5. spec' = spec /\ given' = given /\ phase' = "live"
      BY <1>5 DEF BeginAnnotation, crVars
    <3> QED
      BY <3>1, <3>3, <3>4, <3>5 DEF WantInv, Wanted, Overlay
  <2> QED
    BY <2>1, <2>2
<1>6. ASSUME NEW w \in Workers, Adopt(w)
      PROVE  WantInv'
  <2>1. PICK i \in Found(copy[w]) : GoTo(w, "store", i)
    BY <1>6 DEF Adopt
  <2>2. /\ copy'[w] = i /\ pc[w] = "adopt"
        /\ \A v \in Workers \ {w} : pc'[v] = pc[v] /\ copy'[v] = copy[v]
    BY <1>6, <2>1, GoToWork, FoundMatches, IdentitiesComplete
    DEF Adopt, Steps, TypeOK
  <2>3. Honours(copy[w], Wanted(w)) => Honours(i, Wanted(w))
    BY <2>1, FoundHonours
  <2>4. Wanted(w)' = Wanted(w) /\ phase' = phase /\ dirty' = dirty
    BY <1>6 DEF Adopt, askVars, crVars, Wanted, Overlay
  <2> QED
    BY <1>6, <2>2, <2>3, <2>4 DEF Adopt, askVars, crVars, WantInv, Wanted, Overlay
<1>7. ASSUME NEW w \in Workers, AdoptFails(w)
      PROVE  WantInv'
  BY <1>7, GoToWork DEF AdoptFails, Steps, askVars, crVars, WantInv, Wanted, Overlay
<1>8. CASE CreateCR
  <2>1. CASE phase = "absent"
    BY <1>8, <2>1, <1>0 DEF CreateCR, askVars, WantInv, GoTo, WorkOK
  <2>2. CASE phase # "absent"
    BY <1>8, <2>2, <1>0
    DEF CreateCR, askVars, crVars, WantInv, Wanted, Overlay, GoTo, WorkOK
  <2> QED
    BY <2>1, <2>2
<1>9. CASE Report
  BY <1>9, <1>0 DEF Report, crVars, WantInv, Wanted, Overlay, GoTo, WorkOK
<1>10. CASE PatchCR
  BY <1>10, <1>0 DEF PatchCR, askVars, WantInv, Wanted, GoTo, WorkOK
<1>11. CASE BeginDelete \/ Find
  BY <1>11, <1>0 DEF BeginDelete, Find, Begin, askVars, crVars, WantInv,
     Wanted, Overlay, GoTo, WorkOK
<1>12. CASE Delete \/ Release
  BY <1>12, <1>0
  DEF Delete, Release, askVars, WantInv, Wanted, GoTo, WorkOK
<1> QED
  BY <1>1, <1>2, <1>3, <1>4, <1>5, <1>6, <1>7, <1>8, <1>9, <1>10, <1>11, <1>12
  DEF Next, Adopter, Worker, Environment

---------------------------------------------------------------------------
(* The theorems.                                                           *)
LEMMA IInvAlways == Spec => []IInv
<1>1. Init => IInv
  <2> SUFFICES ASSUME Init
               PROVE  IInv
    OBVIOUS
  <2>1. /\ aws \subseteq Identities
        /\ pc = [w \in Workers |-> "idle"]
        /\ copy = [w \in Workers |-> Nil]
        /\ managed = FALSE /\ adopted = FALSE
    BY DEF Init
  <2>2. Bounds
    BY AdoptionAssumption DEF Init, Bounds
  <2>3. WorkOK
    BY <2>1 DEF WorkOK, Steps
  <2>4. TypeOK
    BY <2>1, <2>2, <2>3 DEF Init, TypeOK, Bounds, WorkOK
  <2>5. CopyInv
    BY <2>1 DEF Init, CopyInv, Workers
  <2>6. WantInv
    BY <2>1 DEF WantInv
  <2> QED
    BY <2>4, <2>5, <2>6 DEF IInv
<1>2. IInv /\ [Next]_vars => IInv'
  <2> SUFFICES ASSUME IInv, [Next]_vars
               PROVE  IInv'
    OBVIOUS
  <2>1. CASE Next
    <3>1. CopyInv' /\ WantInv'
      BY <2>1, NextCopy, NextWant DEF IInv
    <3>2. WorldOK' /\ WorkOK' /\ Bounds'
      BY <2>1, NextType DEF IInv
    <3>3. TypeOK'
      BY <3>2 DEF TypeOK, WorldOK, WorkOK, Bounds
    <3> QED
      BY <3>1, <3>3 DEF IInv
  <2>2. CASE UNCHANGED vars
    BY <2>2 DEF vars, askVars, crVars, workVars, IInv, TypeOK, CopyInv, WantInv,
       Wanted, Overlay
  <2> QED
    BY <2>1, <2>2
<1> QED
  BY <1>1, <1>2, PTL DEF Spec

(* Every variable of both forms of adoption stays in its type.             *)
THEOREM TypeCorrect == Spec => []TypeOK
<1>1. IInv => TypeOK
  BY DEF IInv
<1> QED
  BY <1>1, IInvAlways, PTL

(* A managed CR has every key of an identity, whichever the user gave:     *)
(* what sdkFind copies is an element of an answer.                         *)
THEOREM ManagedIsComplete == Spec => []IdentityComplete
<1>1. IInv => IdentityComplete
  BY IdentitiesComplete DEF IInv, CopyInv, IdentityComplete
<1> QED
  BY <1>1, IInvAlways, PTL

(* However many resources match the keys that the user gave, the one that  *)
(* is adopted agrees with each of them.                                    *)
THEOREM HonoursTheUser == Spec => AdoptsWhatWasNamed
<1>1. IInv /\ [Next]_vars =>
        [\A w \in Workers \ dirty :
           (pc[w] = "store" /\ pc'[w] # "store" /\ ~managed /\ managed') =>
             LET want == IF w = "worker" THEN Overlay(spec, given) ELSE given
             IN  \A k \in DOMAIN want : want[k] # Nil => spec'[k] = want[k]]_vars
  <2> SUFFICES ASSUME IInv, Next, NEW w \in Workers \ dirty,
                      pc[w] = "store", pc'[w] # "store", ~managed, managed'
               PROVE  \A k \in DOMAIN Wanted(w) :
                        Wanted(w)[k] # Nil => spec'[k] = Wanted(w)[k]
    BY DEF Wanted
  <2>1. Honours(copy[w], Wanted(w))
    BY DEF IInv, WantInv
  <2>2. \/ w = "adopter" /\ CreateCR
        \/ w = "worker" /\ PatchCR
    <3>1. CreateCR \/ PatchCR
      BY DEF Next, Adopter, Worker, Environment, AskByResource,
         AskByAnnotation, Withdraw, UserDelete, Appear, Vanish, Interrupted,
         BeginResource, BeginAnnotation, Adopt, AdoptFails, Report,
         BeginDelete, Find, Delete, Release, crVars
    <3>2. WorkOK
      BY TypeParts DEF IInv
    <3> QED
      BY <3>1, <3>2 DEF CreateCR, PatchCR, GoTo, Workers, WorkOK
  <2>3. spec' = copy[w]
    BY <2>2 DEF CreateCR, PatchCR, MarkedAs, crVars
  <2> QED
    BY <2>1, <2>3 DEF Honours
<1> QED
  BY <1>1, IInvAlways, PTL DEF Spec, AdoptsWhatWasNamed

(* The deletion of an adopted CR deletes what the CR names and no other.   *)
THEOREM DeletesItsOwn == Spec => DeletesOnlyAdopted
<1>1. IInv /\ [Next]_vars =>
        [pc' # pc => \A i \in aws \ aws' : managed /\ i = spec]_vars
  <2> SUFFICES ASSUME IInv, Next, pc' # pc, NEW i \in aws \ aws'
               PROVE  managed /\ i = spec
    OBVIOUS
  <2>1. Delete
    BY DEF Next, Adopter, Worker, Environment, AskByResource,
       AskByAnnotation, Withdraw, UserDelete, Appear, Vanish, Interrupted,
       BeginResource, BeginAnnotation, Adopt, AdoptFails, Report, CreateCR,
       PatchCR, BeginDelete, Find, Release, workVars
  <2>2. managed /\ copy["worker"] = spec
    BY <2>1 DEF Delete, IInv, CopyInv
  <2> QED
    BY <2>1, <2>2 DEF Delete
<1> QED
  BY <1>1, IInvAlways, PTL DEF Spec, DeletesOnlyAdopted
===========================================================================
