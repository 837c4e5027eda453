------------------------- MODULE FinalizerProtocol -------------------------
(* What the finalizer promises: a custom resource that controls something  *)
(* in AWS carries the finalizer, AWS is changed on its behalf only while   *)
(* it does, and it disappears only when nothing made for it is left.       *)
CONSTANTS Ids  \* identities of AWS resources

VARIABLES phase,    \* the custom resource: "absent", "live" or "deleting"
          managed,  \* it carries the finalizer
          made      \* what the controller made for it and still exists

protocolVars == <<phase, managed, made>>

Init == phase = "absent" /\ managed = FALSE /\ made = {}

CreateCR == /\ phase = "absent"
            /\ phase' = "live"
            /\ UNCHANGED <<managed, made>>

DeleteCR == /\ phase = "live"
            /\ phase' = IF managed THEN "deleting" ELSE "absent"
            /\ UNCHANGED <<managed, made>>

MarkManaged == /\ phase = "live"
               /\ managed' = TRUE
               /\ UNCHANGED <<phase, made>>

Make(i) == /\ managed
           /\ made' = made \cup {i}
           /\ UNCHANGED <<phase, managed>>

Unmake(i) == /\ made' = made \ {i}
             /\ UNCHANGED <<phase, managed>>

MarkUnmanaged == /\ phase = "deleting"
                 /\ made = {}
                 /\ phase' = "absent"
                 /\ managed' = FALSE
                 /\ UNCHANGED made

Next == \/ CreateCR \/ DeleteCR \/ MarkManaged \/ MarkUnmanaged
        \/ \E i \in Ids : Make(i) \/ Unmake(i)

Spec == Init /\ [][Next]_protocolVars
============================================================================
