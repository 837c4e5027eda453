-------------------------- MODULE MCSharedTarget ---------------------------
(* Instances of SharedTarget for TLC.                                      *)
EXTENDS SharedTarget, TLC

CONSTANTS a,  \* the identity both CRs name
          svc \* the service-linked role

Wish(n) == [id |-> a, cap |-> n, role |-> Nil, ref |-> Nil, susp |-> Nil]

(* The two CRs disagree.                                                   *)
Wishes1 == {Wish(1)}
Wishes2 == {Wish(2)}

Still == [c \in ClockNames |-> 0]

(* Two actions of users, or one and a fault.                               *)
UserBudgets == {[user |-> 2, foreign |-> 0, fault |-> 0],
                [user |-> 1, foreign |-> 0, fault |-> 1]}
===========================================================================
