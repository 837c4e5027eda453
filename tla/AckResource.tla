--------------------------- MODULE AckResource ----------------------------
(* What the two resource managers have in common: a Go pointer is a value  *)
(* or Nil, a CR has a spec and a status with conditions and two times, and *)
(* the status is written with JSON merge patches.                          *)
EXTENDS Integers

CONSTANTS Nil,       \* the nil pointer
          MaxInt32,  \* stands for math.MaxInt32
          MaxTime    \* bound on either clock

Opt(S) == S \cup {Nil}
Times == Nat

(* AWS dates what it creates by its clock, the controller what it modifies *)
(* by its own, and nothing relates the two.  Of the controller's clock a   *)
(* stamp says when it was read, not what it showed: it may be set back, or *)
(* be another one after a restart.                                         *)
ClockNames == {"aws", "controller"}
Clocks == [ClockNames -> Times]
Epoch == [c \in ClockNames |-> 0]
Stamps == [by : ClockNames, at : Times]
Stamp(clocks, c) == [by |-> c, at |-> clocks[c]]

(* Not earlier by the same clock, nor from a modification to a creation.   *)
Supersedes(new, old) ==
  \/ new = old
  \/ /\ new.by = "aws" => old.by = "aws"
     /\ new.by = old.by => new.at >= old.at

ConditionStatus == Opt({"True", "False"})

Conditions == [terminal : ConditionStatus, recoverable : ConditionStatus,
               synced : ConditionStatus, late : ConditionStatus]

NoConditions == [terminal |-> Nil, recoverable |-> Nil, synced |-> Nil,
                 late |-> Nil]

(* math.MinInt32 .. math.MaxInt32                                          *)
FitsInt32(n) == n <= MaxInt32 /\ n >= -MaxInt32 - 1

ASSUME AckAssumption ==
  /\ MaxInt32 \in Nat
  /\ MaxTime \in [ClockNames -> Nat]
  /\ Nil \notin Int \cup BOOLEAN \cup {"True", "False"}
               \cup {"error", "notfound", "requeue", "terminal"} \cup Stamps

\* the nil check dropped
AlwaysCreationTime(st) == [st EXCEPT !.lmt = [by |-> "aws", at |-> st.ctime]]

CustomSetLastModifiedTimeToCreationTime(st) ==
  IF st.ctime # Nil /\ st.lmt = Nil
  THEN [st EXCEPT !.lmt = [by |-> "aws", at |-> st.ctime]] ELSE st

(* err is Nil, "error", "notfound", "requeue" or "terminal".               *)
UpdateConditions(c, err) ==
  IF err = "terminal" THEN [c EXCEPT !.terminal = "True"]
  ELSE [c EXCEPT !.terminal = IF @ = Nil THEN Nil ELSE "False",
                 !.recoverable = IF err # Nil THEN "True"
                                 ELSE IF @ = Nil THEN Nil ELSE "False"]

OnError(r, err) == [r EXCEPT !.status.conds = UpdateConditions(@, err)]
OnSuccess(r) == [r EXCEPT !.status.conds = UpdateConditions(@, Nil)]

\* every reconcile claims success
AlwaysSynced(c, err) == IF c.synced # Nil THEN c ELSE [c EXCEPT !.synced = "True"]

(* The Synced condition of a reconcile that ended with err and did not set *)
(* it: IsSynced is always true, so it says whether there was an error that *)
(* may go away.                                                            *)
EnsureSynced(c, err) ==
  IF c.synced # Nil THEN c
  ELSE [c EXCEPT !.synced = IF err \in {Nil, "terminal"} THEN "True" ELSE "False"]

(* A key is in the work queue now, waits in its timer for later, or both.  *)
Queues == SUBSET {"now", "later"}

(* What a reconcile that ended with e adds: the next resync, after an      *)
(* error the next try, and after a terminal error nothing.                 *)
Requeued(e) == IF e = "terminal" THEN {} ELSE IF e = Nil THEN {"later"} ELSE {"now"}

(* A JSON merge patch from one version of an object to another leaves the  *)
(* fields the two agree on as the API server has them.                     *)
MergePatch(stored, from, to) ==
  [f \in DOMAIN stored |-> IF from[f] = to[f] THEN stored[f] ELSE to[f]]
===========================================================================
