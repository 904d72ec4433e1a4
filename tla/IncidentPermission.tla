--------------------------- MODULE IncidentPermission ---------------------------
(***************************************************************************)
(* What an incident and its permissions go through, whoever does it: the   *)
(* abstract specification of GrantLifecycle, without caches, queues, calls *)
(* and crashes.                                                            *)
(*                                                                         *)
(*  - An incident is held (by the operator's finalizer) before any role is *)
(*    bound for it, and offered to the scout only while it is held.        *)
(*  - Once held it cannot be deleted without being released, but by force. *)
(*  - What is bound for an incident is taken back only if the incident is  *)
(*    done, or was, or if its name had been used before: by name is how    *)
(*    bindings are found.                                                  *)
(***************************************************************************)
EXTENDS Integers

CONSTANTS Incidents, Roles

VARIABLES
    lives,      \* how many incidents were raised under each name
    stage,      \* "none", "raised", "held" or "dying"
    duty,       \* whose turn it is: "new", "queued", "scout" or "closed"
    worn,       \* the incident was closed once
    granted,    \* roles bound for the incident
    left        \* roles bound under its name for an incident that is gone

vars == <<lives, stage, duty, worn, granted, left>>
names == <<lives, stage, granted, left>>
bindings == <<granted, left>>

Set(f, i, v) == f' = [f EXCEPT ![i] = v]

Init ==
    /\ lives = [i \in Incidents |-> 0]
    /\ stage = [i \in Incidents |-> "none"]
    /\ duty = [i \in Incidents |-> "new"]
    /\ worn = [i \in Incidents |-> FALSE]
    /\ granted = [i \in Incidents |-> {}]
    /\ left = [i \in Incidents |-> {}]

Raise(i) ==
    /\ stage[i] = "none"
    /\ Set(lives, i, lives[i] + 1)
    /\ Set(stage, i, "raised")
    /\ UNCHANGED <<duty, worn, bindings>>

Hold(i) ==
    /\ stage[i] = "raised" /\ duty[i] = "new"
    /\ Set(stage, i, "held")
    /\ UNCHANGED <<lives, duty, worn, bindings>>

\* For an incident that is held: perhaps deleted or closed by now, but not gone.
Grant(i, r) ==
    /\ stage[i] \in {"held", "dying"}
    /\ r \notin granted[i] \cup left[i]
    /\ Set(granted, i, granted[i] \cup {r})
    /\ UNCHANGED <<lives, stage, duty, worn, left>>

\* For one that is gone.
GrantLate(i, r) ==
    /\ IF stage[i] = "none" THEN lives[i] > 0 ELSE lives[i] > 1
    /\ r \notin granted[i] \cup left[i]
    /\ Set(left, i, left[i] \cup {r})
    /\ UNCHANGED <<lives, stage, duty, worn, granted>>

\* The operator hands over, or gives up.
Dispatch(i) ==
    /\ stage[i] = "held" /\ duty[i] = "new"
    /\ \/ Set(duty, i, "queued") /\ UNCHANGED worn
       \/ Set(duty, i, "closed") /\ Set(worn, i, TRUE)
    /\ UNCHANGED names

\* The scout writes what it likes, whenever it likes.
Work(i) ==
    /\ stage[i] # "none"
    /\ \/ Set(duty, i, "scout") /\ UNCHANGED worn
       \/ Set(duty, i, "closed") /\ Set(worn, i, TRUE)
    /\ UNCHANGED names

\* MayRevoke: the incident needs the role no more, or no name is safe.
MayRevoke(i) == stage[i] = "dying" \/ duty[i] = "closed" \/ worn[i] \/ lives[i] > 1

Revoke(i, r) ==
    /\ \/ r \in granted[i] /\ MayRevoke(i)
       \/ r \in left[i]
    /\ Set(granted, i, granted[i] \ {r})
    /\ Set(left, i, left[i] \ {r})
    /\ UNCHANGED <<lives, stage, duty, worn>>

\* A user deletes an incident that is held.
Delete(i) ==
    /\ stage[i] = "held"
    /\ Set(stage, i, "dying")
    /\ UNCHANGED <<lives, duty, worn, bindings>>

\* It goes: never held, released, or by force.
Vanish(i) ==
    /\ stage[i] # "none"
    /\ Set(stage, i, "none")
    /\ Set(duty, i, "new")
    /\ Set(worn, i, FALSE)
    /\ Set(granted, i, {})
    /\ Set(left, i, left[i] \cup granted[i])
    /\ UNCHANGED lives

Next ==
    \E i \in Incidents :
        \/ Raise(i) \/ Hold(i) \/ Dispatch(i) \/ Work(i) \/ Delete(i) \/ Vanish(i)
        \/ \E r \in Roles : Grant(i, r) \/ GrantLate(i, r) \/ Revoke(i, r)

Spec == Init /\ [][Next]_vars
=============================================================================
