----------------------------- MODULE TokenBucket -----------------------------
(***************************************************************************)
(* What the rate limiter promises: every identity has one bucket that      *)
(* holds at most Cap, gains one unit per tick and pays Cost for a request  *)
(* that is let through; a request is turned away exactly when its bucket   *)
(* holds less than Cost.  A limiter that is switched off lets all through. *)
(***************************************************************************)
EXTENDS Integers

CONSTANTS Identity, Call, Cap, Cost, None

VARIABLES limited,  \* the limiter is switched on
          level,    \* what the bucket of an identity holds
          verdict   \* the answer a call has, None while it has none

bucketVars == <<limited, level, verdict>>

Init ==
  /\ limited \in BOOLEAN
  /\ level = [i \in Identity |-> Cap]
  /\ verdict = [c \in Call |-> None]

Pass(c) ==
  /\ verdict[c] = None
  /\ ~limited
  /\ verdict' = [verdict EXCEPT ![c] = TRUE]
  /\ UNCHANGED <<limited, level>>

Grant(c, i) ==
  /\ limited /\ level[i] >= Cost
  /\ level' = [level EXCEPT ![i] = @ - Cost]
  /\ verdict' = [verdict EXCEPT ![c] = TRUE]
  /\ UNCHANGED limited

Refuse(c, i) ==
  /\ limited /\ level[i] < Cost
  /\ verdict' = [verdict EXCEPT ![c] = FALSE]
  /\ UNCHANGED <<limited, level>>

Return(c) ==
  /\ verdict[c] # None
  /\ verdict' = [verdict EXCEPT ![c] = None]
  /\ UNCHANGED <<limited, level>>

Fill ==
  /\ level' = [i \in Identity |-> IF level[i] < Cap THEN level[i] + 1 ELSE Cap]
  /\ UNCHANGED <<limited, verdict>>

Next ==
  \/ \E c \in Call : \/ Pass(c) \/ Return(c)
                     \/ \E i \in Identity : Grant(c, i) \/ Refuse(c, i)
  \/ Fill

Spec == Init /\ [][Next]_bucketVars
==============================================================================
