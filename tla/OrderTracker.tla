---------------------------- MODULE OrderTracker ----------------------------
(***************************************************************************)
(* atlas/agents/l5_execution/order_tracker.py: the Redis lease and         *)
(* ownership keys of an order and the execution_log table.  The lock key   *)
(* is written, expired and deleted with the lease and nothing reads it     *)
(* again, and of the processed set only an error of its SADD has effects:  *)
(* is_processed asks it about keys that are fresh.                         *)
(***************************************************************************)
EXTENDS ExecutionTypes, Naturals, Sequences

VARIABLES
  lease,      \* execution:lease:<key>: absent, more than 10 s left, 10 s or less
  owned,      \* orders whose ownership record names a gateway that may run
  log         \* execution_log rows of an order, in order of insertion

trackerVars == <<lease, owned, log>>

LeaseState == {"none", "live", "ending"}

TrackerTypeOK ==
  /\ lease \in [Order -> LeaseState]
  /\ owned \in SUBSET Order
  /\ log \in [Order -> Seq(OrderState)]

TrackerInit ==
  /\ lease = [o \in Order |-> "none"]
  /\ owned = {}
  /\ log = [o \in Order |-> << >>]

InLog(o, state) == \E n \in 1..Len(log[o]) : log[o][n] = state

ReachedTerminal(o) == \E n \in 1..Len(log[o]) : IsTerminal(log[o][n])

(***************************************************************************)
(* acquire_lock: the lock is granted (the key is fresh).  The lease is set *)
(* and then the ownership record; an exception in either is swallowed.     *)
(***************************************************************************)
AcquireLock(o) ==
  \/ /\ lease' = [lease EXCEPT ![o] = "live"]
     /\ owned' = owned \cup {o}
  \/ /\ "redis" \in Faults
     /\ lease' \in {lease, [lease EXCEPT ![o] = "live"]}
     /\ owned' = owned

(* release_lock deletes lock and lease, never the ownership record. *)
ReleaseLock(o) ==
  \/ lease' = [lease EXCEPT ![o] = "none"]
  \/ "redis" \in Faults /\ lease' = lease

(* renew_lease by the instance that set the lease: the TTL is 30 s again. *)
RenewLease(o) ==
  /\ lease[o] # "none"
  /\ lease' = [lease EXCEPT ![o] = "live"]

(***************************************************************************)
(* transition: the INSERT (its failure is logged and swallowed), then, for *)
(* a terminal state, the SADD, whose failure reaches the caller.           *)
(***************************************************************************)
WriteExecutionLog(o, state) ==
  \/ log' = [log EXCEPT ![o] = Append(@, state)]
  \/ "log" \in Faults /\ log' = log

Transition(o, state) == WriteExecutionLog(o, state)

TransitionRaises(o, state) ==
  /\ "redis" \in Faults
  /\ IsTerminal(state)
  /\ WriteExecutionLog(o, state)

(***************************************************************************)
(* get_lost_orders: this instance's ownership records whose lease key is   *)
(* gone.  An order that ended normally has lost its lease to release_lock  *)
(* and keeps its ownership record, so it is "lost" too.                    *)
(***************************************************************************)
LostOrders(mine) == {o \in owned \cap mine : lease[o] = "none"}

=============================================================================
