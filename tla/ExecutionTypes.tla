--------------------------- MODULE ExecutionTypes ---------------------------
(***************************************************************************)
(* Constants shared by the modules of the execution layer (L5).            *)
(*                                                                         *)
(* An Order is one order key.  execute() ends every key with eight hex     *)
(* digits of a fresh uuid4, so an Order is also one run of the execute()   *)
(* coroutine, and no two runs ever share a lock, a lease or a client order *)
(* id.  An Instance is the instance_id of one gateway: it survives a       *)
(* restart of the process (and a second call of run() inside it).          *)
(***************************************************************************)
CONSTANTS
  Order,
  Instance,
  Nobody,     \* the runner of an order no gateway has picked up
  Faults      \* which environment failures this model lets happen

(***************************************************************************)
(* "db"    a statement on the execution path raises                        *)
(* "log"   an INSERT into execution_log raises (transition swallows it)    *)
(* "redis" a Redis command raises                                          *)
(* "net"   a broker call raises although it took effect, or never answers  *)
(* "stall" an instance is late enough for a lease it renews to run out     *)
(***************************************************************************)
FaultKinds == {"db", "log", "redis", "net", "stall"}

ASSUME TypesAssumption ==
  /\ Nobody \notin Instance
  /\ Faults \subseteq FaultKinds

(***************************************************************************)
(* OrderState: the values of execution_log.state that the code writes, and *)
(* OrderState.is_terminal.                                                 *)
(***************************************************************************)
OrderState ==
  { "signal_received", "risk_approved", "risk_rejected",
    "kill_switch_blocked", "broker_ack", "partially_filled", "filled",
    "fill_timeout", "cancelled", "dead_letter" }

IsTerminal(state) ==
  state \in { "filled", "cancelled", "dead_letter",
              "risk_rejected", "kill_switch_blocked" }

=============================================================================
