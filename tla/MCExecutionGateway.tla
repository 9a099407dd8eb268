-------------------------- MODULE MCExecutionGateway ------------------------
(***************************************************************************)
(* Model values for TLC.  The configurations choose orders, instances,     *)
(* adapter, failures and bounds.                                           *)
(***************************************************************************)
EXTENDS ExecutionGateway, TLC

CONSTANTS o1, i1, i2, nobody

OneOrder == {o1}
OneInstance == {i1}
TwoInstances == {i1, i2}

NoFault == {}
DatabaseFault == {"db"}
BrokerFault == {"net"}
RedisFault == {"redis"}
DatabaseAndBrokerFaults == {"db", "net"}

(* Nothing tells the two instances apart but their names. *)
Swaps == Permutations(TwoInstances)

=============================================================================
