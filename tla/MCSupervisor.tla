----------------------------- MODULE MCSupervisor -----------------------------
(* Two configs for TLC: one without a limit, one that allows two restarts.     *)
EXTENDS Supervisor

CONSTANTS unbounded, limited

MCVersion == {unbounded, limited}
MCMaxRestarts == [v \in MCVersion |-> IF v = limited THEN 2 ELSE 0]
=============================================================================
