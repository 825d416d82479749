------------------------------ MODULE EpochLog ------------------------------
(***************************************************************************)
(* What a continuous stream promises between its source and its            *)
(* destination: rows become durable, positions are certified only over     *)
(* durable rows and never regress, and the source is told to forget only   *)
(* what is certified.                                                      *)
(***************************************************************************)
EXTENDS Integers

CONSTANTS Domains, MaxPosition

VARIABLES certified, durable, acked

logVars == <<certified, durable, acked>>

Position == [Domains -> 0..MaxPosition]

AtMost(p, q) == \A d \in Domains : p[d] <= q[d]

Covered(p, rows) == \A d \in Domains : \A i \in 1..p[d] : <<d, i>> \in rows

Init ==
    /\ certified = [d \in Domains |-> 0]
    /\ durable = {}
    /\ acked = [d \in Domains |-> 0]

\* The destination keeps rows for good, certified or not.
Deliver ==
    /\ durable' \subseteq Domains \X (1..MaxPosition)
    /\ durable \subseteq durable'
    /\ UNCHANGED <<certified, acked>>

Certify ==
    /\ certified' \in Position
    /\ AtMost(certified, certified')
    /\ Covered(certified', durable)
    /\ UNCHANGED <<durable, acked>>

Acknowledge ==
    /\ acked' \in Position
    /\ AtMost(acked, acked')
    /\ AtMost(acked', certified)
    /\ UNCHANGED <<certified, durable>>

Next == Deliver \/ Certify \/ Acknowledge

Spec == Init /\ [][Next]_logVars
=============================================================================
