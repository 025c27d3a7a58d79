---------------------------- MODULE MCMonitoring ----------------------------
(* Monitoring on a few activities of one month.  The reader asks for anything,    *)
(* the other request exports the report of another month.                         *)
EXTENDS Monitoring, TLC

CONSTANTS reader, exporter, june, july

OneMonth == [a \in Activities |-> june]

TwoTasks == [r \in Requests |-> IF r = reader THEN Kinds ELSE {"export"}]

TwoMonths == [r \in Requests |-> IF r = reader THEN june ELSE july]

ActivitySymmetry == Permutations(Activities)
=============================================================================
