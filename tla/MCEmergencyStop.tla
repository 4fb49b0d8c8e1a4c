--------------------------- MODULE MCEmergencyStop ---------------------------
(* Model values and limits for the runs of EmergencyStop.                   *)
EXTENDS EmergencyStop

CONSTANTS a, b, stop1, clear1, cost1, x, y

MCProcess == {a, b}
MCServing == {b}
MCSpending == {a}
MCStopper == {stop1}
MCClearer == {clear1}
MCWatch == {cost1}
MCRow == {x, y}
=============================================================================
