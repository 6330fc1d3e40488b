--------------------------- MODULE MCMonitoredTurn ---------------------------
(* MonitoredTurn on one chunk of one file and one turn of session history. *)
EXTENDS MonitoredTurn, TLC

CONSTANTS a1, h1, A, H

MCIds == {a1, h1}
MCSources == {A, H}
MCSourceOf == a1 :> A @@ h1 :> H

MCOneId == {a1}
MCOneSourceOf == a1 :> A

MCMaxCalls == [c \in Components |-> 2]
MCNoCalls == [c \in Components |-> 0]

=============================================================================
