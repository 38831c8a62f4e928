----------------------------- MODULE MCGateway ------------------------------
(***************************************************************************)
(* The gateway for TLC, with the parser that its handlers call on every    *)
(* line.  A behaviour either starts with some line, on which the parser is *)
(* tried, or with none, and then the gateway runs.  Packets have two       *)
(* fields here, of which the first holds one digit and the second two.     *)
(***************************************************************************)
EXTENDS Gateway, Protocol

VARIABLE line

Widths == [i \in 0 .. 1 |-> IF i = 0 THEN 1 ELSE 11]
Characters == {1, Comma, Space, Other}

MCInit == Init /\ line \in Lines
MCNext == line = <<>> /\ Next /\ UNCHANGED line
MCSpec == MCInit /\ [][MCNext]_<<vars, line>> /\ Fairness

\* ParseCSV accepts exactly the lines of the wire format, with the values written in
\* them: its two indices never merge, skip or split a field, a missing, empty, malformed
\* or too large field is an error wherever it stands, and so is a field too many.
ParserMatchesFormat == Agrees(line)
=============================================================================
