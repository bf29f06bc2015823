--------------------------- MODULE MCEventWorker ---------------------------
(***************************************************************************)
(* Small instances of EventWorker for TLC.                                  *)
(***************************************************************************)
EXTENDS EventWorkerClaims, TLC

CONSTANTS k1, x1, j1, j2, j3, w1, s1, s2

\* Three deliveries of one event, the last of them with a malformed payload.
OneKeyJobKey == [j \in {j1, j2, j3} |-> k1]
\* Two deliveries of one event.
TwiceJobKey == [j \in {j1, j2} |-> k1]
TwiceShipment == [j \in {j1, j2} |-> x1]
\* Three deliveries about the same shipment.
OneShipment == [j \in {j1, j2, j3} |-> x1]

\* One worker process with two slots.
OneHost == [s \in {s1, s2} |-> w1]

\* A refused connection.
OneError == {[code |-> "ECONNREFUSED", timeoutName |-> FALSE, words |-> {}]}

\* The two well-formed deliveries are alike, and so are slots of one process.
Alike == Permutations({j1, j2}) \cup Permutations({s1, s2})

=============================================================================
