---------------------------- MODULE MCDlqReplay ----------------------------
(***************************************************************************)
(* Small instances of DlqReplay for TLC.                                    *)
(***************************************************************************)
EXTENDS DlqReplay, TLC

CONSTANTS k1, k2, x1, j1, j2, j3, p1, p2, w1, s1, s2, o1, o2

\* Two malformed events: two deliveries and two replays of the first one, and one
\* delivery of the second, whose replay never gets through to the queue.
TwoKeysJobKey == (j1 :> k1) @@ (j2 :> k1) @@ (j3 :> k2) @@ (p1 :> k1) @@ (p2 :> k1)
TwoKeysShipment == [j \in {j1, j2, j3, p1, p2} |-> x1]
\* One malformed event, and two replays of it.
OneKeyJobKey == [j \in {j1, p1, p2} |-> k1]
OneKeyShipment == [j \in {j1, p1, p2} |-> x1]

OneHost == [s \in {s1, s2} |-> w1]
OneError == {[code |-> "ECONNREFUSED", timeoutName |-> FALSE, words |-> {}]}

\* Operators are alike, and so are slots, and the deliveries
\* and the replays of the first event.
Alike ==
  Permutations({j1, j2}) \cup Permutations({p1, p2}) \cup Permutations({o1, o2}) \cup Permutations({s1, s2})

=============================================================================
