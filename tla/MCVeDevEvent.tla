---------------------------- MODULE MCVeDevEvent ----------------------------
(* The filter tables and callback lists of the runs.                        *)
EXTENDS VeDevEvent, TLC

CONSTANTS d1, d2, n1, n2

\* Callbacks for one valuator of a device's vectors and for the other device.
TwoCallbacks == <<[name |-> n1, index |-> TRUE], [name |-> n2, index |-> FALSE]>>

\* A filter for one valuator of a device's vectors, which may return anything
\* but DISCARD, and one for all events.
ValuatorFirst ==
    <<[name |-> n1, index |-> TRUE, results |-> Status \ {"DISCARD"}],
      [name |-> AnyName, index |-> FALSE, results |-> Status]>>

\* Callbacks and filters for one device.
OneCallback == <<[name |-> n1, index |-> FALSE]>>
OneFilter == <<[name |-> n1, index |-> FALSE, results |-> {"CONTINUE", "DISCARD"}]>>

Drivers == Permutations({d1, d2})
=============================================================================
