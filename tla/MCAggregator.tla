---------------------------- MODULE MCAggregator ----------------------------
(* Aggregator on a small instance for TLC. *)
EXTENDS Aggregator

Body(key, priority, replaceable) ==
    [aggregation_key |-> key, priority |-> priority, replaceable |-> replaceable]

\* Two kinds of event of one key, one of a second key, a critical one.
MixedPayloads == {Body("k1", "Normal", TRUE), Body("k1", "Normal", FALSE),
                  Body("k1", "Important", FALSE), Body("k1", "Critical", FALSE)}

\* Values of one replaceable state.
StatePayloads == {Body("k1", "Normal", TRUE)}
=============================================================================
