---------------------------- MODULE MCAgentHost -----------------------------
(* AgentHost on small instances for TLC. *)
EXTENDS AgentHost, TLC

Body(dedup, key, priority, replaceable) ==
    [valid |-> TRUE, deduplication_key |-> dedup, aggregation_key |-> key,
     priority |-> priority, replaceable |-> replaceable]

Garbage == [Body("d1", "k1", "Normal", FALSE) EXCEPT !.valid = FALSE]

\* An invalid message, two that share a deduplication key (one of them
\* replaceable), one in a bucket of its own and a critical one.
MixedPayloads == {Garbage,
                  Body("d1", "k1", "Normal", TRUE),
                  Body("d1", "k1", "Normal", FALSE),
                  Body("d2", "k1", "Important", FALSE),
                  Body("d2", "k1", "Critical", FALSE)}

\* An invalid message, a replaceable one, and one that competes with it for
\* the only bucket.
FewPayloads == {Garbage,
                Body("d1", "k1", "Normal", TRUE),
                Body("d2", "k1", "Important", FALSE)}

\* Two values of one replaceable state.
StatePayloads == {Body("d1", "k1", "Important", TRUE),
                  Body("d2", "k1", "Important", TRUE)}

Interchangeable == Permutations(Workers)
=============================================================================
