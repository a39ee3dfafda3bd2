--------------------------- MODULE MCEventParser ----------------------------
(* EventParser on small instances for TLC. *)
EXTENDS EventParser

\* Tokens as labelled bytes: brackets, a string that looks like one, and strings
\* that end in an escaped quote or an escaped backslash.
Unit(role, byte) == <<[role |-> role, byte |-> byte]>>
Bracket(b) == Unit("structure", b)
Char(b) == Unit("char", b)
Escaped(b) == Unit("escape", "backslash") \o Unit("escaped", b)
String(content) == Unit("begin", "quote") \o content \o Unit("end", "quote")

Tokens == {Bracket("open"), Bracket("close"), Bracket("backslash"),
           String(Char("open")), String(Char("close")),
           String(Char("open") \o Escaped("quote")),
           String(Escaped("backslash")),
           String(Escaped("backslash") \o Escaped("quote") \o Char("open"))}

\* What up to 4 of them make, whole or cut off.
Texts == {FlattenSeq(ts) : ts \in BoundedSeq(Tokens, 4)}
CutOff == {Front(t) : t \in Texts \ {<<>>}}

Text == Bracket("open") \o Bracket("close")

Complete == [event_id |-> "e1", user_id |-> "u1", title |-> "t", message |-> "m",
             notification_type |-> "n", aggregation_key |-> "k",
             deduplication_key |-> "d", priority |-> "critical",
             image |-> "https"]

\* Every combination of the fields that defaults depend on, and of failures.
Field == {"absent", "blank", "type"}
Events ==
    [event_id : Field \cup {"e1"}, user_id : {"u1", "absent"}, title : {"t", "blank"},
     message : {"m", "absent"}, notification_type : Field \cup {"n"},
     aggregation_key : Field \cup {"k"}, deduplication_key : Field \cup {"d"},
     priority : {"critical", "CRITICAL", "Important", "low", "absent"},
     image : Field \cup {"https", "http"}]

\* Texts of one event, and events of one text: the scan sees only the text,
\* the decoding only the event.
AllInputs == [payload : Texts \cup CutOff, wire : {Complete}] \cup [payload : {Text}, wire : Events]
=============================================================================
