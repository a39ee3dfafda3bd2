---------------------------- MODULE EventParser -----------------------------
(***************************************************************************)
(* parse_event of notify-agent-core.  A payload is refused when it is      *)
(* empty, too large, or nested too deeply; then serde_json decodes it into *)
(* WireEvent, the required fields are demanded and the others given their  *)
(* defaults.                                                               *)
(*                                                                         *)
(* A payload is a sequence of bytes, each with the role JSON's grammar     *)
(* gives it; depth_exceeds sees the bytes only.  What serde_json makes of  *)
(* it is given beside it: a field is "absent" (missing or null), "blank",  *)
(* a text, or of a wrong "type".                                           *)
(***************************************************************************)
EXTENDS Integers, Sequences, SequencesExt, FiniteSetsExt

CONSTANTS Inputs,            \* byte sequences with what they decode to
          MAX_PAYLOAD_BYTES,
          MAX_JSON_DEPTH

ASSUME LimitsAssumption == MAX_PAYLOAD_BYTES \in Nat /\ MAX_JSON_DEPTH \in Nat

(* The lexical grammar of JSON (RFC 8259): which bytes can have a role, and *)
(* which roles follow one another.  Every sequence of bytes has roles that *)
(* fit, also one that is cut off within a string or is no JSON for other   *)
(* reasons.                                                                *)
Outside == {"structure", "begin"}             \* where no string is open
Inside == {"char", "escape", "end"}           \* within one

Fits(x) ==
    CASE x.role \in {"begin", "end"} -> x.byte = "quote"
      [] x.role = "escape" -> x.byte = "backslash"
      [] x.role = "char" -> x.byte \notin {"quote", "backslash"}
      [] x.role = "structure" -> x.byte # "quote"
      [] OTHER -> x.role = "escaped"

Follows(r) ==
    CASE r \in {"begin", "char", "escaped"} -> Inside
      [] r = "escape" -> {"escaped"}
      [] OTHER -> Outside

Lexed(text) ==
    \A i \in 1..Len(text) :
        /\ Fits(text[i])
        /\ text[i].role \in IF i = 1 THEN Outside ELSE Follows(text[i - 1].role)

ASSUME InputsAssumption ==
    \A input \in Inputs : input.payload \in Seq(Range(input.payload)) /\ Lexed(input.payload)

VARIABLES payload, wire,     \* the input
          stage,             \* how far parse_event is
          pos, depth, in_string, escaped,   \* depth_exceeds
          result             \* what it returned

vars == <<payload, wire, stage, pos, depth, in_string, escaped, result>>

Init ==
    /\ \E input \in Inputs : payload = input.payload /\ wire = input.wire
    /\ stage = "size"
    /\ pos = 0
    /\ depth = 0
    /\ in_string = FALSE
    /\ escaped = FALSE
    /\ result = [kind |-> "none"]

Err(reason) == [kind |-> "Err", reason |-> reason]

Finish(r) == stage' = "done" /\ result' = r

-----------------------------------------------------------------------------
(* The size of the payload.                                                *)
CheckSize ==
    /\ stage = "size"
    /\ CASE Len(payload) = 0 -> Finish(Err("Empty"))
         [] Len(payload) > MAX_PAYLOAD_BYTES -> Finish(Err("TooLarge"))
         [] OTHER -> stage' = "scan" /\ UNCHANGED result
    /\ UNCHANGED <<payload, wire, pos, depth, in_string, escaped>>

\* Mutated form of Escapes: a backslash after a backslash escapes as well.
EscapesAlways(b) == b = "backslash"

Escapes(b) == ~escaped /\ b = "backslash"

(* depth_exceeds, one byte: inside a string only its end matters, ...      *)
ScanInString ==
    /\ stage = "scan"
    /\ pos < Len(payload)
    /\ in_string
    /\ LET b == payload[pos + 1].byte
       IN  /\ escaped' = Escapes(b)
           /\ in_string' = (escaped \/ b # "quote")
    /\ pos' = pos + 1
    /\ UNCHANGED <<payload, wire, stage, depth, result>>

TooDeep(d) == d > MAX_JSON_DEPTH

(* depth.saturating_sub(1).                                                *)
Closed(d) == Max({d - 1, 0})

(* ... outside, a bracket.                                                 *)
ScanOutside ==
    /\ stage = "scan"
    /\ pos < Len(payload)
    /\ ~in_string
    /\ LET b == payload[pos + 1].byte
       IN  /\ in_string' = (b = "quote")
           /\ depth' = CASE b = "open" -> depth + 1
                         [] b = "close" -> Closed(depth)
                         [] OTHER -> depth
    /\ pos' = pos + 1
    /\ IF TooDeep(depth')
       THEN Finish(Err("TooDeep"))
       ELSE UNCHANGED <<stage, result>>
    /\ UNCHANGED <<payload, wire, escaped>>

ScanEnds ==
    /\ stage = "scan"
    /\ pos = Len(payload)
    /\ stage' = "decode"
    /\ UNCHANGED <<payload, wire, pos, depth, in_string, escaped, result>>

-----------------------------------------------------------------------------
(* serde_json::from_slice: a field of a wrong type fails the whole event,  *)
(* wherever it is.                                                         *)
Decodes(w) == \A f \in DOMAIN w : w[f] # "type"

NonBlank(v) == v \notin {"absent", "blank"}

\* Mutated form of OrElse: a blank value is taken as it is.
OrElseBlank(v, default) == IF v # "absent" THEN v ELSE default

(* non_blank(v).unwrap_or(default).                                        *)
OrElse(v, default) == IF NonBlank(v) THEN v ELSE default

(* str::to_lowercase, then the three names; anything else is Normal.       *)
PriorityOf(v) ==
    CASE v \in {"critical", "CRITICAL"} -> "Critical"
      [] v \in {"important", "Important"} -> "Important"
      [] OTHER -> "Normal"

(* parse_image: a missing, blank or unacceptable url yields no image.      *)
ImageOf(v) == IF v = "https" THEN "image" ELSE "no image"

(* The fields that must be there, in the order they are demanded.          *)
Required == <<"event_id", "user_id", "title", "message">>

Missing(w) == {i \in 1..Len(Required) : ~NonBlank(w[Required[i]])}

(* The fields passed on as they are, are left out.                         *)
Notification(w) ==
    [kind |-> "Ok",
     event_id |-> w.event_id,
     aggregation_key |-> OrElse(w.aggregation_key, OrElse(w.notification_type, "unknown")),
     deduplication_key |-> OrElse(w.deduplication_key, w.event_id),
     priority |-> PriorityOf(w.priority),
     image |-> ImageOf(w.image)]

Decoded(w) ==
    CASE ~Decodes(w) -> Err("Json")
      [] Decodes(w) /\ Missing(w) # {} -> Err(Required[Min(Missing(w))])
      [] OTHER -> Notification(w)

Decode ==
    /\ stage = "decode"
    /\ Finish(Decoded(wire))
    /\ UNCHANGED <<payload, wire, pos, depth, in_string, escaped>>

Next == CheckSize \/ ScanInString \/ ScanOutside \/ ScanEnds \/ Decode

Spec == Init /\ [][Next]_vars

-----------------------------------------------------------------------------
(* Properties *)

(* How deep JSON says a payload is nested after i bytes: by its structure, *)
(* so that a bracket in a string does not count, however it is escaped.    *)
Count(bracket, i) ==
    Cardinality({j \in 1..i : payload[j].role = "structure" /\ payload[j].byte = bracket})
Level(i) == Count("open", i) - Count("close", i)
NestedTooDeeply == \E i \in 1..Len(payload) : Level(i) > MAX_JSON_DEPTH

(* No bracket is closed that was not opened, as in every JSON text.        *)
Bracketed == \A i \in 1..Len(payload) : Level(i) >= 0

(* depth_exceeds, which looks at bytes before anything is parsed, refuses  *)
(* exactly the texts that are nested deeper than MAX_JSON_DEPTH: no string *)
(* content and no escape hides a level or adds one; and whatever bracket   *)
(* is out of place hides none.                                             *)
DepthVerdict ==
    stage \in {"decode", "done"} /\ result \notin {Err("Empty"), Err("TooLarge")} =>
        /\ NestedTooDeeply => result = Err("TooDeep")
        /\ Bracketed /\ result = Err("TooDeep") => NestedTooDeeply

(* An accepted event has keys to work with, whatever optional fields are   *)
(* missing or blank: unrelated events never meet in one bucket, and never  *)
(* suppress each other, under an empty name.                               *)
AcceptedHasKeys ==
    result.kind = "Ok" =>
        /\ NonBlank(result.event_id)
        /\ NonBlank(result.aggregation_key)
        /\ NonBlank(result.deduplication_key)
=============================================================================
