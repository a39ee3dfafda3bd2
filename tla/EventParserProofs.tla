------------------------- MODULE EventParserProofs --------------------------
(***************************************************************************)
(* Proofs about EventParser, for all payloads, whatever they decode to,    *)
(* and all limits: the scan's verdict on the depth of a text (ScanInv),    *)
(* and the keys of an accepted event.                                      *)
(***************************************************************************)
EXTENDS EventParser, FiniteSetTheorems, TLAPS

(* The flags of the scan say where JSON's grammar is after pos bytes.      *)
FlagsAgree ==
    /\ in_string <=> pos > 0 /\ payload[pos].role \notin {"structure", "end"}
    /\ escaped <=> pos > 0 /\ payload[pos].role = "escape"

(* depth counts at least the open levels, and exactly them as long as no   *)
(* bracket was closed that had not been opened.                            *)
DepthAgrees ==
    /\ Level(pos) <= depth
    /\ (\A i \in 1..pos : Level(i) >= 0) => depth = Level(pos)

(* No level beyond the limit was passed over.                              *)
PassedLevels == \A i \in 1..pos : Level(i) <= MAX_JSON_DEPTH

Verdict ==
    CASE stage = "size" -> pos = 0
      [] stage = "scan" -> PassedLevels
      [] stage = "decode" -> PassedLevels /\ pos = Len(payload)
      [] OTHER -> \/ result \in {Err("Empty"), Err("TooLarge")}
                  \/ result = Err("TooDeep") /\ depth > MAX_JSON_DEPTH
                  \/ result # Err("TooDeep") /\ PassedLevels /\ pos = Len(payload)

ScanTypes ==
    /\ stage \in {"size", "scan", "decode", "done"}
    /\ Len(payload) \in Nat
    /\ Lexed(payload)
    /\ pos \in 0..Len(payload)
    /\ depth \in Nat
    /\ in_string \in BOOLEAN
    /\ escaped \in BOOLEAN
    /\ stage # "done" => result = [kind |-> "none"]

ScanInv == ScanTypes /\ FlagsAgree /\ DepthAgrees /\ Verdict

(* An event comes out of Decoded only with every field that is required,   *)
(* and OrElse passes on no blank value (parser.rs, require and non_blank). *)
LEMMA NotificationHasKeys ==
    ASSUME NEW w, Decoded(w).kind = "Ok"
    PROVE  /\ NonBlank(Decoded(w).event_id)
           /\ NonBlank(Decoded(w).aggregation_key)
           /\ NonBlank(Decoded(w).deduplication_key)
  <1>1. \A reason : Err(reason).kind # "Ok"
    BY DEF Err
  <1>2. Decodes(w) /\ Missing(w) = {} /\ Decoded(w) = Notification(w)
    BY <1>1 DEF Decoded
  <1>3. NonBlank(w.event_id)
    <2>1. 1 \in 1..Len(Required) /\ Required[1] = "event_id"
      BY DEF Required
    <2>2. NonBlank(w[Required[1]])
      BY <1>2, <2>1 DEF Missing
    <2> QED BY <2>1, <2>2
  <1>4. \A v, default : NonBlank(default) => NonBlank(OrElse(v, default))
    BY DEF OrElse
  <1>5. NonBlank("unknown")
    BY DEF NonBlank
  <1> QED BY <1>2, <1>3, <1>4, <1>5 DEF Notification

(* An accepted event has an event id, an aggregation key and a             *)
(* deduplication key that are not blank, for every payload and whatever    *)
(* optional fields it lacks (parser.rs, parse_event).                      *)
THEOREM AcceptedEventHasKeys == Spec => []AcceptedHasKeys
  <1>1. Init => AcceptedHasKeys
    BY DEF Init, AcceptedHasKeys
  <1>2. AcceptedHasKeys /\ [Next]_vars => AcceptedHasKeys'
    <2> SUFFICES ASSUME AcceptedHasKeys, [Next]_vars PROVE AcceptedHasKeys'
      OBVIOUS
    <2>1. \A reason : Err(reason).kind # "Ok"
      BY DEF Err
    <2>2. CASE Decode
      <3>1. result' = Decoded(wire)
        BY <2>2 DEF Decode, Finish
      <3> QED BY <3>1, NotificationHasKeys DEF AcceptedHasKeys
    <2>3. CASE CheckSize \/ ScanInString \/ ScanOutside \/ ScanEnds \/ UNCHANGED vars
      <3>1. result' = result \/ \E reason : result' = Err(reason)
        BY <2>3 DEF CheckSize, ScanInString, ScanOutside, ScanEnds, Finish, vars
      <3> QED BY <2>1, <3>1 DEF AcceptedHasKeys
    <2> QED BY <2>2, <2>3 DEF Next
  <1> QED BY <1>1, <1>2, PTL DEF Spec

-----------------------------------------------------------------------------
(* How many brackets of a kind are among the first i + 1 bytes.            *)
LEMMA CountStep ==
    ASSUME NEW bracket, NEW i \in Nat
    PROVE  /\ Count(bracket, i) \in Nat
           /\ Count(bracket, i + 1) =
                IF payload[i + 1].role = "structure" /\ payload[i + 1].byte = bracket
                THEN Count(bracket, i) + 1 ELSE Count(bracket, i)
  <1> DEFINE S == {j \in 1..i : payload[j].role = "structure" /\ payload[j].byte = bracket}
             T == {j \in 1..(i + 1) : payload[j].role = "structure" /\ payload[j].byte = bracket}
             hit == payload[i + 1].role = "structure" /\ payload[i + 1].byte = bracket
  <1>1. IsFiniteSet(S)
    <2>1. IsFiniteSet(1..i)
      BY FS_Interval
    <2>2. S \subseteq 1..i
      OBVIOUS
    <2> HIDE DEF S
    <2> QED BY <2>1, <2>2, FS_Subset
  <1>2. i + 1 \notin S
    OBVIOUS
  <1>3. T = IF hit THEN S \cup {i + 1} ELSE S
    <2>1. \A j : j \in 1..(i + 1) <=> j \in 1..i \/ j = i + 1
      OBVIOUS
    <2> QED BY <2>1, Zenon
  <1>4. Cardinality(S) \in Nat
    <2> HIDE DEF S
    <2> QED BY <1>1, FS_CardinalityType
  <1>5. Cardinality(S \cup {i + 1}) = Cardinality(S) + 1
    <2> HIDE DEF S
    <2> QED BY <1>1, <1>2, FS_AddElement
  <1>6. Count(bracket, i) = Cardinality(S) /\ Count(bracket, i + 1) = Cardinality(T)
    BY DEF Count
  <1> HIDE DEF S, T
  <1> QED BY <1>3, <1>4, <1>5, <1>6

(* What one more byte does to the level: a bracket outside of strings      *)
(* changes it by one, nothing else does.                                   *)
LEMMA LevelStep ==
    ASSUME NEW i \in Nat
    PROVE  /\ Level(i) \in Int
           /\ payload[i + 1].role # "structure" => Level(i + 1) = Level(i)
           /\ payload[i + 1].role = "structure" =>
                Level(i + 1) = CASE payload[i + 1].byte = "open" -> Level(i) + 1
                                 [] payload[i + 1].byte = "close" -> Level(i) - 1
                                 [] OTHER -> Level(i)
  BY CountStep DEF Level

(* Nothing is open before the first byte.                                  *)
LEMMA LevelZero == Level(0) = 0
  <1>1. \A bracket : Count(bracket, 0) = 0
    <2> SUFFICES ASSUME NEW bracket PROVE Count(bracket, 0) = 0
      OBVIOUS
    <2>1. {j \in 1..0 : payload[j].role = "structure" /\ payload[j].byte = bracket} = {}
      OBVIOUS
    <2> QED BY <2>1, FS_EmptySet DEF Count
  <1> QED BY <1>1 DEF Level

(* saturating_sub, as the maximum the model writes it with.                *)
LEMMA ClosedIs ==
    ASSUME NEW d \in Nat
    PROVE  Closed(d) = IF d = 0 THEN 0 ELSE d - 1
  <1>1. \E m \in {d - 1, 0} : \A x \in {d - 1, 0} : m >= x
    BY Z3
  <1>2. \A m \in {d - 1, 0} :
            (\A x \in {d - 1, 0} : m >= x) => m = IF d = 0 THEN 0 ELSE d - 1
    OBVIOUS
  <1>3. Closed(d) \in {d - 1, 0} /\ \A x \in {d - 1, 0} : Closed(d) >= x
    BY <1>1 DEF Closed, Max
  <1> QED BY <1>2, <1>3

(* A field that is missing is reported by its name: no other error has it. *)
LEMMA DecodedIsNoScanError ==
    ASSUME NEW w
    PROVE  Decoded(w) \notin {Err("Empty"), Err("TooLarge"), Err("TooDeep")}
  <1> DEFINE N == Min(Missing(w))
  <1>1. ASSUME Missing(w) # {}
        PROVE  Required[N] \in {"event_id", "user_id", "title", "message"}
    <2>1. Missing(w) \subseteq 1..4
      BY DEF Missing, Required
    <2>2. \E m \in Missing(w) : \A x \in Missing(w) : m <= x
      <3>1. CASE 1 \in Missing(w)
        BY <2>1, <3>1
      <3>2. CASE 1 \notin Missing(w) /\ 2 \in Missing(w)
        BY <2>1, <3>2
      <3>3. CASE 1 \notin Missing(w) /\ 2 \notin Missing(w) /\ 3 \in Missing(w)
        BY <2>1, <3>3
      <3>4. CASE 1 \notin Missing(w) /\ 2 \notin Missing(w) /\ 3 \notin Missing(w)
        <4>1. Missing(w) = {4}
          BY <1>1, <2>1, <3>4
        <4> QED BY <4>1
      <3> QED BY <3>1, <3>2, <3>3, <3>4
    <2>3. N \in Missing(w)
      BY <2>2 DEF Min
    <2>4. N \in 1..4
      BY <2>1, <2>3
    <2> HIDE DEF N
    <2> QED BY <2>4 DEF Required
  <1>2. \A v : Notification(v).kind = "Ok"
    BY DEF Notification
  <1>3. CASE ~Decodes(w)
    BY <1>3 DEF Decoded, Err
  <1>4. CASE Decodes(w) /\ Missing(w) # {}
    <2>1. Decoded(w) = Err(Required[N])
      BY <1>4 DEF Decoded
    <2> HIDE DEF N
    <2> QED BY <1>1, <1>4, <2>1 DEF Err
  <1>5. CASE Decodes(w) /\ Missing(w) = {}
    <2>1. Decoded(w).kind = "Ok"
      BY <1>2, <1>5 DEF Decoded
    <2> QED BY <2>1 DEF Err
  <1> QED BY <1>3, <1>4, <1>5

(* The invariant on one byte, whatever the scan does with it: the flags    *)
(* follow the grammar when the step sets them as the roles say.            *)
LEMMA RoleAt ==
    ASSUME ScanTypes, FlagsAgree, pos < Len(payload)
    PROVE  /\ pos + 1 \in 1..Len(payload)
           /\ Fits(payload[pos + 1])
           /\ in_string => payload[pos + 1].role \in IF escaped THEN {"escaped"} ELSE Inside
           /\ ~in_string => payload[pos + 1].role \in Outside /\ ~escaped
  <1>1. pos + 1 \in 1..Len(payload) /\ pos \in Nat
    BY DEF ScanTypes
  <1>2. /\ Fits(payload[pos + 1])
        /\ payload[pos + 1].role \in IF pos + 1 = 1 THEN Outside
                                     ELSE Follows(payload[(pos + 1) - 1].role)
    BY <1>1 DEF ScanTypes, Lexed
  <1>3. CASE pos = 0
    BY <1>1, <1>2, <1>3 DEF FlagsAgree
  <1>4. CASE pos > 0
    <2>1. payload[pos + 1].role \in Follows(payload[pos].role)
      <3>1. (pos + 1) - 1 = pos /\ pos + 1 # 1
        BY <1>1, <1>4
      <3> QED BY <1>2, <3>1
    <2>2. Fits(payload[pos])
      <3>1. pos \in 1..Len(payload)
        BY <1>1, <1>4
      <3> QED BY <3>1 DEF ScanTypes, Lexed
    <2>3. payload[pos].role \in {"begin", "end", "escape", "char", "structure", "escaped"}
      BY <2>2 DEF Fits
    <2> QED BY <1>1, <1>2, <1>4, <2>1, <2>3 DEF FlagsAgree, Follows
  <1> QED BY <1>1, <1>3, <1>4

(* DepthAgrees and the levels read so far, after one more byte.            *)
LEMMA OneMoreByte ==
    ASSUME ScanTypes, DepthAgrees, PassedLevels, pos < Len(payload),
           payload' = payload, pos' = pos + 1, depth' \in Nat,
           Level(pos + 1) <= depth',
           depth = Level(pos) /\ Level(pos + 1) >= 0 => depth' = Level(pos + 1)
    PROVE  /\ DepthAgrees'
           /\ depth' <= MAX_JSON_DEPTH => PassedLevels'
  <1>1. pos \in Nat /\ pos' = pos + 1
    BY DEF ScanTypes
  <1>2. \A i : Level(i)' = Level(i)
    BY DEF Level, Count
  <1>3. Level(pos)' = Level(pos + 1)
    BY DEF Level, Count
  <1>4. \A i : i \in 1..(pos + 1) <=> i \in 1..pos \/ i = pos + 1
    BY <1>1
  <1>5. Level(pos + 1) \in Int
    BY <1>1, LevelStep
  <1>6. ASSUME depth' <= MAX_JSON_DEPTH
        PROVE  PassedLevels'
    <2>1. Level(pos + 1) <= MAX_JSON_DEPTH
      BY <1>5, <1>6, LimitsAssumption
    <2>2. \A i \in 1..(pos + 1) : Level(i) <= MAX_JSON_DEPTH
      BY <1>4, <2>1 DEF PassedLevels
    <2> QED BY <1>1, <1>2, <2>2 DEF PassedLevels
  <1>7. DepthAgrees'
    <2>1. (\A i \in 1..(pos + 1) : Level(i) >= 0) => depth' = Level(pos + 1)
      BY <1>4 DEF DepthAgrees
    <2> QED BY <1>1, <1>2, <1>3, <2>1 DEF DepthAgrees
  <1> QED BY <1>6, <1>7

(* One byte within a string: no level changes, and only its end leaves it. *)
LEMMA ScanInStringKeeps ==
    ASSUME ScanInv, ScanInString
    PROVE  ScanInv'
  <1> USE DEF ScanInv
  <1>1. /\ stage = "scan" /\ stage' = "scan" /\ in_string /\ pos < Len(payload)
        /\ payload' = payload /\ depth' = depth /\ result' = result /\ pos' = pos + 1
        /\ escaped' = Escapes(payload[pos + 1].byte)
        /\ in_string' = (escaped \/ payload[pos + 1].byte # "quote")
    BY DEF ScanInString
  <1>2. PassedLevels
    BY <1>1 DEF Verdict
  <1>3. /\ pos + 1 \in 1..Len(payload) /\ Fits(payload[pos + 1])
        /\ payload[pos + 1].role \in IF escaped THEN {"escaped"} ELSE Inside
    BY <1>1, RoleAt
  <1>4. payload[pos + 1].role # "structure"
    BY <1>3 DEF Inside
  <1>5. ScanTypes'
    <2>1. escaped' \in BOOLEAN /\ in_string' \in BOOLEAN
      BY <1>1 DEF Escapes, ScanTypes
    <2>2. pos' \in 0..Len(payload')
      BY <1>1, <1>3
    <2> QED BY <1>1, <2>1, <2>2 DEF ScanTypes
  <1>6. FlagsAgree'
    <2>1. pos' > 0 /\ payload'[pos'] = payload[pos + 1]
      BY <1>1, <1>3
    <2>2. CASE escaped
      BY <1>1, <1>3, <2>1, <2>2 DEF FlagsAgree, Escapes
    <2>3. CASE ~escaped
      BY <1>1, <1>3, <2>1, <2>3 DEF FlagsAgree, Escapes, Fits, Inside
    <2> QED BY <2>2, <2>3
  <1>7. DepthAgrees' /\ PassedLevels'
    <2>1. pos \in Nat /\ depth \in Nat /\ Level(pos) \in Int /\ Level(pos + 1) = Level(pos)
      BY <1>4, LevelStep DEF ScanTypes
    <2>2. Level(pos) <= depth /\ pos \in 1..pos
      BY <1>1, <2>1 DEF DepthAgrees, FlagsAgree
    <2>3. DepthAgrees' /\ (depth' <= MAX_JSON_DEPTH => PassedLevels')
      BY <1>1, <1>2, <2>1, <2>2, OneMoreByte
    <2>4. \A i : Level(i)' = Level(i)
      BY <1>1 DEF Level, Count
    <2>5. \A i \in 1..(pos + 1) : Level(i) <= MAX_JSON_DEPTH
      <3>1. \A i : i \in 1..(pos + 1) <=> i \in 1..pos \/ i = pos + 1
        BY <2>1
      <3> QED BY <1>2, <2>1, <2>2, <3>1 DEF PassedLevels
    <2>6. PassedLevels'
      BY <1>1, <2>4, <2>5 DEF PassedLevels
    <2> QED BY <2>3, <2>6
  <1> QED BY <1>1, <1>5, <1>6, <1>7 DEF Verdict

(* One byte outside of strings: a bracket moves depth with the level, and  *)
(* the scan goes on only within the limit.                                 *)
LEMMA ScanOutsideKeeps ==
    ASSUME ScanInv, ScanOutside
    PROVE  ScanInv'
  <1> USE DEF ScanInv
  <1> DEFINE b == payload[pos + 1].byte
  <1>1. /\ stage = "scan" /\ ~in_string /\ pos < Len(payload)
        /\ payload' = payload /\ escaped' = escaped /\ pos' = pos + 1
        /\ in_string' = (b = "quote")
        /\ depth' = CASE b = "open" -> depth + 1
                      [] b = "close" -> Closed(depth)
                      [] OTHER -> depth
        /\ \/ TooDeep(depth') /\ stage' = "done" /\ result' = Err("TooDeep")
           \/ ~TooDeep(depth') /\ stage' = stage /\ result' = result
    BY DEF ScanOutside, Finish
  <1>2. PassedLevels
    BY <1>1 DEF Verdict
  <1>3. /\ pos + 1 \in 1..Len(payload) /\ Fits(payload[pos + 1])
        /\ payload[pos + 1].role \in Outside /\ ~escaped
    BY <1>1, RoleAt
  <1>4. depth \in Nat /\ pos \in Nat /\ Closed(depth) = IF depth = 0 THEN 0 ELSE depth - 1
    BY ClosedIs DEF ScanTypes
  <1>5. depth' \in Nat
    BY <1>1, <1>4
  <1>6. ScanTypes'
    <2>1. in_string' \in BOOLEAN /\ escaped' \in BOOLEAN
      BY <1>1 DEF ScanTypes
    <2>2. pos' \in 0..Len(payload')
      BY <1>1, <1>3
    <2> QED BY <1>1, <1>5, <2>1, <2>2 DEF ScanTypes
  <1>7. FlagsAgree'
    <2>1. pos' > 0 /\ payload'[pos'] = payload[pos + 1]
      BY <1>1, <1>3
    <2> QED BY <1>1, <1>3, <2>1 DEF FlagsAgree, Fits, Outside
  <1>8. DepthAgrees' /\ (depth' <= MAX_JSON_DEPTH => PassedLevels')
    <2>1. Level(pos) \in Int /\ Level(pos) <= depth
      BY <1>4, LevelStep DEF DepthAgrees
    <2>2. payload[pos + 1].role # "structure" => b = "quote" /\ Level(pos + 1) = Level(pos)
      BY <1>3, <1>4, LevelStep DEF Fits, Outside
    <2>3. payload[pos + 1].role = "structure" =>
              Level(pos + 1) = CASE b = "open" -> Level(pos) + 1
                                 [] b = "close" -> Level(pos) - 1
                                 [] OTHER -> Level(pos)
      BY <1>4, LevelStep
    <2> HIDE DEF b
    <2>4. /\ Level(pos + 1) <= depth'
          /\ depth = Level(pos) /\ Level(pos + 1) >= 0 => depth' = Level(pos + 1)
      BY <1>1, <1>4, <2>1, <2>2, <2>3
    <2> QED BY <1>1, <1>2, <1>5, <2>4, OneMoreByte
  <1>9. Verdict'
    <2>1. CASE TooDeep(depth')
      BY <1>1, <2>1 DEF Verdict, TooDeep
    <2>2. CASE ~TooDeep(depth')
      <3>1. PassedLevels'
        BY <1>5, <1>8, <2>2, LimitsAssumption DEF TooDeep
      <3> QED BY <1>1, <2>2, <3>1 DEF Verdict
    <2> QED BY <2>1, <2>2
  <1> QED BY <1>6, <1>7, <1>8, <1>9

(* The other steps of parse_event read no byte.                            *)
LEMMA OthersKeep ==
    ASSUME ScanInv, CheckSize \/ ScanEnds \/ Decode \/ UNCHANGED vars
    PROVE  ScanInv'
  <1> USE DEF ScanInv
  <1>1. /\ payload' = payload /\ pos' = pos /\ depth' = depth
        /\ in_string' = in_string /\ escaped' = escaped
    BY DEF CheckSize, ScanEnds, Decode, vars
  <1>2. \A i : Level(i)' = Level(i)
    BY <1>1 DEF Level, Count
  <1>3. FlagsAgree' /\ (PassedLevels => PassedLevels')
    BY <1>1, <1>2 DEF FlagsAgree, PassedLevels
  <1>4. DepthAgrees'
    <2>1. Level(pos)' = Level(pos)
      BY <1>1 DEF Level, Count
    <2> QED BY <1>1, <1>2, <2>1 DEF DepthAgrees
  <1>5. CASE CheckSize
    <2>1. /\ stage = "size" /\ result = [kind |-> "none"]
          /\ \/ stage' = "done" /\ result' \in {Err("Empty"), Err("TooLarge")}
             \/ stage' = "scan" /\ result' = result
      BY <1>5 DEF CheckSize, Finish, ScanTypes
    <2>2. PassedLevels
      <3>1. pos = 0
        BY <2>1 DEF Verdict
      <3> QED BY <3>1 DEF PassedLevels
    <2> QED BY <1>1, <1>3, <1>4, <2>1, <2>2 DEF ScanTypes, Verdict
  <1>6. CASE ScanEnds
    BY <1>1, <1>3, <1>4, <1>6 DEF ScanEnds, ScanTypes, Verdict
  <1>7. CASE Decode
    <2>1. stage = "decode" /\ stage' = "done" /\ result' # Err("TooDeep")
      BY <1>7, DecodedIsNoScanError DEF Decode, Finish
    <2> QED BY <1>1, <1>3, <1>4, <2>1 DEF ScanTypes, Verdict
  <1>8. CASE UNCHANGED vars
    <2>1. stage' = stage /\ result' = result
      BY <1>8 DEF vars
    <2> QED BY <1>1, <1>3, <1>4, <2>1 DEF ScanTypes, Verdict
  <1> QED BY <1>5, <1>6, <1>7, <1>8

(* The scan's verdict is JSON's, for every payload and every limit: a text *)
(* nested deeper than MAX_JSON_DEPTH is always refused, and one whose      *)
(* brackets match is refused for its depth only then; no string content,   *)
(* escape or cut changes that (parser.rs, depth_exceeds).                  *)
THEOREM DepthVerdictIsJsons == Spec => []DepthVerdict
  <1>1. Init => ScanInv
    <2> SUFFICES ASSUME Init PROVE ScanInv
      OBVIOUS
    <2>1. PICK input \in Inputs : payload = input.payload
      BY DEF Init
    <2>2. Len(payload) \in Nat /\ Lexed(payload)
      <3>1. payload \in Seq(Range(payload)) /\ Lexed(payload)
        BY <2>1, InputsAssumption
      <3> QED BY <3>1
    <2>3. pos = 0 /\ depth = 0 /\ Level(pos) = 0
      BY LevelZero DEF Init
    <2>4. ScanTypes
      <3>1. pos \in 0..Len(payload) /\ depth \in Nat
        BY <2>2, <2>3
      <3>2. /\ stage = "size" /\ in_string = FALSE /\ escaped = FALSE
            /\ result = [kind |-> "none"]
        BY DEF Init
      <3> QED BY <2>2, <3>1, <3>2 DEF ScanTypes
    <2>5. FlagsAgree
      BY <2>3 DEF Init, FlagsAgree
    <2>6. DepthAgrees /\ Verdict
      BY <2>3 DEF Init, DepthAgrees, Verdict
    <2> QED BY <2>4, <2>5, <2>6 DEF ScanInv
  <1>2. ScanInv /\ [Next]_vars => ScanInv'
    BY ScanInStringKeeps, ScanOutsideKeeps, OthersKeep DEF Next
  <1>3. ScanInv => DepthVerdict
    <2> SUFFICES ASSUME ScanInv, stage \in {"decode", "done"},
                        result \notin {Err("Empty"), Err("TooLarge")}
                 PROVE  /\ NestedTooDeeply => result = Err("TooDeep")
                        /\ Bracketed /\ result = Err("TooDeep") => NestedTooDeeply
      BY DEF DepthVerdict
    <2>1. ASSUME PassedLevels, pos = Len(payload)
          PROVE  ~NestedTooDeeply
      <3>1. \A i \in 1..Len(payload) : Level(i) \in Int /\ Level(i) <= MAX_JSON_DEPTH
        BY <2>1, LevelStep DEF PassedLevels
      <3> QED BY <3>1, LimitsAssumption DEF NestedTooDeeply
    <2>2. CASE stage = "decode"
      <3>1. ~NestedTooDeeply
        BY <2>1, <2>2 DEF ScanInv, Verdict
      <3>2. result # Err("TooDeep")
        BY <2>2 DEF ScanInv, ScanTypes, Err
      <3> QED BY <3>1, <3>2
    <2>3. CASE stage = "done" /\ result # Err("TooDeep")
      BY <2>1, <2>3 DEF ScanInv, Verdict
    <2>4. CASE stage = "done" /\ result = Err("TooDeep")
      <3>1. depth > MAX_JSON_DEPTH
        BY <2>4 DEF ScanInv, Verdict
      <3>2. ASSUME Bracketed PROVE NestedTooDeeply
        <4>1. \A i \in 1..pos : i \in 1..Len(payload)
          BY DEF ScanInv, ScanTypes
        <4>2. depth = Level(pos)
          BY <3>2, <4>1 DEF ScanInv, DepthAgrees, Bracketed
        <4>3. pos # 0
          BY <3>1, <4>2, LevelZero, LimitsAssumption
        <4>4. pos \in 1..Len(payload)
          BY <4>3 DEF ScanInv, ScanTypes
        <4> QED BY <3>1, <4>2, <4>4 DEF NestedTooDeeply
      <3> QED BY <2>4, <3>2
    <2> QED BY <2>2, <2>3, <2>4
  <1> QED BY <1>1, <1>2, <1>3, PTL DEF Spec
=============================================================================
