---------------------------- MODULE AgentAnswers ----------------------------
(***************************************************************************)
(* What the agents make of a model's answer: extract_json                  *)
(* (app/shared/json_extract.py) in the summary and triage agents,          *)
(* json.loads in the solution agent, _strip_json_fences in the forensic    *)
(* synthesis agent, and where the state machine goes with what they found. *)
(*                                                                         *)
(* A text is a sequence of tokens: prose, a code fence (with its language  *)
(* and its line break), the brackets of JSON, and the members of objects.  *)
(* White space at the ends is nothing.  The answer grows piece by piece;   *)
(* it may end anywhere (max_tokens) and hold several objects.              *)
(***************************************************************************)
EXTENDS Integers, Sequences, FiniteSetsExt

CONSTANTS
    MaxPieces,  \* bound: pieces of an answer
    MaxDepth    \* bound: how deep objects are nested

ASSUME AnswersAssumption == MaxPieces \in Nat /\ MaxDepth \in Nat

(* "P1", "P3" and "pair" are members: a severity, or none; "brace" is one    *)
(* with a "{" in its text, which a search for braces takes for one.  "key"  *)
(* is a member's name, before its value.                                    *)
Members == {"P1", "P3", "pair", "brace"}

(* the object of a depth, of one member at each *)
Nested(depth, m) ==
    [n \in 1..(3 * depth) |->
        CASE n < 2 * depth /\ n % 2 = 1 -> "{"
          [] n < 2 * depth /\ n % 2 = 0 -> "key"
          [] n = 2 * depth              -> m
          [] n > 2 * depth              -> "}"]

Object == UNION {{Nested(depth, m) : m \in Members} : depth \in 1..MaxDepth}
List   == {<<"[">> \o Nested(1, m) \o <<"]">> : m \in Members}

VARIABLES text, pieces

answerVars == <<text, pieces>>

AnswerInit == text = <<>> /\ pieces = 0

Pieces == Object \cup List \cup {<<"word">>, <<"fence">>, <<"{", "key">>, <<"}">>}

(* the model's answer, and every answer that breaks off at a piece's end *)
Say(piece) ==
    /\ pieces < MaxPieces
    /\ text' = text \o piece
    /\ pieces' = pieces + 1

AnswerNext == \E piece \in Pieces : Say(piece)

AnswerSpec == AnswerInit /\ [][AnswerNext]_answerVars

-----------------------------------------------------------------------------
(* raised: the empty text, which is no value of JSON *)
JSONDecodeError == <<>>

(* json.loads of the whole of s *)
Loads(s) == IF s \in Object \cup List THEN s ELSE JSONDecodeError

Places(s, token) == {n \in 1..Len(s) : s[n] = token}

(* mutant: up to the first "}" *)
WholeObject_First(s) ==
    IF s # <<>> /\ s[1] = "{" /\ Places(s, "}") # {}
    THEN SubSeq(s, 1, Min(Places(s, "}"))) ELSE <<>>

(* a text that starts with "{", up to its last "}" *)
WholeObject(s) ==
    IF s # <<>> /\ s[1] = "{" /\ Places(s, "}") # {}
    THEN SubSeq(s, 1, Max(Places(s, "}"))) ELSE <<>>

(* what is between the first fence and the next *)
FirstFenced(s) ==
    LET fences == Places(s, "fence")
        later  == {n \in fences : \E k \in fences : k < n}
    IN  IF later = {} THEN <<>> ELSE SubSeq(s, Min(fences) + 1, Min(later) - 1)

(* the open braces at k of those from i on *)
Nesting(s, i, k) ==
    Cardinality({n \in i..k : s[n] \in {"{", "brace"}}) - Cardinality({n \in i..k : s[n] = "}"})

(* mutant: braces within braces are not expected *)
Closes_Flat(s, i, j) ==
    /\ s[i] \in {"{", "brace"} /\ i < j /\ s[j] = "}"
    /\ \A k \in i..(j - 1) : Nesting(s, i, k) = 1

(* the regular expression matches from i to j: braces with braces in them,  *)
(* these with none *)
Closes(s, i, j) ==
    /\ s[i] \in {"{", "brace"} /\ i < j /\ s[j] = "}"
    /\ Nesting(s, i, j) = 0
    /\ \A k \in i..(j - 1) : Nesting(s, i, k) \in {1, 2}

(* its first match *)
Braces(s) ==
    LET starts == {i \in 1..Len(s) : \E j \in 1..Len(s) : Closes(s, i, j)}
        first  == Min(starts)
    IN  IF starts = {} THEN <<>>
        ELSE SubSeq(s, first, CHOOSE j \in 1..Len(s) : Closes(s, first, j))

(* mutant: braces are looked for before fences *)
Parts_BracesFirst(s) == <<WholeObject(s), Braces(s), FirstFenced(s)>>

Parts(s) == <<WholeObject(s), FirstFenced(s), Braces(s)>>

(* the first of the parts that is JSON *)
extract_json(s) ==
    LET parts == Parts(s)
        json  == {n \in 1..3 : Loads(parts[n]) # JSONDecodeError}
    IN  IF json = {} THEN JSONDecodeError ELSE parts[Min(json)]

strip_json_fences(s) ==
    LET first == IF s # <<>> /\ s[1] = "fence" THEN 2 ELSE 1
        last  == IF Len(s) >= first /\ s[Len(s)] = "fence" THEN Len(s) - 1 ELSE Len(s)
    IN  SubSeq(s, first, last)

-----------------------------------------------------------------------------
(* What an object says of the severity; only its own members count.         *)
Severity(v) == IF v[2] \in {"P1", "P3"} THEN v[2] ELSE "none"

(* mutant: an answer that cannot be read is of the severity that needs no approval *)
Triaged_Default3(s) ==
    LET triage == extract_json(s)
    IN  CASE triage = JSONDecodeError -> "P3"
          [] triage \in List          -> "failed"
          [] triage \in Object        -> Severity(triage)

(* the triage agent: an answer that cannot be read is a P2; triage.get      *)
(* fails on a list *)
Triaged(s) ==
    LET triage == extract_json(s)
    IN  CASE triage = JSONDecodeError -> "P2"
          [] triage \in List          -> "failed"
          [] triage \in Object        -> Severity(triage)

(* CheckSeverity after it, or the task's Catch *)
Route(s) ==
    LET severity == Triaged(s)
    IN  CASE severity = "P3"           -> "SolutionAgent"
          [] severity \in {"P1", "P2"} -> "SolutionAgentWithApproval"
          [] severity = "none"         -> "Failed"
          [] severity = "failed"       -> "DegradedNotify"

(* the solution agent recommends nothing when its answer is not JSON *)
Recommended(s) == Loads(s)

(* the forensic synthesis agent falls back when its answer is not JSON *)
Synthesized(s) == Loads(strip_json_fences(s))

-----------------------------------------------------------------------------
(* where v stands in s *)
Occurs(v, s) ==
    {i \in 1..(Len(s) - Len(v) + 1) : \A n \in 1..Len(v) : s[i + n - 1] = v[n]}

(* s has v in it, and nothing else but prose *)
Only(v, s) ==
    \E i \in Occurs(v, s) : \A n \in (1..Len(s)) \ (i..(i + Len(v) - 1)) : s[n] = "word"

Fenced(v) == <<"fence">> \o v \o <<"fence">>

Searchable(v) == \E depth \in 1..2, m \in Members \ {"brace"} : v = Nested(depth, m)

(* What extract_json returns, of however many objects, fences and broken    *)
(* off pieces, stands in the answer, and not within a larger object unless  *)
(* that one is nested deeper than its search for braces can follow, or has  *)
(* a brace in a text.                                                       *)
FoundIsOutermost ==
    LET found == extract_json(text)
    IN  found # JSONDecodeError =>
          \E i \in Occurs(found, text) :
             \A v \in Object : \A o \in Occurs(v, text) :
                Searchable(v) /\ Len(v) > Len(found) => i \notin o..(o + Len(v) - 1)

(* An answer with a fenced object and no other is read, whatever the prose   *)
(* about it and however deep the object; one with an object in prose only   *)
(* down to the depth the search follows (extract_json).                     *)
OneObjectFound ==
    \A v \in Object :
        Only(Fenced(v), text) \/ (Searchable(v) /\ Only(v, text)) => extract_json(text) = v

(* The parsers of the agents agree: an object that the plain json.loads or   *)
(* _strip_json_fences makes of an answer, extract_json makes of it as well, *)
(* but for an object too deep for it after a fence that is never closed.    *)
ParsersAgree ==
    \A v \in {Recommended(text), Synthesized(text)} :
        v \in Object => \/ extract_json(text) = v
                        \/ text[1] = "fence" /\ text[Len(text)] # "fence" /\ ~Searchable(v)

(* An incident goes on without an approval only if the triage agent's        *)
(* answer has a whole object that says so itself, be it what is left of a   *)
(* larger one that was cut off: any other answer waits, or fails.           *)
UnattendedOnlyIfStated ==
    Route(text) = "SolutionAgent" => Occurs(<<"{", "P3", "}">>, text) # {}
=============================================================================
