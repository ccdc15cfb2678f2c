------------------------ MODULE IncidentAlertProofs ------------------------
(* What is proved about the alert's activity section, for any responders,  *)
(* entries and clicks.                                                     *)
EXTENDS IncidentAlert, TLAPS

Increasing(s) == \A m, n \in 1..Len(s) : m < n => s[m] < s[n]

(* What a handler was sent: an activity in order, of entries older than its *)
(* click.                                                                   *)
SentOK(r) ==
    hand[r].step # "idle" =>
        /\ hand[r].click \in 1..clicks
        /\ Increasing(hand[r].seen)
        /\ Told(hand[r].seen) \subseteq told
        /\ \A c \in Told(hand[r].seen) : c < hand[r].click

(* Without overlap: one handler at a time, and the message it was sent is   *)
(* the message still.                                                       *)
AloneOK ==
    ~overlapped =>
        /\ told = Told(message)
        /\ \A r \in Responders : hand[r].step # "idle" => hand[r].seen = message
        /\ \A r, q \in Responders : hand[r].step # "idle" /\ hand[q].step # "idle" => r = q

AlertInv ==
    /\ TypeOK
    /\ \A c \in told : c <= clicks
    /\ ActivityInOrder
    /\ \A r \in Responders : SentOK(r)
    /\ AloneOK

-----------------------------------------------------------------------------
(* An entry later than all keeps an activity in order (the history_entry    *)
(* appended to old_text).                                                   *)
LEMMA AppendKeepsOrder ==
    ASSUME NEW S, S \subseteq Int, NEW s \in Seq(S), NEW c \in Int,
           Increasing(s), \A d \in Told(s) : d < c
    PROVE  /\ Increasing(Append(s, c))
           /\ Told(Append(s, c)) = Told(s) \cup {c}
<1> DEFINE t == Append(s, c)
<1>1. Len(t) = Len(s) + 1 /\ Len(s) \in Nat /\ t[Len(s) + 1] = c
  OBVIOUS
<1>2. \A n \in 1..Len(s) : t[n] = s[n] /\ s[n] \in Told(s) /\ s[n] \in Int
  <2>1. \A n \in 1..Len(s) : t[n] = s[n]
    OBVIOUS
  <2>2. \A n \in 1..Len(s) : s[n] \in S
    OBVIOUS
  <2> QED
    BY <2>1, <2>2 DEF Told
<1> HIDE DEF t
<1>3. Increasing(t)
  <2>1. SUFFICES ASSUME NEW m \in 1..Len(t), NEW n \in 1..Len(t), m < n
                 PROVE  t[m] < t[n]
    BY DEF Increasing
  <2>2. m \in 1..Len(s)
    BY <1>1, <2>1
  <2>3. CASE n = Len(s) + 1
    BY <1>1, <1>2, <2>2, <2>3
  <2>4. CASE n # Len(s) + 1
    <3>1. n \in 1..Len(s)
      BY <1>1, <2>4
    <3> QED
      BY <1>2, <2>1, <2>2, <3>1 DEF Increasing
  <2> QED
    BY <2>3, <2>4
<1>4. Told(t) = Told(s) \cup {c}
  <2>1. ASSUME NEW x \in Told(t)
        PROVE  x \in Told(s) \cup {c}
    <3>1. PICK n \in 1..Len(t) : x = t[n]
      BY DEF Told
    <3>2. n \in 1..Len(s) \/ n = Len(s) + 1
      BY <1>1
    <3> QED
      BY <1>1, <1>2, <3>1, <3>2
  <2>2. ASSUME NEW x \in Told(s)
        PROVE  x \in Told(t)
    <3>1. PICK n \in 1..Len(s) : x = s[n]
      BY DEF Told
    <3>2. n \in 1..Len(t) /\ t[n] = x
      BY <1>1, <1>2, <3>1
    <3> QED
      BY <3>2 DEF Told
  <2>3. c \in Told(t)
    <3>1. Len(s) + 1 \in 1..Len(t)
      BY <1>1
    <3> QED
      BY <1>1, <3>1 DEF Told
  <2> QED
    BY <2>1, <2>2, <2>3
<1> QED
  BY <1>3, <1>4 DEF t

-----------------------------------------------------------------------------
LEMMA AlertInit == Init => AlertInv
<1> SUFFICES ASSUME Init PROVE AlertInv
  OBVIOUS
<1> USE AlertAssumption DEF Init
<1>0. Idle \in Handler /\ Idle.step = "idle"
  BY DEF Idle, Handler, Clicks, Buttons
<1>1. TypeOK
  <2>1. hand \in [Responders -> Handler]
    BY <1>0
  <2>2. message \in Seq(Clicks)
    OBVIOUS
  <2>3. clicks \in 0..MaxClicks
    OBVIOUS
  <2>4. status \in Statuses /\ told \subseteq Clicks /\ overlapped \in BOOLEAN
    BY DEF Statuses
  <2> QED
    BY <2>1, <2>2, <2>3, <2>4 DEF TypeOK
<1>2. ActivityInOrder /\ Told(message) = {}
  BY DEF ActivityInOrder, Told
<1> QED
  BY <1>0, <1>1, <1>2 DEF AlertInv, SentOK, AloneOK

(* The click: the handler is sent the message as it is.                     *)
LEMMA ClickKeeps ==
    ASSUME AlertInv, NEW r \in Responders, NEW b \in Buttons, Click(r, b)
    PROVE  AlertInv'
<1> USE AlertAssumption DEF AlertInv
<1> DEFINE h == [step |-> "transition", click |-> clicks + 1, button |-> b, seen |-> message]
<1>0. clicks \in Nat /\ clicks + 1 \in Clicks /\ clicks' = clicks + 1
  BY DEF TypeOK, Click, Clicks
<1>1. h \in Handler /\ h.step = "transition" /\ h.click = clicks + 1 /\ h.seen = message
  <2>1. message \in Seq(Clicks)
    BY DEF TypeOK
  <2> QED
    BY <1>0, <2>1 DEF Handler
<1>2. hand' = [hand EXCEPT ![r] = h] /\ hand \in [Responders -> Handler]
  BY DEF Click, TypeOK
<1>3. hand'[r] = h /\ \A q \in Responders : q # r => hand'[q] = hand[q]
  BY <1>2
<1> HIDE DEF h
<1>4. TypeOK'
  <2>1. hand' \in [Responders -> Handler]
    BY <1>1, <1>2
  <2>2. overlapped' \in BOOLEAN
    BY ZenonT(20) DEF Click, TypeOK
  <2>3. UNCHANGED <<message, status, told>> /\ clicks' \in 0..MaxClicks
    BY <1>0 DEF Click, Clicks
  <2> QED
    BY <2>1, <2>2, <2>3 DEF TypeOK
<1>5. message' = message /\ told' = told
  BY DEF Click
<1>6. ActivityInOrder'
  BY <1>5 DEF ActivityInOrder, Told
<1>7. \A c \in told : c \in Nat /\ c <= clicks' /\ c < clicks + 1
  BY <1>0 DEF TypeOK, Clicks
<1>8. ASSUME NEW q \in Responders
      PROVE  SentOK(q)'
  <2>1. CASE q = r
    <3>1. Increasing(message) /\ Told(message) \subseteq told
      BY DEF ActivityInOrder, Increasing
    <3> QED
      BY <1>0, <1>1, <1>3, <1>5, <1>7, <2>1, <3>1 DEF SentOK, Increasing, Told
  <2>2. CASE q # r
    <3>1. hand'[q] = hand[q] /\ SentOK(q)
      BY <1>3, <2>2
    <3> QED
      BY <1>0, <1>5, <3>1 DEF SentOK, Increasing, Told
  <2> QED
    BY <2>1, <2>2
<1>9. AloneOK'
  <2>1. CASE overlapped'
    BY <2>1 DEF AloneOK
  <2>2. CASE ~overlapped'
    <3>1. ~overlapped /\ Handling = {}
      BY <2>2 DEF Click
    <3>2. \A q \in Responders : q # r => hand'[q].step = "idle"
      BY <1>3, <3>1 DEF Handling
    <3> QED
      BY <1>1, <1>3, <1>5, <3>1, <3>2 DEF AloneOK, Told
  <2> QED
    BY <2>1, <2>2
<1> QED
  BY <1>4, <1>5, <1>6, <1>7, <1>8, <1>9

(* The record's update touches no message.                                  *)
LEMMA TransitionKeeps ==
    ASSUME AlertInv, NEW r \in Responders, TransitionResponse(r)
    PROVE  AlertInv'
<1> USE AlertAssumption DEF AlertInv
<1>1. hand' = [hand EXCEPT ![r].step = "post"] /\ hand \in [Responders -> Handler]
  BY DEF TransitionResponse, TypeOK
<1>2. hand[r].step = "transition" /\ hand[r] \in Handler
  BY <1>1 DEF TransitionResponse
<1>3. /\ hand'[r] \in Handler /\ hand'[r].step = "post"
      /\ hand'[r].click = hand[r].click /\ hand'[r].seen = hand[r].seen
      /\ \A q \in Responders : q # r => hand'[q] = hand[q]
  <2>1. hand'[r] = [hand[r] EXCEPT !.step = "post"]
    BY <1>1
  <2> QED
    BY <1>1, <1>2, <2>1 DEF Handler
<1>4. \A q \in Responders : /\ hand'[q].click = hand[q].click /\ hand'[q].seen = hand[q].seen
                            /\ hand'[q].step # "idle" <=> hand[q].step # "idle"
  BY <1>2, <1>3
<1>5. UNCHANGED <<clicks, message, told, overlapped>>
  BY DEF TransitionResponse
<1>6. TypeOK'
  <2>1. hand' \in [Responders -> Handler]
    BY <1>1, <1>3
  <2>2. status' \in Statuses
    BY <1>2 DEF TransitionResponse, TypeOK, StatusOf, Handler, Statuses
  <2> QED
    BY <1>5, <2>1, <2>2 DEF TypeOK
<1>7. ActivityInOrder'
  BY <1>5 DEF ActivityInOrder, Told
<1>8. \A q \in Responders : SentOK(q)'
  BY <1>4, <1>5 DEF SentOK, Increasing, Told
<1>9. AloneOK'
  BY <1>4, <1>5 DEF AloneOK, Told
<1> QED
  BY <1>5, <1>6, <1>7, <1>8, <1>9

(* The handler ends: it is idle, and the others are as they were.           *)
LEMMA IdleAgain ==
    ASSUME TypeOK, NEW r \in Responders, hand' = [hand EXCEPT ![r] = Idle]
    PROVE  /\ hand' \in [Responders -> Handler]
           /\ hand'[r].step = "idle"
           /\ \A q \in Responders : q # r => hand'[q] = hand[q]
<1>1. Idle \in Handler /\ Idle.step = "idle"
  BY DEF Idle, Handler, Clicks, Buttons
<1> QED
  BY <1>1 DEF TypeOK

LEMMA PostKeeps ==
    ASSUME AlertInv, NEW r \in Responders, PostResponseUrl(r)
    PROVE  AlertInv'
<1> USE AlertAssumption DEF AlertInv
<1> DEFINE s == hand[r].seen
           c == hand[r].click
<1>1. hand[r].step = "post" /\ hand[r] \in Handler /\ SentOK(r)
  BY DEF PostResponseUrl, TypeOK
<1>2. /\ s \in Seq(Clicks) /\ c \in 1..clicks /\ c \in Clicks /\ Increasing(s)
      /\ Told(s) \subseteq told /\ (\A d \in Told(s) : d < c)
  <2>1. s \in Seq(Clicks) /\ clicks \in 0..MaxClicks
    BY <1>1 DEF Handler, TypeOK
  <2> QED
    BY <1>1, <2>1 DEF SentOK, Clicks
<1>3. /\ message' = Append(s, c) /\ told' = told \cup {c}
      /\ UNCHANGED <<clicks, status, overlapped>>
  BY DEF PostResponseUrl
<1>4. /\ hand' \in [Responders -> Handler]
      /\ hand'[r].step = "idle"
      /\ \A q \in Responders : q # r => hand'[q] = hand[q]
  BY IdleAgain DEF PostResponseUrl
<1>5. Increasing(message') /\ Told(message') = Told(s) \cup {c}
  <2>1. Clicks \subseteq Int /\ c \in Int
    BY <1>2 DEF Clicks
  <2> HIDE DEF s, c
  <2> QED
    BY <1>2, <1>3, <2>1, AppendKeepsOrder
<1>6. TypeOK'
  <2>1. message' \in Seq(Clicks)
    BY <1>2, <1>3
  <2> QED
    BY <1>2, <1>3, <1>4, <2>1 DEF TypeOK
<1>7. ActivityInOrder'
  BY <1>2, <1>3, <1>5 DEF ActivityInOrder, Increasing, Told
<1>8. \A d \in told' : d <= clicks'
  BY <1>2, <1>3
<1>9. ASSUME NEW q \in Responders
      PROVE  SentOK(q)'
  <2>1. CASE q = r
    BY <1>4, <2>1 DEF SentOK
  <2>2. CASE q # r
    <3>1. hand'[q] = hand[q] /\ SentOK(q)
      BY <1>4, <2>2
    <3> QED
      BY <1>3, <3>1 DEF SentOK, Increasing, Told
  <2> QED
    BY <2>1, <2>2
<1>10. AloneOK'
  <2>1. CASE overlapped
    BY <1>3, <2>1 DEF AloneOK
  <2>2. CASE ~overlapped
    <3>1. told = Told(message) /\ s = message
      BY <1>1, <2>2 DEF AloneOK
    <3>2. \A q \in Responders : hand'[q].step = "idle"
      BY <1>1, <1>4, <2>2 DEF AloneOK
    <3>3. told' = Told(message')
      BY <1>3, <1>5, <3>1
    <3> QED
      BY <3>2, <3>3 DEF AloneOK, Told
  <2> QED
    BY <2>1, <2>2
<1> QED
  BY <1>6, <1>7, <1>8, <1>9, <1>10

LEMMA FailKeeps ==
    ASSUME AlertInv, NEW r \in Responders, PostFails(r)
    PROVE  AlertInv'
<1> USE DEF AlertInv
<1>1. UNCHANGED <<clicks, message, status, told, overlapped>>
  BY DEF PostFails
<1>2. /\ hand' \in [Responders -> Handler]
      /\ hand'[r].step = "idle"
      /\ \A q \in Responders : q # r => hand'[q] = hand[q]
  BY IdleAgain DEF PostFails
<1>3. TypeOK'
  BY <1>1, <1>2 DEF TypeOK
<1>4. ActivityInOrder'
  BY <1>1 DEF ActivityInOrder, Told
<1>5. \A q \in Responders : SentOK(q)'
  BY <1>1, <1>2 DEF SentOK, Increasing, Told
<1>6. AloneOK'
  BY <1>1, <1>2 DEF AloneOK, Told
<1> QED
  BY <1>1, <1>3, <1>4, <1>5, <1>6

LEMMA AlertInvariant == Spec => []AlertInv
<1>1. AlertInv /\ [Next]_vars => AlertInv'
  <2> SUFFICES ASSUME AlertInv, [Next]_vars PROVE AlertInv'
    OBVIOUS
  <2>1. CASE UNCHANGED vars
    BY <2>1 DEF AlertInv, TypeOK, ActivityInOrder, SentOK, AloneOK, Increasing, Told, vars
  <2>2. CASE Next
    BY <2>2, ClickKeeps, TransitionKeeps, PostKeeps, FailKeeps DEF Next
  <2> QED
    BY <2>1, <2>2
<1> QED
  BY AlertInit, <1>1, PTL DEF Spec

-----------------------------------------------------------------------------
(* The alert's state is well formed.                                        *)
THEOREM AlertTypes == Spec => []TypeOK
<1>1. AlertInv => TypeOK
  BY DEF AlertInv
<1> QED
  BY AlertInvariant, <1>1, PTL

(* Whatever clicks overlap, the activity is in the order of the clicks and  *)
(* tells of nothing twice (_handle_approval_action).                        *)
THEOREM ActivityIsInOrder == Spec => []ActivityInOrder
<1>1. AlertInv => ActivityInOrder
  BY DEF AlertInv
<1> QED
  BY AlertInvariant, <1>1, PTL

(* Without overlapping clicks nothing that was put into the activity is     *)
(* lost.                                                                    *)
THEOREM ActivityIsKept == Spec => []ActivityKept
<1>1. AlertInv => ActivityKept
  BY DEF AlertInv, AloneOK, ActivityKept
<1> QED
  BY AlertInvariant, <1>1, PTL
=============================================================================
