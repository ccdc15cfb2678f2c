--------------------------- MODULE IncidentAlert ---------------------------
(***************************************************************************)
(* The alert of an incident in Slack, with its buttons Acknowledge,        *)
(* Investigate and Escalate and the activity section the bot keeps in it   *)
(* (_handle_approval_action of app/slack_bot/interactions.py), and the     *)
(* incident's status, which the same handlers write (oncall.py).           *)
(*                                                                         *)
(* Slack sends the message as it is at the click.  The handler updates the *)
(* record, adds its line to the activity of the message it was sent, and   *)
(* puts the result in the message's place.  An entry is the click that it  *)
(* tells of.                                                               *)
(***************************************************************************)
EXTENDS Integers, Sequences, FiniteSets

CONSTANTS
    Responders,  \* those who click
    MaxEntries,  \* entries that fit the section's text (3000 characters)
    MaxClicks    \* bound: clicks

ASSUME AlertAssumption == MaxEntries \in Nat /\ MaxClicks \in Nat

Clicks   == 1..MaxClicks
Buttons  == {"ack_incident", "investigate_incident", "escalate_incident"}
StatusOf == [b \in Buttons |-> IF b = "ack_incident" THEN "acknowledged" ELSE "investigating"]
Statuses == {"triaged", "acknowledged", "investigating"}

VARIABLES
    clicks,      \* how many there were
    hand,        \* per responder, the handler of the latest click
    message,     \* the entries of the activity section, in order
    status,      \* the incident's status
    told,        \* history: the entries that were put into the message
    overlapped   \* history: a click was made while another's handler ran

vars == <<clicks, hand, message, status, told, overlapped>>

Handler == [step : {"idle", "transition", "post"}, click : Clicks \cup {0},
            button : Buttons, seen : Seq(Clicks)]
Idle == [step |-> "idle", click |-> 0, button |-> "ack_incident", seen |-> <<>>]

Told(entries) == {entries[n] : n \in 1..Len(entries)}

TypeOK ==
    /\ clicks \in 0..MaxClicks
    /\ hand \in [Responders -> Handler]
    /\ message \in Seq(Clicks)
    /\ status \in Statuses
    /\ told \subseteq Clicks
    /\ overlapped \in BOOLEAN

Init ==
    /\ clicks = 0
    /\ hand = [r \in Responders |-> Idle]
    /\ message = <<>>
    /\ status = "triaged"
    /\ told = {} /\ overlapped = FALSE

-----------------------------------------------------------------------------
Handling == {r \in Responders : hand[r].step # "idle"}

Click(r, b) ==
    /\ hand[r].step = "idle"
    /\ clicks < MaxClicks
    /\ clicks' = clicks + 1
    /\ hand' = [hand EXCEPT ![r] = [step |-> "transition", click |-> clicks + 1, button |-> b,
                                    seen |-> message]]
    /\ overlapped' = (overlapped \/ Handling # {})
    /\ UNCHANGED <<message, status, told>>

(* ack_response, investigate_response, escalate_response: what they return, *)
(* an error included, is not looked at, and a failed call may be done *)
TransitionResponse(r) ==
    /\ hand[r].step = "transition"
    /\ status' \in {status, StatusOf[hand[r].button]}
    /\ hand' = [hand EXCEPT ![r].step = "post"]
    /\ UNCHANGED <<clicks, message, told, overlapped>>

(* mutant: the activity starts anew with each entry *)
PostResponseUrl_Anew(r) ==
    /\ hand[r].step = "post"
    /\ Len(hand[r].seen) < MaxEntries
    /\ message' = <<hand[r].click>>
    /\ told' = told \cup {hand[r].click}
    /\ hand' = [hand EXCEPT ![r] = Idle]
    /\ UNCHANGED <<clicks, status, overlapped>>

(* mutant: the latest entry comes first *)
PostResponseUrl_OnTop(r) ==
    /\ hand[r].step = "post"
    /\ Len(hand[r].seen) < MaxEntries
    /\ message' = <<hand[r].click>> \o hand[r].seen
    /\ told' = told \cup {hand[r].click}
    /\ hand' = [hand EXCEPT ![r] = Idle]
    /\ UNCHANGED <<clicks, status, overlapped>>

PostResponseUrl(r) ==
    /\ hand[r].step = "post"
    /\ Len(hand[r].seen) < MaxEntries
    /\ message' = Append(hand[r].seen, hand[r].click)
    /\ told' = told \cup {hand[r].click}
    /\ hand' = [hand EXCEPT ![r] = Idle]
    /\ UNCHANGED <<clicks, status, overlapped>>

(* A failed post is only logged, one that Slack refuses for its length too; *)
(* and the Lambda may end before it.  A post that is given up after three   *)
(* seconds (interactions.py:176) is taken for one that never lands: Slack   *)
(* may apply it later, which is not modelled.                               *)
PostFails(r) ==
    /\ hand[r].step \in {"transition", "post"}
    /\ hand' = [hand EXCEPT ![r] = Idle]
    /\ UNCHANGED <<clicks, message, status, told, overlapped>>

Next == \E r \in Responders : \/ \E b \in Buttons : Click(r, b)
                              \/ TransitionResponse(r)
                              \/ PostResponseUrl(r)
                              \/ PostFails(r)

Spec == Init /\ [][Next]_vars

-----------------------------------------------------------------------------
(* The activity has every entry that was put into it, unless a button was   *)
(* clicked while another click was being handled.                           *)
ActivityKept == ~overlapped => told = Told(message)

(* Overlapping clicks may cost entries, never the order: what the activity  *)
(* shows is in the order of the clicks, each once, and each was put there.  *)
ActivityInOrder ==
    /\ \A m, n \in 1..Len(message) : m < n => message[m] < message[n]
    /\ Told(message) \subseteq told
=============================================================================
