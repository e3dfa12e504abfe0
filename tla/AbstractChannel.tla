-------------------------- MODULE AbstractChannel --------------------------
(***************************************************************************)
(* What a channel promises its users (fixtask/docs/channel.html): messages *)
(* go through it in one order, each of them at most once, and the sender   *)
(* learns whether its message went; only the "no" of a sender that ran out *)
(* of time says nothing.  There are no threads, locks, waits or queues     *)
(* here: a channel is the log of the messages it has accepted and the      *)
(* number of them it has handed out.  A synchronous channel accepts a      *)
(* message only in the step that hands it out.                             *)
(***************************************************************************)
EXTENDS Naturals, Sequences

CONSTANTS Chan, Msg, SyncChannels

VARIABLES
    log,        \* the messages each channel accepted, in order
    delivered,  \* how many of them, from the first, receivers have
    verdict,    \* what the sender of each message was told
    hurried     \* the messages whose senders wait for a limited time

vars == <<log, delivered, verdict, hurried>>

Init ==
    /\ log = [c \in Chan |-> <<>>]
    /\ delivered = [c \in Chan |-> 0]
    /\ verdict = [m \in Msg |-> "unsent"]
    /\ hurried = {}

Logged(m) == \E c \in Chan : \E i \in DOMAIN log[c] : log[c][i] = m

(* A thread asks for m to be sent, in a limited time or not.               *)
Submit(m) ==
    /\ verdict[m] = "unsent"
    /\ verdict' = [verdict EXCEPT ![m] = "pending"]
    /\ hurried' \in {hurried, hurried \cup {m}}
    /\ UNCHANGED <<log, delivered>>

(* A queue accepts m and its sender is told at once.                       *)
Accept(c, m) ==
    /\ c \notin SyncChannels
    /\ verdict[m] = "pending" /\ ~Logged(m)
    /\ log' = [log EXCEPT ![c] = Append(@, m)]
    /\ verdict' = [verdict EXCEPT ![m] = "true"]
    /\ hurried' = hurried \ {m}
    /\ UNCHANGED delivered

(* The oldest message of a queue not handed out yet is handed out.         *)
Deliver(c) ==
    /\ c \notin SyncChannels
    /\ delivered[c] < Len(log[c])
    /\ delivered' = [delivered EXCEPT ![c] = @ + 1]
    /\ UNCHANGED <<log, verdict, hurried>>

(* A synchronous channel hands m from its sender to a receiver.            *)
HandOver(c, m) ==
    /\ c \in SyncChannels
    /\ verdict[m] = "pending" /\ ~Logged(m)
    /\ log' = [log EXCEPT ![c] = Append(@, m)]
    /\ delivered' = [delivered EXCEPT ![c] = @ + 1]
    /\ UNCHANGED <<verdict, hurried>>

(* The sender of m is told the truth; one that waits for a limited time    *)
(* may be told "false" of a message that went.                             *)
Tell(m) ==
    /\ verdict[m] = "pending"
    /\ \/ /\ Logged(m)
          /\ verdict' = [verdict EXCEPT ![m] = "true"]
       \/ /\ ~Logged(m) \/ m \in hurried
          /\ verdict' = [verdict EXCEPT ![m] = "false"]
       \/ /\ ~Logged(m)
          /\ verdict' = [verdict EXCEPT ![m] = "error"]
    /\ hurried' = hurried \ {m}
    /\ UNCHANGED <<log, delivered>>

Next ==
    \/ \E m \in Msg : Submit(m) \/ Tell(m)
    \/ \E c \in Chan : Deliver(c)
    \/ \E c \in Chan, m \in Msg : Accept(c, m) \/ HandOver(c, m)

Spec == Init /\ [][Next]_vars
=============================================================================
