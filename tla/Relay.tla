------------------------------- MODULE Relay -------------------------------
(***************************************************************************)
(* What the hub promises its clients, without locks, snapshots, channels,  *)
(* pumps or goroutines (internal/wshub/hub.go, package comment).           *)
(*                                                                         *)
(* Each feed publishes numbered frames, one at a time.  A frame is owed to *)
(* everyone who is a member when it is published.  The feed publishes the  *)
(* next one only when every debt is settled: the frame was delivered, or   *)
(* the client is no longer a member.  A member's frames are never skipped. *)
(* The connection carries a prefix of what was delivered.                  *)
(***************************************************************************)
EXTENDS Integers, Sequences

CONSTANTS Feeds, Clients

VARIABLES
    published,  \* published[f]: number of the last frame f published
    owed,       \* owed[f]: clients that frame is still owed to
    member,     \* clients that are owed what is published
    log,        \* log[c]: the frames delivered to c, oldest first
    written     \* written[c]: how many of them are on c's connection

vars == <<published, owed, member, log, written>>

Init ==
    /\ published = [f \in Feeds |-> 0]
    /\ owed = [f \in Feeds |-> {}]
    /\ member = {}
    /\ log = [c \in Clients |-> <<>>]
    /\ written = [c \in Clients |-> 0]

Publish(f) ==
    /\ owed[f] = {}
    /\ published' = [published EXCEPT ![f] = @ + 1]
    /\ owed' = [owed EXCEPT ![f] = member]
    /\ UNCHANGED <<member, log, written>>

Deliver(f, c) ==
    /\ c \in owed[f]
    /\ owed' = [owed EXCEPT ![f] = @ \ {c}]
    /\ log' = [log EXCEPT ![c] = Append(@, [feed |-> f, n |-> published[f]])]
    /\ UNCHANGED <<published, member, written>>

\* The only way not to deliver: the client has left.
Abandon(f, c) ==
    /\ c \in owed[f]
    /\ c \notin member
    /\ owed' = [owed EXCEPT ![f] = @ \ {c}]
    /\ UNCHANGED <<published, member, log, written>>

Join(c) ==
    /\ log[c] = <<>>
    /\ member' = member \cup {c}
    /\ UNCHANGED <<published, owed, log, written>>

Leave(c) ==
    /\ member' = member \ {c}
    /\ UNCHANGED <<published, owed, log, written>>

Write(c) ==
    /\ written[c] < Len(log[c])
    /\ written' = [written EXCEPT ![c] = @ + 1]
    /\ UNCHANGED <<published, owed, member, log>>

Next ==
    \/ \E f \in Feeds : Publish(f)
    \/ \E f \in Feeds, c \in Clients : Deliver(f, c) \/ Abandon(f, c)
    \/ \E c \in Clients : Join(c) \/ Leave(c) \/ Write(c)

Spec == Init /\ [][Next]_vars
=============================================================================
