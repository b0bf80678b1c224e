--------------------------- MODULE AlertDelivery ----------------------------
(***************************************************************************)
(* What the notification queue promises across crashes and restarts        *)
(* (docs/notifications-en.md, "Queue and frequency"): an event it accepted *)
(* is on record, first by itself and then as a delivery owed to every      *)
(* enabled channel, and leaves the record only when the channel got it or  *)
(* the delivery was given up.  Delivery is at least once.                  *)
(***************************************************************************)
CONSTANTS Events, Channels

VARIABLES audience,    \* the channels of the running process
          kept,        \* the events it accepted
          held, owed,  \* on record: events without, and deliveries with, their channel
          got, given   \* deliveries some channel received, or that were given up

avars == <<audience, kept, held, owed, got, given>>

AInit == /\ audience \in SUBSET Channels
         /\ kept = {} /\ held = {} /\ owed = {} /\ got = {} /\ given = {}

\* The record is rewritten: what it loses is settled; what was given up does not return, unless the
\* record still held the event itself, because giving it up never reached the record.
Write ==
    /\ kept \subseteq kept' /\ given \subseteq given'
    /\ owed \subseteq owed' \cup got \cup given'
    /\ (owed' \ owed) \cap given \subseteq held \X Channels
    /\ \A e \in held \cup (kept' \ kept) :
          e \in held' \/ {e} \X audience \subseteq owed' \cup got \cup given'
    /\ UNCHANGED <<audience, got>>

Receive ==
    /\ got \subseteq got' /\ got' \ got \subseteq Events \X audience
    /\ UNCHANGED <<audience, kept, held, owed, given>>

Restart == audience' \in SUBSET Channels /\ UNCHANGED <<kept, held, owed, got, given>>

ASpec == AInit /\ [][Write \/ Receive \/ Restart]_avars
=============================================================================
