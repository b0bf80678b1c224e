---------------------------- MODULE AlertContent ----------------------------
(***************************************************************************)
(* What an alert says (internal/notify: format.go, NotifyBan and           *)
(* batchToQueue of batch.go, truncate of delivery.go).  Bans wait in a     *)
(* batch that is kept on file, so one alert may tell of bans from before   *)
(* and after a restart in another mode.  Wording is left out: an alert     *)
(* has a kind, a dry-run mark and items, and a text is a sequence of       *)
(* characters of one or two UTF-16 units.                                  *)
(***************************************************************************)
EXTENDS Integers, FiniteSets, Sequences

CONSTANTS
    MaxItems,      \* events that fill a batch (20)
    TextLimit,     \* units in a Telegram text (3500)
    DetailLimit    \* units in a Discord description (3000)

AlertAssumption == MaxItems \in Nat \ {0} /\ TextLimit \in Nat \ {0} /\ DetailLimit \in Nat \ {0}

VARIABLES
    dryRun, batching,  \* the configuration the process has read
    batch,             \* the events waiting, in memory and in the queue file
    last               \* the latest alert that was queued, with its events

vars == <<dryRun, batching, batch, last>>

\* An event: its rule, what was done, in which mode, and the width of a character in its line.
\* An operator may call a rule of his own "audit", as the daemon calls its audits.
Events == [rule : {"ssh", "audit"}, action : {"nft", "dry-run", "notify"}, dry : BOOLEAN, wide : {1, 2}]
Audit  == [rule |-> "audit", action |-> "audit", dry |-> FALSE, wide |-> 1]

\* An event of this process: ApplyPorts names the action.
EventNow(e) == e.dry = dryRun /\ (e.action = "dry-run" => dryRun) /\ (e.action = "nft" => ~dryRun)

NoAlert == [kind |-> "none", dry |-> FALSE, items |-> <<>>]

-----------------------------------------------------------------------------
\* alertFromEvent and alertFromBanBatch.

AlertFromEvent(e) ==
    [kind |-> IF e.rule = "audit" THEN "audit" ELSE IF e.action = "notify" THEN "notify" ELSE "ban",
     dry |-> e.dry, items |-> <<e>>]

\* Mutant: the mode of the batch is that of its first event.
DryFirst(events) == events[1].dry
DryAny(events)   == \E i \in DOMAIN events : events[i].dry
AlertFromBanBatch(events) == [kind |-> "ban_batch", dry |-> DryAny(events), items |-> events]

AlertFrom(events) == IF Len(events) = 1 THEN AlertFromEvent(events[1]) ELSE AlertFromBanBatch(events)

\* accentColor and feishuHeaderTemplate: the colour of the header, as banTitle words its title.
Colour(a) ==
    CASE a.kind \in {"audit", "notify"}  -> "orange"
      [] a.kind \in {"ban", "ban_batch"} -> IF a.dry THEN "orange" ELSE "red"
      [] OTHER                           -> "blue"

-----------------------------------------------------------------------------
\* NotifyBan, NotifyAudit, the flush of a batch, and a restart.

BatchFull(events) == Len(events) >= MaxItems

\* A notify-only event, or any event without batching, becomes an alert of its own.
NotifyBan(e) ==
    /\ EventNow(e)
    /\ IF ~batching \/ e.action = "notify" THEN last' = AlertFromEvent(e) /\ UNCHANGED batch
       ELSE LET joined == Append(batch, e) IN
            IF BatchFull(joined) THEN last' = AlertFrom(joined) /\ batch' = <<>>
            ELSE batch' = joined /\ UNCHANGED last
    /\ UNCHANGED <<dryRun, batching>>

\* The action of an audit's event is the text of its n findings.
NotifyAudit(n) ==
    /\ last' = [AlertFromEvent([Audit EXCEPT !.dry = dryRun]) EXCEPT !.items = [i \in 1..n |-> Audit]]
    /\ UNCHANGED <<dryRun, batching, batch>>

\* The batch is due.
BatchToQueue ==
    /\ batch # <<>>
    /\ last' = AlertFrom(batch) /\ batch' = <<>>
    /\ UNCHANGED <<dryRun, batching>>

\* The configuration is edited and the process restarted; the queue file keeps the batch.
Restart ==
    /\ dryRun' \in BOOLEAN /\ batching' \in BOOLEAN
    /\ UNCHANGED <<batch, last>>

Init == dryRun \in BOOLEAN /\ batching \in BOOLEAN /\ batch = <<>> /\ last = NoAlert

Next == (\E e \in Events : NotifyBan(e)) \/ (\E n \in 1..MaxItems : NotifyAudit(n)) \/ BatchToQueue \/ Restart

Spec == Init /\ [][Next]_vars

-----------------------------------------------------------------------------
\* The text of an alert, and what truncate leaves of it.

Char(of, width) == [of |-> of, width |-> width]
Mark == Char(-1, 1)  \* the ellipsis
Header(a) == <<Char(0, 1)>>  \* the title and the rows, the number of bans among them
Footer(a) == <<Char(0, 1)>>  \* the time

\* The line of an item: its address or its level, then text that may have wide characters.
Line(a, i) == <<Char(i, 1), Char(i, a.items[i].wide)>>

\* The bans of a batch, or the findings of an audit: their lines, one after another.
Detail(a) ==
    IF a.kind \notin {"ban_batch", "audit"} THEN <<>>
    ELSE [c \in 1..2 * Len(a.items) |-> Line(a, (c + 1) \div 2)[2 - (c % 2)]]
PlainText(a) == Header(a) \o Detail(a) \o Footer(a)

Units(s) == Len(s) + Cardinality({i \in DOMAIN s : s[i].width = 2})
Least(S) == CHOOSE x \in S : \A y \in S : x <= y

\* The characters up to the first that, with the ellipsis, would not fit.
Truncate(s, limit) ==
    LET over == {i \in DOMAIN s : Units(SubSeq(s, 1, i)) > limit - 1}
    IN  IF over = {} THEN s ELSE Append(SubSeq(s, 1, Least(over) - 1), Mark)

Telegram(a) == Truncate(PlainText(a), TextLimit)
Discord(a)  == Truncate(Detail(a), DetailLimit)

-----------------------------------------------------------------------------
\* Properties.

AlertOK(a) ==
    /\ a.kind \in {"none", "audit", "notify", "ban", "ban_batch"} /\ a.dry \in BOOLEAN
    /\ \A i \in DOMAIN a.items : a.items[i] \in Events \/ a.items[i] = Audit

\* A full batch does not wait, and nothing notify-only waits in one.
TypeOK ==
    /\ dryRun \in BOOLEAN /\ batching \in BOOLEAN
    /\ Len(batch) < MaxItems /\ \A i \in DOMAIN batch : batch[i] \in Events /\ batch[i].action # "notify"
    /\ AlertOK(last) /\ (last.kind = "ban_batch" => Len(last.items) > 1)

\* What the reader is told was banned was banned: no simulated ban and no notify-only event is
\* announced as a ban, also when the mode changed while the batch was waiting.
BannedIsReal == Colour(last) = "red" => \A i \in DOMAIN last.items : last.items[i].action = "nft"

\* The texts for Telegram and Discord, of full batches and long audits, fit, wide characters
\* included, or the channel would refuse the alert at every attempt.
TextsFit == Units(Telegram(last)) <= TextLimit /\ Units(Discord(last)) <= DetailLimit

\* No ban goes missing from a text in silence: all are there, or the ellipsis is.
Marked(cut, s) == cut = s \/ (cut # <<>> /\ cut[Len(cut)] = Mark)
CutsShow == Marked(Telegram(last), PlainText(last)) /\ Marked(Discord(last), Detail(last))

=============================================================================
