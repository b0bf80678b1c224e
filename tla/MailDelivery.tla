---------------------------- MODULE MailDelivery ----------------------------
(***************************************************************************)
(* One alert on its way to the mail channel: sendEmailContext step by step *)
(* against a server, tried again by the queue until it succeeds.  The      *)
(* server accepts or refuses every command, and the connection may break   *)
(* or run into the deadline before and after it has acted on one.          *)
(***************************************************************************)
EXTENDS Naturals, Sequences, FiniteSets

CONSTANTS
    Recipients,        \* the addresses of `to', in order
    Presets,           \* Presets[d]: the port of the preset of a sender's domain
    Hosts, NoHost,     \* smtp_host; an empty one
    Ports,             \* smtp_port; 0 for none
    ImplicitTLS,       \* the port that speaks TLS from the start (465)
    PresetHost,        \* PresetHost[d]: the host of the preset
    MaxFaults          \* bound: answers lost after the server has accepted the message

VARIABLES
    cfg,               \* the settings: domain, host and port
    host, port,        \* those the session uses
    pc,
    secure,            \* the connection is under TLS
    accepted,          \* recipients the server has accepted in this session
    copies,            \* how often each recipient has been sent the alert
    exposed,           \* ghost: the password was sent without TLS
    state,             \* the alert: "queued", "done" or "refused" before any connection
    faults

session == <<host, port, secure, accepted>>
vars    == <<cfg, session, pc, copies, exposed, state, faults>>

Domains == DOMAIN Presets \cup {"other"}
Settings == [domain : Domains, host : Hosts \cup {NoHost}, port : Ports]
ToAll   == {Recipients[i] : i \in 1..Len(Recipients)}

MailAssumption ==
    /\ Recipients \in Seq(ToAll) /\ Recipients # <<>> /\ Cardinality(ToAll) = Len(Recipients)
    /\ "other" \notin DOMAIN Presets /\ DOMAIN PresetHost = DOMAIN Presets
    /\ \A d \in DOMAIN Presets : Presets[d] \in Nat
    /\ 0 \in Ports /\ Ports \subseteq Nat /\ NoHost \notin Hosts /\ ImplicitTLS \in Nat \ {0} /\ MaxFaults \in Nat

\* The session ends without success; the queue tries again later.
Fail == pc' = "idle" /\ UNCHANGED <<cfg, session, copies, exposed, state, faults>>

-----------------------------------------------------------------------------
\* InferSMTP fills in what is missing.
Infer(c) ==
    [host |-> IF c.host = NoHost THEN PresetHost[c.domain] ELSE c.host,
     port |-> IF c.port = 0 THEN Presets[c.domain] ELSE c.port]

Known(c) == (c.host # NoHost /\ c.port # 0) \/ c.domain \in DOMAIN Presets

\* Without a preset to infer from, no connection is made.
Refuse ==
    /\ state = "queued" /\ pc = "idle" /\ ~Known(cfg)
    /\ state' = "refused"
    /\ UNCHANGED <<cfg, session, pc, copies, exposed, faults>>

Dial ==
    /\ state = "queued" /\ pc = "idle" /\ Known(cfg)
    /\ host' = Infer(cfg).host /\ port' = Infer(cfg).port
    /\ secure' = FALSE /\ accepted' = {}
    /\ pc' = IF port' = ImplicitTLS THEN "handshake" ELSE "hello"
    /\ UNCHANGED <<cfg, copies, exposed, state, faults>>

Handshake ==
    /\ pc = "handshake" /\ pc' = "auth"
    /\ secure' = TRUE
    /\ UNCHANGED <<cfg, host, port, accepted, copies, exposed, state, faults>>

\* The server offers STARTTLS or the session ends.
Hello(offers) ==
    /\ pc = "hello" /\ offers /\ pc' = "auth" /\ secure' = TRUE
    /\ UNCHANGED <<cfg, host, port, accepted, copies, exposed, state, faults>>

Auth ==
    /\ pc = "auth" /\ pc' = "rcpt"
    /\ exposed' = (exposed \/ ~secure)
    /\ UNCHANGED <<cfg, session, copies, state, faults>>

\* MAIL, then RCPT for each recipient, whose refusal ends the session.
NextRecipient == Recipients[Cardinality(accepted) + 1]

Rcpt ==
    /\ pc = "rcpt" /\ accepted # ToAll
    /\ accepted' = accepted \cup {NextRecipient}
    /\ UNCHANGED <<cfg, host, port, secure, pc, copies, exposed, state, faults>>

\* Mutant: a refused recipient is passed over.
ReadyWithSome == accepted # {}
Ready == accepted = ToAll

\* DATA, the message, and the dot that ends it: the server takes the message for those it has accepted.
Data ==
    /\ pc = "rcpt" /\ Ready /\ pc' = "quit"
    /\ copies' = [r \in ToAll |-> copies[r] + IF r \in accepted THEN 1 ELSE 0]
    /\ UNCHANGED <<cfg, session, exposed, state, faults>>

\* The answer to the dot, or to QUIT, is lost: the message is under way, the session has failed.
AnswerLost ==
    /\ pc = "quit" /\ faults < MaxFaults /\ faults' = faults + 1
    /\ pc' = "idle"
    /\ UNCHANGED <<cfg, session, copies, exposed, state>>

Quit ==
    /\ pc = "quit" /\ pc' = "idle" /\ state' = "done"
    /\ UNCHANGED <<cfg, session, copies, exposed, faults>>

\* Any step before that may fail: a refusal, a broken connection, the deadline of ten seconds.
Break == pc \notin {"idle", "quit"} /\ Fail

Init ==
    /\ cfg \in Settings
    /\ host = NoHost /\ port = 0 /\ secure = FALSE /\ accepted = {}
    /\ pc = "idle" /\ copies = [r \in ToAll |-> 0] /\ exposed = FALSE
    /\ state = "queued" /\ faults = 0

Next ==
    \/ Refuse \/ Dial \/ Handshake \/ (\E offers \in BOOLEAN : Hello(offers))
    \/ Auth \/ Rcpt \/ Data \/ AnswerLost \/ Quit \/ Break

Spec == Init /\ [][Next]_vars

-----------------------------------------------------------------------------
\* Properties.

\* The session is at a step of the protocol.
TypeOK ==
    /\ host \in Hosts \cup {NoHost} \cup {PresetHost[d] : d \in DOMAIN Presets} /\ port \in Nat
    /\ pc \in {"idle", "handshake", "hello", "auth", "rcpt", "quit"} /\ secure \in BOOLEAN
    /\ accepted \subseteq ToAll /\ copies \in [ToAll -> 0..(MaxFaults + 1)]
    /\ state \in {"queued", "done", "refused"} /\ exposed \in BOOLEAN

\* docs/configuration-en.md:115: TLS from the start or STARTTLS, so no server sees the password in
\* the clear, whatever it offers and whichever step of an earlier session broke off.
PasswordUnderTLS == ~exposed

\* The alert reaches all recipients or none of them: a refused recipient, a broken session and the
\* next attempt leave nobody behind and give nobody more than the others.
AllOrNone == \A r, s \in ToAll : copies[r] = copies[s]

\* Done means sent, and sent once, but for one copy more for every answer that was lost.
SentOnce == \A r \in ToAll : copies[r] <= 1 + faults /\ (state = "done" => copies[r] >= 1)

\* docs/configuration-en.md:115: only missing values are inferred.
KeepsSettings == (cfg.host # NoHost => host \in {NoHost, cfg.host}) /\ (cfg.port # 0 => port \in {0, cfg.port})
=============================================================================
