------------------------------ MODULE PublicChat ------------------------------
(***************************************************************************)
(* The state of a public chat tab (lkjstr-domain/src/public_chat) and the  *)
(* reads planned for it (lkjstr-app/src/public_chat).                      *)
(*                                                                         *)
(* Pure reducers merge channels, metadata, messages and the account's own  *)
(* moderation into one state; nothing orders their calls but the answers   *)
(* of relays, one event at a time, from any relay that holds it, twice if  *)
(* two do.  The caller is not in these crates: reads are asked when the    *)
(* plans allow and applied as public-chat-runtime.ts does.                 *)
(*                                                                         *)
(* An event is a record: kind, id, at (its time, from 1), by, target (the  *)
(* root channel, hidden message or muted key its tags name), refs (every   *)
(* "e" or "p" tag), hints (relays in its metadata), valid (its JSON        *)
(* parses).  Content, reply context, provenance and titles are left out.   *)
(* The active account does not change.  None is 0.                         *)
(***************************************************************************)
EXTENDS Naturals, FiniteSets, SequencesExt

CONSTANTS
    ChatEvents,   \* the events the relays hold
    HeldBy,       \* event id -> the relays that hold it
    Me,           \* the active account
    Selected,     \* the selected read relays, a sequence
    Disabled,     \* the disabled relays
    MaxHints,     \* hint relays added to a plan (4 in the code)
    MaxTabSteps   \* steps of the user and reads asked in a behaviour

\* An id is the hash of its event; ids and times are positive.
ASSUME ChatAssumption ==
    /\ \A e \in ChatEvents : e.id \in Nat \ {0} /\ e.at \in Nat \ {0}
    /\ \A e, f \in ChatEvents : e.id = f.id => e = f

VARIABLES
    channels,    \* known channels, in the order of the list
    chosen,      \* the id of the selected channel
    messages,    \* loaded messages, in chat order
    waiting,     \* "idle" or "messages"
    draft,       \* whether the composer holds text
    publish,     \* [state, id]: "idle", "queued" or "partial"
    hidden,      \* hidden message ids
    muted,       \* muted keys
    chatReads,   \* plans of reads in flight
    sending,     \* own events whose relay results are awaited
    steps,       \* steps of the user and reads so far
    met          \* history: metadata events that met their channel

chatVars == <<channels, chosen, messages, waiting, draft, publish, hidden, muted,
              chatReads, sending, steps, met>>

Idle == [state |-> "idle", id |-> 0]

-----------------------------------------------------------------------------
(* Order of the lists.                                                     *)

Activity(c) ==
    IF c.lastAt # 0 THEN c.lastAt ELSE IF c.metaAt # 0 THEN c.metaAt ELSE c.at

ChannelBefore(a, b) ==
    Activity(a) > Activity(b) \/ (Activity(a) = Activity(b) /\ a.id < b.id)
MessageBefore(a, b) == a.at < b.at \/ (a.at = b.at /\ a.id < b.id)

\* The k-th of a sorted list is the one with k - 1 before it: ids differ.
InPlace(list, Before(_, _)) ==
    [k \in DOMAIN list |->
        list[CHOOSE i \in DOMAIN list :
                 Cardinality({j \in DOMAIN list : Before(list[j], list[i])}) = k - 1]]

SortChannels(cs) == InPlace(cs, ChannelBefore)
SortMessages(ms) == InPlace(ms, MessageBefore)

-----------------------------------------------------------------------------
(* The reducers, one event each.                                           *)

FromCreate(e) ==
    [id |-> e.id, by |-> e.by, at |-> e.at, meta |-> 0, metaAt |-> 0, lastAt |-> 0,
     hints |-> IF e.valid THEN e.hints ELSE <<>>]

NewerByTime(c, e) == c.metaAt = 0 \/ e.at > c.metaAt

MetadataIsNewer(c, e) ==
    \/ c.metaAt = 0
    \/ e.at > c.metaAt
    \/ e.at = c.metaAt /\ e.id > c.meta

MergeCreate(e) ==
    /\ e.kind = "create"
    /\ channels' = SortChannels(IF \E i \in DOMAIN channels : channels[i].id = e.id
                                THEN channels ELSE Append(channels, FromCreate(e)))
    /\ UNCHANGED <<messages, waiting, hidden, muted, met>>

MergeMetadata(e) ==
    /\ e.kind = "metadata" /\ e.valid
    /\ channels' = SortChannels([i \in DOMAIN channels |->
           IF channels[i].id = e.target /\ MetadataIsNewer(channels[i], e)
           THEN [channels[i] EXCEPT !.meta = e.id, !.metaAt = e.at, !.hints = e.hints]
           ELSE channels[i]])
    /\ met' = IF \E i \in DOMAIN channels : channels[i].id = e.target
              THEN met \union {e} ELSE met
    /\ UNCHANGED <<messages, waiting, hidden, muted>>

FromEventUnflagged(e) ==
    [id |-> e.id, channel |-> e.target, by |-> e.by, at |-> e.at,
     hidden |-> FALSE, muted |-> e.by \in muted]

FromEvent(e) ==
    [id |-> e.id, channel |-> e.target, by |-> e.by, at |-> e.at,
     hidden |-> e.id \in hidden, muted |-> e.by \in muted]

Upserted(m) ==
    IF \E i \in DOMAIN messages : messages[i].id = m.id
    THEN [i \in DOMAIN messages |-> IF messages[i].id = m.id THEN m ELSE messages[i]]
    ELSE Append(messages, m)

WithLastMessage(e) ==
    [i \in DOMAIN channels |->
        IF channels[i].id = e.target /\ e.at > channels[i].lastAt
        THEN [channels[i] EXCEPT !.lastAt = e.at] ELSE channels[i]]

\* Whatever channel is selected.
MergeMessage(e) ==
    /\ e.kind = "message"
    /\ messages' = SortMessages(Upserted(FromEvent(e)))
    /\ channels' = SortChannels(WithLastMessage(e))
    /\ waiting' = "idle"
    /\ UNCHANGED <<hidden, muted, met>>

ApplyOwnHide(e) ==
    /\ e.kind = "hide"
    /\ hidden' = hidden \union {e.target}
    /\ messages' = [i \in DOMAIN messages |->
                       [messages[i] EXCEPT !.hidden = messages[i].id \in hidden']]
    /\ UNCHANGED <<channels, waiting, muted, met>>

ApplyOwnMute(e) ==
    /\ e.kind = "mute"
    /\ muted' = muted \union {e.target}
    /\ messages' = [i \in DOMAIN messages |->
                       [messages[i] EXCEPT !.muted = messages[i].by \in muted']]
    /\ UNCHANGED <<channels, waiting, hidden, met>>

Merge(e) == \/ MergeCreate(e) \/ MergeMetadata(e) \/ MergeMessage(e)
            \/ ApplyOwnHide(e) \/ ApplyOwnMute(e)

-----------------------------------------------------------------------------
(* The reads: what a plan asks, and where.                                 *)

Distinct(s) == FoldLeft(LAMBDA acc, x : IF Contains(acc, x) THEN acc ELSE Append(acc, x),
                        <<>>, s)

\* The selected relays, then the first hints that are new.
RouteRelays(hints) ==
    LET base  == Distinct(SelectSeq(Selected, LAMBDA r : r \notin Disabled))
        fresh == Distinct(SelectSeq(hints, LAMBDA r : r \notin Disabled /\ ~Contains(base, r)))
    IN  ToSet(base) \union ToSet(SubSeq(fresh, 1, IF Len(fresh) < MaxHints THEN Len(fresh)
                                                                            ELSE MaxHints))

\* About: the tag values of the filter; Author: one key, or none.
ReadPlan(kind, hints, about, author) ==
    [kind |-> kind, relays |-> RouteRelays(hints), about |-> about, author |-> author]

Known  == {channels[i].id : i \in DOMAIN channels}
LoadedIds == {messages[i].id : i \in DOMAIN messages}
HintsOf(id) == LET of == SelectSeq(channels, LAMBDA c : c.id = id)
               IN  IF of = <<>> THEN <<>> ELSE of[1].hints

Discovery        == {ReadPlan("create", <<>>, {}, {})}
MetadataPlans    == {ReadPlan("metadata", HintsOf(id), {id}, {}) : id \in Known}
MessagePlans(id) == IF id = 0 THEN {} ELSE {ReadPlan("message", HintsOf(id), {id}, {})}
OwnHidePlans     == IF messages = <<>> THEN {} ELSE {ReadPlan("hide", <<>>, LoadedIds, {Me})}
OwnMutePlans     ==
    IF messages = <<>> THEN {}
    ELSE {ReadPlan("mute", <<>>, {messages[i].by : i \in DOMAIN messages}, {Me})}

Matching(p) ==
    {e \in ChatEvents : /\ e.kind = p.kind
                        /\ p.about = {} \/ e.refs \intersect p.about # {}
                        /\ p.author = {} \/ e.by \in p.author
                        /\ HeldBy[e.id] \intersect p.relays # {}}

-----------------------------------------------------------------------------
(* The tab.                                                                *)

ChatInit ==
    /\ channels = <<>> /\ chosen = 0 /\ messages = <<>> /\ waiting = "idle"
    /\ draft = FALSE /\ publish = Idle /\ hidden = {} /\ muted = {}
    /\ chatReads = {} /\ sending = {} /\ steps = 0 /\ met = {}

Ask == /\ steps < MaxTabSteps
       /\ \E p \in Discovery \union MetadataPlans \union OwnHidePlans \union OwnMutePlans :
             chatReads' = chatReads \union {p}
       /\ steps' = steps + 1
       /\ UNCHANGED <<channels, chosen, messages, waiting, draft, publish, hidden,
                      muted, sending, met>>

\* Selecting a channel, or none, clears the messages and asks for its own.
SelectChannel(id) ==
    /\ steps < MaxTabSteps
    /\ chosen' = id /\ messages' = <<>>
    /\ waiting' = IF id = 0 THEN "idle" ELSE "messages"
    /\ chatReads' = chatReads \union MessagePlans(id)
    /\ steps' = steps + 1
    /\ UNCHANGED <<channels, draft, publish, hidden, muted, sending, met>>

Arrive(p, e) == /\ p \in chatReads /\ e \in Matching(p) /\ Merge(e)
                /\ UNCHANGED <<chosen, draft, publish, chatReads, sending, steps>>

\* A read of messages that ends is merged too, be it empty.
Finish(p) == /\ p \in chatReads /\ chatReads' = chatReads \ {p}
             /\ waiting' = IF p.kind = "message" THEN "idle" ELSE waiting
             /\ UNCHANGED <<channels, chosen, messages, draft, publish, hidden, muted,
                            sending, steps, met>>

SetComposerText ==
    /\ steps < MaxTabSteps /\ steps' = steps + 1
    /\ draft' = TRUE
    /\ UNCHANGED <<channels, chosen, messages, waiting, publish, hidden, muted, chatReads,
                   sending, met>>

\* What the account publishes: templates that tag what they are about.
OwnEvents == {e \in ChatEvents : e.by = Me /\ (e.kind = "create" \/ e.target \in e.refs)}

\* An event the account signed is queued and merged at once.
MarkPublishQueued(e) ==
    /\ steps < MaxTabSteps /\ steps' = steps + 1
    /\ e \in OwnEvents /\ e.id \notin sending
    /\ Merge(e)
    /\ publish' = [state |-> "queued", id |-> e.id] /\ draft' = FALSE
    /\ sending' = sending \union {e.id}
    /\ UNCHANGED <<chosen, chatReads>>

\* The result of one event settles the state, whichever event that shows.
MergePublishResult(id, failed) ==
    /\ id \in sending /\ sending' = sending \ {id}
    /\ publish' = IF failed THEN [state |-> "partial", id |-> id] ELSE Idle
    /\ UNCHANGED <<channels, chosen, messages, waiting, draft, hidden, muted, chatReads,
                   steps, met>>

ResetOnTabClose ==
    /\ steps < MaxTabSteps /\ steps' = steps + 1
    /\ channels' = <<>> /\ chosen' = 0 /\ messages' = <<>> /\ waiting' = "idle"
    /\ draft' = FALSE /\ publish' = Idle /\ hidden' = {} /\ muted' = {}
    /\ chatReads' = {} /\ sending' = {} /\ met' = {}

ChatNext ==
    \/ Ask \/ SetComposerText \/ ResetOnTabClose
    \/ \E id \in Known \union {0} : SelectChannel(id)
    \/ \E p \in chatReads : Finish(p) \/ \E e \in Matching(p) : Arrive(p, e)
    \/ \E e \in OwnEvents : MarkPublishQueued(e)
    \/ \E id \in sending, failed \in BOOLEAN : MergePublishResult(id, failed)

ChatSpec == ChatInit /\ [][ChatNext]_chatVars

-----------------------------------------------------------------------------
(* What a row shows.                                                       *)
BodyText(m) == IF m.hidden THEN "hidden" ELSE IF m.muted THEN "muted" ELSE "content"

(* Newest metadata wins, ties by event id: of the metadata events that met *)
(* their channel, whatever their order, a channel shows the greatest.      *)
NewestMetadataWins ==
    \A i \in DOMAIN channels :
        LET mine == {e \in met : e.target = channels[i].id}
        IN  IF mine = {} THEN channels[i].meta = 0
            ELSE \E e \in mine : /\ channels[i].meta = e.id /\ channels[i].hints = e.hints
                                 /\ \A o \in mine : <<o.at, o.id>> = <<e.at, e.id>>
                                       \/ o.at < e.at \/ (o.at = e.at /\ o.id < e.id)

(* No content of a message that the account hid, or of an author it muted, *)
(* comes back: not when the message arrives again from another relay, and  *)
(* not when the channel is left and loaded again.                          *)
ModerationHolds ==
    \A i \in DOMAIN messages :
        BodyText(messages[i]) = IF messages[i].id \in hidden THEN "hidden"
                                ELSE IF messages[i].by \in muted THEN "muted" ELSE "content"
=============================================================================
