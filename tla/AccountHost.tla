---------------------------- MODULE AccountHost ----------------------------
(***************************************************************************)
(* The commands that read and write the account tables of the Rust host    *)
(* (crates/lkjstr-web/src: accounts_host.rs, accounts_selector_*.rs,       *)
(* profile_follow_*.rs, settings_host.rs for its import).  A command is a  *)
(* chain of awaited calls on the shared SQLite store, so other commands    *)
(* run between two calls of it: a step below is one call, with the code    *)
(* that runs from its answer to the next call.                             *)
(*                                                                         *)
(* Rows and secrets are keyed by the public key, while an account id also  *)
(* carries the kind of its signer: adding an account of another kind       *)
(* replaces the row of that key and leaves its secret.                     *)
(***************************************************************************)
EXTENDS Naturals, FiniteSets

CONSTANTS Keys,          \* public keys
          Targets,       \* profiles with a follow button
          Relays,        \* the enabled write relays
          PageKeys,      \* accounts the pages with a button were drawn for
          Boots,         \* tables earlier commands may have left: rows,
                         \* secrets, selector and the old local storage key
          MaxCommands,   \* bound on the commands given
          MaxFaults,     \* bound on the calls that fail
          Ops            \* the commands to consider

Kinds == {"local", "nip07", "readonly"}
AccountIds   == Kinds \X Keys
CanSign(id) == id[1] # "readonly"      \* can_publish of capabilities_for
NoId  == <<>>
NoRow == [kind |-> "none", at |-> 0]

AccountOps == {"load", "add_local", "add_readonly", "nip07", "activate",
               "remove", "reveal"}
AllOps     == AccountOps \cup {"import", "page",
                            "follow_state", "toggle"}

\* The rows earlier commands left were stamped when they were put.
ASSUME AccountAssumption ==
    /\ IsFiniteSet(Keys) /\ PageKeys \subseteq Keys /\ Ops \subseteq AllOps
    /\ \A b \in Boots :
          b.accounts \in [Keys -> {NoRow} \cup [kind : Kinds, at : 1..Cardinality(Keys)]]

VARIABLES
    accounts,      \* accounts, by public key
    secrets,   \* keys with a row in local_account_secrets
    selector,  \* the account id of the selector row of settings
    legacy,    \* localStorage lkjstr.activeAccountId
    lists,     \* the newest follow list the store holds of each key
    cmds,      \* the commands given so far
    panel,     \* accounts and active_id of the Accounts tab
    page,      \* the account a Home or Notifications tab reads for
    buttons,   \* busy and following of each follow button
    clock,     \* browser_now_ms, as the count of stamps taken
    faults     \* number of failed calls

accountVars == <<accounts, secrets, selector, legacy, lists, cmds, panel, page,
                 buttons, clock, faults>>
tables == <<accounts, secrets, selector, legacy, lists, clock>>

Slots  == 1..MaxCommands
Idle   == [op |-> "none", id |-> NoId, to |-> "none", follow |-> FALSE,
           pc |-> "idle", list |-> {}, pick |-> NoId, active |-> NoId,
           noted |-> FALSE, ok |-> FALSE, freed |-> FALSE, tags |-> {}, votes |-> <<>>,
           alone |-> FALSE, clean |-> TRUE]

Stored == {[id |-> <<accounts[k].kind, k>>, at |-> accounts[k].at] :
              k \in {x \in Keys : accounts[x] # NoRow}}
IdsOf(S)  == {a.id : a \in S}
Newest(S) == (CHOOSE a \in S : \A b \in S : b.at <= a.at).id
KeyOf(id) == id[2]
Running   == {c \in Slots : cmds[c].pc \notin {"idle", "done"}}

AccountInit ==
    /\ \E b \in Boots : /\ accounts = b.accounts /\ secrets = b.secrets
                       /\ selector = b.selector /\ legacy = b.legacy
    /\ lists = [k \in Keys |-> Targets]
    /\ cmds = [c \in Slots |-> Idle]
    /\ panel = [list |-> IdsOf(Stored), active |-> NoId]
    /\ page = [state |-> "loading", key |-> "none"]
    /\ buttons = [t \in Targets |-> [busy |-> FALSE, following |-> FALSE]]
    /\ clock = Cardinality(Keys) /\ faults = 0

-----------------------------------------------------------------------------
(* How a call ends: it is answered, it fails without an effect, or it      *)
(* takes effect and its answer is lost (a timeout of the worker client).   *)

Answered == UNCHANGED faults
Fails    == faults < MaxFaults /\ faults' = faults + 1

Continue(c, r)   == cmds' = [cmds EXCEPT ![c] = r]
Broken(r)    == [r EXCEPT !.clean = FALSE]
Done         == [Idle EXCEPT !.pc = "done"]
At(c, pc)    == cmds[c].pc = pc

\* A write of command c: apply says what the tables become, yes and no are
\* the record of the command after an Ok and after any other outcome.
Write(c, apply, keep, yes, no) ==
    \/ Answered /\ apply /\ Continue(c, yes)
    \/ Fails /\ (keep \/ apply) /\ Continue(c, Broken(no))

ClearedLegacy == legacy' = NoId

-----------------------------------------------------------------------------
(* Commands the user gives *)

First(op) == CASE op \in {"load", "page", "toggle"} -> "list"
               [] op \in {"add_local", "add_readonly"} -> "add"
               [] op = "nip07"             -> "signer"
               [] op = "activate"          -> "get"
               [] op = "remove"            -> "drop"
               [] op = "reveal"            -> "reveal"
               [] op = "import"            -> "import"
               [] op = "follow_state"      -> "latest"

Given(op, id, t, follow) ==
    \E c \in Slots :
        /\ op \in Ops
        /\ At(c, "idle") /\ \A d \in Slots : d < c => ~At(d, "idle")
        /\ cmds' = [d \in Slots |->
              IF d = c THEN [Idle EXCEPT !.op = op, !.id = id, !.to = t,
                                         !.follow = follow, !.pc = First(op),
                                         !.alone = Running = {}]
              ELSE [cmds[d] EXCEPT !.alone = @ /\ d \notin Running]]

OpenTab == \E op \in {"load", "page"} : /\ Given(op, NoId, "none", FALSE)
                                       /\ UNCHANGED <<tables, panel, page, buttons, faults>>

AddInput ==
    \E k \in Keys, op \in {"add_local", "add_readonly"} :
        /\ Given(op, <<IF op = "add_local" THEN "local" ELSE "readonly", k>>, "none", FALSE)
        /\ UNCHANGED <<tables, panel, page, buttons, faults>>

ConnectNip07 == Given("nip07", NoId, "none", FALSE)
                /\ UNCHANGED <<tables, panel, page, buttons, faults>>

RowCommand ==
    \E id \in panel.list, op \in {"activate", "remove", "reveal"} :
        /\ op = "reveal" => id[1] = "local"
        /\ Given(op, id, "none", FALSE)
        /\ UNCHANGED <<tables, panel, page, buttons, faults>>

Import == Given("import", NoId, "none", FALSE)
          /\ UNCHANGED <<tables, panel, page, buttons, faults>>

\* The button of profile t on a page whose account is k: mounting reads the
\* state, a click toggles it unless the button is busy.
ShowButton ==
    \E t \in Targets, k \in PageKeys :
        /\ ~buttons[t].busy
        /\ Given("follow_state", <<"local", k>>, t, FALSE)
        /\ buttons' = [buttons EXCEPT ![t].busy = TRUE]
        /\ UNCHANGED <<tables, panel, page, faults>>

ClickButton ==
    \E t \in Targets, k \in PageKeys :
        /\ ~buttons[t].busy
        /\ Given("toggle", <<"local", k>>, t, ~buttons[t].following)
        /\ buttons' = [buttons EXCEPT ![t].busy = TRUE]
        /\ UNCHANGED <<tables, panel, page, faults>>

-----------------------------------------------------------------------------
(* Saving and removing accounts *)

NewRow(id) == [kind |-> id[1], at |-> clock + 1]

\* sqlite_local_account_put is one batch, sqlite_account_put one row.
PutAccount(id) ==
    /\ accounts' = [accounts EXCEPT ![KeyOf(id)] = NewRow(id)]
    /\ secrets' = IF id[1] = "local" THEN secrets \cup {KeyOf(id)} ELSE secrets
    /\ clock' = clock + 1

AddAccount(c) ==
    LET r == cmds[c] IN
    /\ At(c, "add")
    /\ Write(c, PutAccount(r.id), UNCHANGED <<accounts, secrets, clock>>,
             [r EXCEPT !.pc = "save", !.pick = r.id],
             [r EXCEPT !.pc = "list"])
    /\ UNCHANGED <<selector, legacy, lists, panel, page, buttons>>

\* nip07_public_key: the extension answers with a key of its own, refuses,
\* or answers nothing for as long as its prompt is open.
SignerAnswers(c) ==
    LET r == cmds[c] IN
    /\ At(c, "signer")
    /\ \/ \E k \in Keys : Continue(c, [r EXCEPT !.pc = "add", !.id = <<"nip07", k>>])
       \/ Continue(c, Broken([r EXCEPT !.pc = "list"]))
    /\ UNCHANGED <<tables, panel, page, buttons, faults>>

\* The row of a key, whatever the kind of the id that was asked for.
AccountOf(k) == IF accounts[k] = NoRow THEN NoId ELSE <<accounts[k].kind, k>>

FindAccount(c) ==
    LET r     == cmds[c]
        found == AccountOf(KeyOf(r.id)) IN
    /\ At(c, "get")
    /\ \/ /\ Answered /\ found # NoId
          /\ Continue(c, [r EXCEPT !.pick = found,
                               !.pc = IF found[1] = "local" THEN "probe" ELSE "save"])
       \/ Answered /\ found = NoId /\ Continue(c, Broken([r EXCEPT !.pc = "list"]))
       \/ Fails /\ Continue(c, Broken([r EXCEPT !.pc = "list"]))
    /\ UNCHANGED <<tables, panel, page, buttons>>

\* local_secret_available: its answer only goes into the selector row.
ProbeSecret(c) ==
    LET r == cmds[c] IN
    /\ At(c, "probe")
    /\ \/ Answered /\ Continue(c, [r EXCEPT !.pc = "save"])
       \/ Fails /\ Continue(c, [r EXCEPT !.pc = "save"])
    /\ UNCHANGED <<tables, panel, page, buttons>>

\* put_selector_for_account, of a command that makes pick the active account
\* or of resolve_active_selector, which then answers with pick.
Resolving(r) == r.list # {}

SaveSelector(c) ==
    LET r    == cmds[c]
        next == IF Resolving(r) THEN [r EXCEPT !.pc = "resolved", !.active = r.pick]
                                ELSE [r EXCEPT !.pc = "list"] IN
    /\ At(c, "save")
    /\ \/ Answered /\ selector' = r.pick /\ ClearedLegacy /\ Continue(c, next)
       \/ /\ Fails /\ selector' \in {selector, r.pick} /\ UNCHANGED legacy
          /\ Continue(c, Broken([next EXCEPT !.noted = TRUE]))
    /\ UNCHANGED <<accounts, secrets, lists, clock, panel, page, buttons>>

DeleteAccount(k) == accounts' = [accounts EXCEPT ![k] = NoRow]

DropAccount(c) ==
    LET r == cmds[c] IN
    /\ At(c, "drop")
    /\ Write(c, DeleteAccount(KeyOf(r.id)), UNCHANGED accounts,
             [r EXCEPT !.pc = "forget", !.ok = TRUE], [r EXCEPT !.pc = "forget"])
    /\ UNCHANGED <<secrets, selector, legacy, lists, clock, panel, page, buttons>>

DeleteSecret(k) == secrets' = secrets \ {k}

\* The outcome of the secret's delete is not looked at.
ForgetSecret(c) ==
    LET r    == cmds[c]
        next == [r EXCEPT !.pc = IF r.ok THEN "unselect" ELSE "list"] IN
    /\ At(c, "forget")
    /\ Write(c, DeleteSecret(KeyOf(r.id)), UNCHANGED secrets, next, next)
    /\ UNCHANGED <<accounts, selector, legacy, lists, clock, panel, page, buttons>>

\* delete_selector_if_account_active
Unselect(c) ==
    LET r == cmds[c] IN
    /\ At(c, "unselect")
    /\ \/ /\ Answered /\ selector = r.id /\ UNCHANGED legacy
          /\ Continue(c, [r EXCEPT !.pc = "deselect"])
       \/ /\ Answered /\ selector # r.id
          /\ legacy' = IF legacy = r.id THEN NoId ELSE legacy
          /\ Continue(c, [r EXCEPT !.pc = "list"])
       \/ Fails /\ UNCHANGED legacy /\ Continue(c, Broken([r EXCEPT !.pc = "list"]))
    /\ UNCHANGED <<accounts, secrets, selector, lists, clock, panel, page, buttons>>

DeleteSelector(c) ==
    LET r == cmds[c] IN
    /\ At(c, "deselect")
    /\ Write(c, selector' = NoId /\ ClearedLegacy, UNCHANGED <<selector, legacy>>,
             [r EXCEPT !.pc = "list", !.freed = TRUE], [r EXCEPT !.pc = "list"])
    /\ UNCHANGED <<accounts, secrets, lists, clock, panel, page, buttons>>

SecretHeld(k) == k \in secrets

RevealSecret(c) ==
    LET r == cmds[c] IN
    /\ At(c, "reveal")
    /\ \/ Answered /\ Continue(c, [r EXCEPT !.pc = "list", !.ok = SecretHeld(KeyOf(r.id))])
       \/ Fails /\ Continue(c, Broken([r EXCEPT !.pc = "list"]))
    /\ UNCHANGED <<tables, panel, page, buttons>>

\* sqlite_settings_replace_all clears the table that also holds the selector.
ReplaceSettings == selector' = NoId

ImportSettings(c) ==
    /\ At(c, "import")
    /\ Write(c, ReplaceSettings, UNCHANGED selector, Done, Done)
    /\ UNCHANGED <<accounts, secrets, legacy, lists, clock, panel, page, buttons>>

-----------------------------------------------------------------------------
(* load_result, resolve_active_selector *)

Resolved(r, id) == [r EXCEPT !.pc = "resolved", !.active = id]

ListAccounts(c) ==
    LET r == cmds[c] IN
    /\ At(c, "list")
    /\ \/ Answered /\ Continue(c, IF Stored = {} THEN Resolved([r EXCEPT !.list = {}], NoId)
                              ELSE [r EXCEPT !.list = Stored, !.pc = "selector"])
       \/ Fails /\ Continue(c, Broken(Resolved([r EXCEPT !.noted = TRUE], NoId)))
    /\ UNCHANGED <<tables, panel, page, buttons>>

\* put_selector_for_existing_account asks for the secret of a local account.
Choose(r, id, noted) ==
    [r EXCEPT !.pick = id, !.noted = @ \/ noted,
              !.pc = IF id[1] = "local" THEN "probe" ELSE "save"]

\* Mutant: the selector is taken at its word.
ReadSelectorUnchecked(c) ==
    LET r == cmds[c] IN
    /\ At(c, "selector") /\ Answered
    /\ IF selector # NoId THEN Continue(c, Resolved(r, selector))
       ELSE Continue(c, Choose(r, Newest(r.list), FALSE))
    /\ UNCHANGED <<tables, panel, page, buttons>>

ReadSelector(c) ==
    LET r     == cmds[c]
        known == IdsOf(r.list) IN
    /\ At(c, "selector")
    /\ \/ /\ Answered
          /\ \/ selector \in known /\ Continue(c, Resolved(r, selector))
             \/ /\ selector # NoId /\ selector \notin known
                /\ Continue(c, Choose(r, Newest(r.list), TRUE))
             \/ /\ selector = NoId
                /\ Continue(c, Choose(r, IF legacy \in known THEN legacy ELSE Newest(r.list), FALSE))
       \/ Fails /\ Continue(c, Broken(Resolved([r EXCEPT !.noted = TRUE], NoId)))
    /\ UNCHANGED <<tables, panel, page, buttons>>

\* AccountsComplete: the panel shows the result, whatever was shown since.
ShowAccounts(c) ==
    /\ At(c, "resolved") /\ cmds[c].op \in AccountOps
    /\ panel' = [list |-> IdsOf(cmds[c].list), active |-> cmds[c].active]
    /\ Continue(c, Done)
    /\ UNCHANGED <<tables, page, buttons, faults>>

\* resolve_protected_account, page_active_account_fallback: a store that does
\* not answer leaves the account the page data names, if it names one.
NoAnswer == {[state |-> "unavailable", key |-> "none"]}
            \cup [state : {"selected"}, key : PageKeys]

ShowPage(c) ==
    LET r == cmds[c] IN
    /\ At(c, "resolved") /\ r.op = "page"
    /\ IF r.active # NoId THEN page' = [state |-> "selected", key |-> KeyOf(r.active)]
       ELSE IF r.noted THEN page' \in NoAnswer
       ELSE page' = [state |-> "no_accounts", key |-> "none"]
    /\ Continue(c, Done)
    /\ UNCHANGED <<tables, panel, buttons, faults>>

-----------------------------------------------------------------------------
(* The follow button: publish_follow_toggle *)

\* ProfileFollowComplete: an error restores the state before the click.
Tell(c, following) ==
    /\ Continue(c, Done)
    /\ buttons' = [buttons EXCEPT ![cmds[c].to] = [busy |-> FALSE, following |-> following]]

GiveUp(c) == Tell(c, cmds[c].op = "toggle" /\ ~cmds[c].follow)

CheckAccount(c) ==
    LET r  == cmds[c]
        id == r.active IN
    /\ At(c, "resolved") /\ r.op = "toggle"
    /\ IF ~r.noted /\ id # NoId /\ KeyOf(id) = KeyOf(r.id) /\ CanSign(id)
       THEN Continue(c, [r EXCEPT !.pc = "relays"]) /\ UNCHANGED buttons
       ELSE GiveUp(c)
    /\ UNCHANGED <<tables, panel, page, faults>>

WriteRelays(c) ==
    LET r == cmds[c] IN
    /\ At(c, "relays")
    /\ \/ Answered /\ Relays # {} /\ Continue(c, [r EXCEPT !.pc = "latest"]) /\ UNCHANGED buttons
       \/ Answered /\ Relays = {} /\ GiveUp(c)
       \/ Fails /\ GiveUp(c)
    /\ UNCHANGED <<tables, panel, page>>

NextTags(r, tags) == IF r.follow THEN tags \cup {r.to} ELSE tags \ {r.to}

\* latest_follow_list, of the button's load and of the toggle.
LatestList(c) ==
    LET r    == cmds[c]
        tags == lists[KeyOf(r.id)] IN
    /\ At(c, "latest")
    /\ \/ /\ Answered /\ r.op = "follow_state"
          /\ Tell(c, r.to \in tags)
       \/ /\ Answered /\ r.op = "toggle" /\ UNCHANGED buttons
          /\ Continue(c, [r EXCEPT !.tags = NextTags(r, tags),
                               !.pc = IF r.active[1] = "local" THEN "sign" ELSE "ask"])
       \/ Fails /\ GiveUp(c)
    /\ UNCHANGED <<tables, panel, page>>

Publish(c, author) ==
    Continue(c, [cmds[c] EXCEPT !.pc = "publish", !.pick = <<"author", author>>,
                            !.votes = [w \in Relays |-> "sent"]])

SignLocal(c) ==
    LET r == cmds[c] IN
    /\ At(c, "sign")
    /\ \/ /\ Answered /\ SecretHeld(KeyOf(r.active))
          /\ Publish(c, KeyOf(r.active)) /\ UNCHANGED buttons
       \/ Answered /\ ~SecretHeld(KeyOf(r.active)) /\ GiveUp(c)
       \/ Fails /\ GiveUp(c)
    /\ UNCHANGED <<tables, panel, page>>

\* The event the extension signs: it may have switched to another key.
validate_signed_follow_event(r, author) == author = KeyOf(r.active)

AskExtension(c) ==
    LET r == cmds[c] IN
    /\ At(c, "ask")
    /\ \/ \E k \in Keys : \/ /\ validate_signed_follow_event(r, k)
                             /\ Publish(c, k) /\ UNCHANGED buttons
                          \/ ~validate_signed_follow_event(r, k) /\ GiveUp(c)
       \/ GiveUp(c)
    /\ UNCHANGED <<tables, panel, page, faults>>

\* The first of OK, a refusal (an OK false, a notice, AUTH, a parse error, a
\* close, an error) and the timer settles the promise of a relay.
Vote(c, w, v) ==
    /\ At(c, "publish") /\ cmds[c].votes[w] = "sent"
    /\ cmds' = [cmds EXCEPT ![c].votes[w] = v]
    /\ UNCHANGED <<tables, panel, page, buttons, faults>>

RelayAccepts(c, w)   == Vote(c, w, "accepted")
RelayRefuses(c, w)   == Vote(c, w, "refused")
NoPublishTimeout(c, w) == FALSE
PublishTimeout(c, w) == Vote(c, w, "refused")

Accepted(r) == {w \in DOMAIN r.votes : r.votes[w] = "accepted"}

PublishEnds(c) ==
    LET r == cmds[c] IN
    /\ At(c, "publish") /\ \A w \in Relays : r.votes[w] # "sent"
    /\ IF Accepted(r) # {} THEN Continue(c, [r EXCEPT !.pc = "store"]) /\ UNCHANGED buttons
                           ELSE GiveUp(c)
    /\ UNCHANGED <<tables, panel, page, faults>>

StoreList(c) ==
    LET r   == cmds[c]
        put == lists' = [lists EXCEPT ![KeyOf(r.pick)] = r.tags] IN
    /\ At(c, "store")
    /\ \/ Answered /\ put /\ Continue(c, [r EXCEPT !.pc = "stored"]) /\ UNCHANGED buttons
       \/ Fails /\ (put \/ UNCHANGED lists) /\ GiveUp(c)
    /\ UNCHANGED <<accounts, secrets, selector, legacy, clock, panel, page>>

ShowToggle(c) ==
    /\ At(c, "stored") /\ Tell(c, cmds[c].to \in cmds[c].tags)
    /\ UNCHANGED <<tables, panel, page, faults>>

-----------------------------------------------------------------------------
User == OpenTab \/ AddInput \/ ConnectNip07 \/ RowCommand \/ Import
        \/ ShowButton \/ ClickButton

\* Steps the store, the timers and the code itself are bound to take: every
\* call of the worker client is answered or times out.
Progress(c) ==
    \/ AddAccount(c) \/ FindAccount(c) \/ ProbeSecret(c) \/ SaveSelector(c)
    \/ DropAccount(c) \/ ForgetSecret(c) \/ Unselect(c) \/ DeleteSelector(c)
    \/ RevealSecret(c) \/ ImportSettings(c) \/ ListAccounts(c) \/ ReadSelector(c)
    \/ ShowAccounts(c) \/ ShowPage(c) \/ CheckAccount(c) \/ WriteRelays(c) \/ LatestList(c)
    \/ SignLocal(c) \/ PublishEnds(c) \/ StoreList(c) \/ ShowToggle(c)

Outside(c) ==
    \/ SignerAnswers(c) \/ AskExtension(c)
    \/ \E w \in Relays : RelayAccepts(c, w) \/ RelayRefuses(c, w)

AccountNext ==
    \/ User
    \/ \E c \in Slots : \/ Progress(c) \/ Outside(c)
                       \/ \E w \in Relays : PublishTimeout(c, w)

AccountFairness == \A c \in Slots : /\ WF_accountVars(Progress(c))
                                   /\ \A w \in Relays : WF_accountVars(PublishTimeout(c, w))

AccountSpec == AccountInit /\ [][AccountNext]_accountVars /\ AccountFairness

-----------------------------------------------------------------------------
AccountTypes ==
    /\ accounts \in [Keys -> {NoRow} \cup [kind : Kinds, at : 1..(MaxCommands + Cardinality(Keys))]]
    /\ secrets \subseteq Keys /\ selector \in AccountIds \cup {NoId} /\ legacy \in AccountIds \cup {NoId}
    /\ lists \in [Keys -> SUBSET Targets]
    /\ panel \in [list : SUBSET AccountIds, active : AccountIds \cup {NoId}]
    /\ page \in [state : {"loading", "selected", "no_accounts", "unavailable"},
                 key : Keys \cup {"none"}]
    /\ buttons \in [Targets -> [busy : BOOLEAN, following : BOOLEAN]]
    /\ clock \in 0..(MaxCommands + Cardinality(Keys)) /\ faults \in 0..MaxFaults

\* Whatever overlapping or failing commands and a settings import left
\* behind, the next command that runs alone and without a failure shows what
\* is stored, with a stored account active and the selector naming it; an
\* added account is the active one and a local one can sign; a removed one
\* leaves neither row nor secret, and removing the active account makes the
\* newest remaining one active (docs/product/tools/accounts.md:34-35).
LoneCommandRepairs ==
    \A c \in Slots :
        LET r == cmds[c] IN
        (r.pc = "resolved" /\ r.op \in AccountOps /\ r.alone /\ r.clean) =>
            /\ r.list = Stored
            /\ IF Stored = {} THEN r.active = NoId
               ELSE r.active = selector /\ selector \in IdsOf(Stored)
            /\ r.op \in {"add_local", "add_readonly", "nip07"} => r.active = r.id
            /\ r.op = "add_local" => KeyOf(r.id) \in secrets
            /\ r.op = "activate" => KeyOf(r.active) = KeyOf(r.id)
            /\ r.op = "remove" => accounts[KeyOf(r.id)] = NoRow /\ KeyOf(r.id) \notin secrets
            /\ r.freed /\ Stored # {} => r.active = Newest(Stored)

\* A follow button that is busy becomes free again, unless the extension
\* keeps its prompt open: every relay answers or runs into the eight seconds
\* of its timer (profile_follow_publish.rs:12,71-80).
ButtonFreed ==
    \A t \in Targets :
        buttons[t].busy ~> (~buttons[t].busy \/ \E c \in Slots : cmds[c].to = t /\ At(c, "ask"))

=============================================================================
