------------------------------- MODULE MCHosts -------------------------------
(* The hosts of the Rust crates, each in behaviours of its own: Accounts    *)
(* with two keys over tables that earlier commands left; a panel with two    *)
(* commands on one url or two values; three calls of the shared store; two   *)
(* pages with a storage worker each.  At most one call fails.                *)
EXTENDS StorageWorker, SqliteHost, AccountHost, PanelHost

VARIABLE part   \* the host of this behaviour

Row(kind, at) == [kind |-> kind, at |-> IF kind = "none" THEN 0 ELSE at]
B(kinds, held, sel, old) ==
    [accounts |-> [k1 |-> Row(kinds[1], 2), k2 |-> Row(kinds[2], 1)],
     secrets |-> held, selector |-> sel, legacy |-> old]

\* Nothing; an upgrade with the old key; a local and a read-only account; a
\* dangling selector beside an orphan secret (a removal raced an activation,
\* a read-only account replaced a local one); a NIP-07 account.
MCBoots ==
    {B(<<"none", "none">>, {}, NoId, NoId),
     B(<<"local", "readonly">>, {"k1"}, NoId, <<"readonly", "k2">>),
     B(<<"readonly", "local">>, {"k2"}, <<"readonly", "k1">>, <<"local", "k2">>),
     B(<<"readonly", "none">>, {"k1"}, <<"local", "k2">>, NoId),
     B(<<"nip07", "local">>, {}, <<"nip07", "k1">>, NoId)}
MCAllOps == {"load", "add_local", "add_readonly", "nip07", "activate", "remove", "reveal",
             "import", "page", "follow_state", "toggle"}

\* A host that does not run has one state.
MCInit ==
    /\ part \in {"accounts", "panels", "store", "worker"}
    /\ Init /\ AccountInit /\ PanelInit /\ StoreInit
    /\ part # "accounts" => selector = <<"nip07", "k1">> /\ accounts["k1"].kind = "nip07"
    /\ part # "panels" => /\ tab = "upload" /\ sets = NoRows /\ selected = "none"
                          /\ \A k \in DOMAIN texts : texts[k] = NoText

MCNext ==
    \/ /\ part = "accounts" /\ AccountNext
       /\ UNCHANGED <<part, panelVars, storeVars, vars>>
    \/ /\ part = "panels" /\ PanelNext
       /\ UNCHANGED <<part, accountVars, storeVars, vars>>
    \/ /\ part = "store" /\ StoreNext
       /\ UNCHANGED <<part, accountVars, panelVars, vars>>
    \/ /\ part = "worker" /\ Next
       /\ UNCHANGED <<part, accountVars, panelVars, storeVars>>

allVars == <<part, accountVars, panelVars, storeVars, vars>>
MCSpec == MCInit /\ [][MCNext]_allVars /\ AccountFairness

\* The store alone, for the run with four calls of it and no closing.
RaceSpec == MCInit /\ part = "store" /\ [][MCNext]_allVars
=============================================================================
