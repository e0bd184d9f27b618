--------------------------- MODULE ProgressiveRead ---------------------------
(***************************************************************************)
(* The pure reducer of a progressive read (crates/lkjstr-relays/src/       *)
(* page_read): what one page read knows of its relays and its events, and  *)
(* the aggregate status it publishes.  Every windowed feed read of the     *)
(* browser host drives this reducer.                                       *)
(*                                                                         *)
(* An event is known here only by its being new or a repeat and by the     *)
(* relays it came from: `events` counts the merged events, `gave` is the   *)
(* set of relays named by the provenance of at least one of them.          *)
(***************************************************************************)
EXTENDS Naturals

CONSTANT Relays           \* the relays of the read

ASSUME RelaysAssumption == Relays # {}

RelayStates == {"Pending", "Connected", "Reading", "Eose", "Timeout",
                "Closed", "Auth", "Error", "Cancelled"}

ReadStatuses == {"Idle", "Partial", "Complete", "Incomplete", "Failed",
                 "Cancelled"}

ReadStates == [relays : [Relays -> RelayStates], events : Nat,
               gave : SUBSET Relays, final : BOOLEAN, status : ReadStatuses]

(* relay_terminal: the relay states no further answer is waited for in.    *)
RelayTerminal == {"Eose", "Timeout", "Closed", "Auth", "Error", "Cancelled"}

TerminalWithoutError == {"Timeout", "Closed", "Auth"}

TerminalStatus(s) == IF s.events > 0 THEN "Incomplete" ELSE "Failed"

(* Mutant: one relay that sent EOSE makes a final read complete.           *)
StatusOfAnyEose(s) ==
    IF \E r \in Relays : s.relays[r] = "Cancelled" THEN "Cancelled"
    ELSE IF s.final /\ \E r \in Relays : s.relays[r] = "Eose" THEN "Complete"
    ELSE IF s.final THEN TerminalStatus(s)
    ELSE IF s.events > 0 THEN "Partial"
    ELSE "Idle"

(* progressive_status: an aggregate status is derived from the whole       *)
(* state, in this order of precedence.                                     *)
Status(s) ==
    IF \E r \in Relays : s.relays[r] = "Cancelled" THEN "Cancelled"
    ELSE IF s.final /\ \A r \in Relays : s.relays[r] = "Eose" THEN "Complete"
    ELSE IF s.final /\ \E r \in Relays :
              s.relays[r] \in TerminalWithoutError \cup {"Error"}
      THEN TerminalStatus(s)
    ELSE IF s.events > 0 THEN "Partial"
    ELSE "Idle"

WithStatus(s) == [s EXCEPT !.status = Status(s)]

InitialProgressiveRead ==
    WithStatus([relays |-> [r \in Relays |-> "Pending"], events |-> 0,
                gave |-> {}, final |-> FALSE, status |-> "Idle"])

(* relay_status and relay_state_from_status: how the end of a relay, with  *)
(* the events it is named by, becomes its state.                           *)
RelayStateOf(end, gaveSome) ==
    IF end = "EventLimit" THEN "Timeout"
    ELSE IF end \in {"Connected", "Reading"}
      THEN (IF gaveSome THEN "Reading" ELSE "Connected")
    ELSE end

(* Every reduction of a cancelled read leaves it as it is.                 *)
Reduce(s, next) == IF s.status = "Cancelled" THEN s ELSE WithStatus(next)

RelayEvents(s, r, new) ==
    Reduce(s, [s EXCEPT !.events = IF new THEN @ + 1 ELSE @,
                        !.gave = @ \cup {r}])

RelayStatus(s, r, end) ==
    Reduce(s, [s EXCEPT !.relays[r] = RelayStateOf(end, r \in s.gave)])

Finalize(s) == Reduce(s, [s EXCEPT !.final = TRUE])

FinalizeAll(s, end) ==
    Reduce(s, [s EXCEPT !.final = TRUE,
                        !.relays = [r \in Relays |->
                                      RelayStateOf(end, r \in s.gave)]])

CancelRead(s) ==
    Reduce(s, [s EXCEPT !.final = TRUE,
                        !.relays = [r \in Relays |-> "Cancelled"]])

TimeoutRead(s) ==
    Reduce(s, [s EXCEPT !.final = TRUE,
                        !.relays = [r \in Relays |->
                                      IF @[r] = "Eose" THEN "Eose"
                                      ELSE "Timeout"]])

RelayDone(s, r) == s.relays[r] \in RelayTerminal

AllRelaysDone(s) == \A r \in Relays : RelayDone(s, r)

=============================================================================
