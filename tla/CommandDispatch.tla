-------------------------- MODULE CommandDispatch --------------------------
(***************************************************************************)
(* wpa_request (ap_interface.c): the search of the command table for the   *)
(* row whose handler gets the request.  A name that abbreviates the names  *)
(* of several rows is refused, unless it is also the full name of one.     *)
(* Cases are not told apart by the code and are left out here.             *)
(***************************************************************************)
EXTENDS Naturals, Sequences

CONSTANT Table  \* the names of hostapd_cli_commands, in their order

ASSUME DispatchAssumption == Table \in Seq(STRING)

\* The names in the table, as built without any CONFIG_ option.
hostapd_cli_commands ==
  <<"ping", "mib", "relog", "status", "sta", "all_sta", "list_sta", "new_sta",
    "deauthenticate", "disassociate", "disassoc_imminent", "ess_disassoc",
    "bss_tm_req", "get_config", "help", "interface", "raw", "level", "license",
    "quit", "set", "get", "set_qos_map_set", "send_qos_map_conf", "chan_switch",
    "hs20_wnm_notif", "hs20_deauth_req", "vendor", "enable", "reload", "disable",
    "update_beacon", "erp_flush", "log_level", "pmksa", "pmksa_flush",
    "set_neighbor", "remove_neighbor", "req_lci", "req_range", "driver_flags",
    "accept_acl", "deny_acl", "poll_sta", "req_beacon", "reload_wpa_psk">>

VARIABLES
  dpc,    \* "idle", "scan", "chosen", "handler", "refused"
  argv0,  \* the name of the request, "none" before the first
  row,    \* cmd
  match,  \* 0 for NULL
  count

dispatchVars == <<dpc, argv0, row, match, count>>

Rows == DOMAIN Table

Abbreviates(a, name) == Len(a) <= Len(name) /\ SubSeq(name, 1, Len(a)) = a

Candidates(a) == {i \in Rows : Abbreviates(a, Table[i])}
Exact(a)      == {i \in Candidates(a) : Table[i] = a}

DispatchTypeOK ==
  /\ dpc \in {"idle", "scan", "chosen", "handler", "refused"}
  /\ row \in 1..(Len(Table) + 1)
  /\ match \in 0..Len(Table)
  /\ count \in 0..Len(Table)

DispatchInit == dpc = "idle" /\ argv0 = "none" /\ row = 1 /\ match = 0 /\ count = 0

----------------------------------------------------------------------------
Request(name) ==
  /\ dpc = "idle"
  /\ dpc' = "scan" /\ argv0' = name
  /\ row' = 1 /\ match' = 0 /\ count' = 0

\* Variant: an exact match counts like any other, and the search goes on.
CompareOnly ==
  /\ dpc = "scan" /\ row \in Candidates(argv0)
  /\ match' = row /\ row' = row + 1 /\ count' = count + 1
  /\ UNCHANGED <<dpc, argv0>>

\* A row that the name abbreviates; "we have an exact match" ends the search.
Compare ==
  /\ dpc = "scan" /\ row \in Candidates(argv0)
  /\ match' = row
  /\ IF row \in Exact(argv0) THEN dpc' = "chosen" /\ count' = 1 /\ UNCHANGED row
                             ELSE row' = row + 1 /\ count' = count + 1 /\ UNCHANGED dpc
  /\ UNCHANGED argv0

PassOver ==
  /\ dpc = "scan" /\ row \in Rows \ Candidates(argv0)
  /\ row' = row + 1
  /\ UNCHANGED <<dpc, argv0, match, count>>

EndOfTable ==
  /\ dpc = "scan" /\ row \notin Rows
  /\ dpc' = "chosen"
  /\ UNCHANGED <<argv0, row, match, count>>

\* "Ambiguous command", "Unknown command", or the handler.
Choose ==
  /\ dpc = "chosen"
  /\ dpc' = IF count = 1 THEN "handler" ELSE "refused"
  /\ UNCHANGED <<argv0, row, match, count>>

Return ==
  /\ dpc \in {"handler", "refused"}
  /\ dpc' = "idle"
  /\ UNCHANGED <<argv0, row, match, count>>

Search == Compare \/ PassOver \/ EndOfTable \/ Choose

----------------------------------------------------------------------------
(* Properties *)

\* The row a name stands for: its own wherever in the table it is and however
\* many longer names it begins; otherwise the only one it abbreviates.
StandsFor(a, i) ==
  \/ i \in Exact(a) /\ \A j \in Exact(a) : i <= j
  \/ Exact(a) = {} /\ Candidates(a) = {i}

\* wpa_request calls the handler of the row the name stands for, and refuses a
\* name that stands for none.
DispatchedAsNamed ==
  /\ dpc = "handler" => StandsFor(argv0, match)
  /\ dpc = "refused" => \A i \in Rows : ~StandsFor(argv0, i)

\* The search so far: no row before this one is exact, and count and match tell
\* how many of them the name abbreviates.
Before(a) == {i \in Candidates(a) : i < row}

Counted ==
  /\ count < row
  /\ Before(argv0) \cap Exact(argv0) = {}
  /\ count = 0 => Before(argv0) = {}
  /\ count = 1 => Before(argv0) = {match}
  /\ count > 1 => \E i, j \in Before(argv0) : i # j

DispatchInv ==
  /\ dpc = "scan" => Counted
  /\ dpc = "chosen" => \/ row \notin Rows /\ Counted
                       \/ row \in Exact(argv0) /\ Before(argv0) \cap Exact(argv0) = {}
                          /\ match = row /\ count = 1
  /\ dpc = "refused" => Exact(argv0) = {}
  /\ DispatchedAsNamed
============================================================================
