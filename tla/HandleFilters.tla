---------------------------- MODULE HandleFilters ----------------------------
(* What a handle is opened with: rules for file operations                   *)
(* (Divert::open_file) or a filter for packets (Divert::open), never both.   *)
EXTENDS FileRules, BpfFilter

VARIABLE layer  \* of the handle, as far as it matters here: "packet" or "file"

HandleInit == Init /\ FilterInit /\ layer \in {"packet", "file"}

PacketStep == layer = "packet" /\ FilterNext /\ UNCHANGED <<layer, vars>>
FileStep == layer = "file" /\ Next /\ UNCHANGED <<layer, filterVars>>

HandleSpec ==
  /\ HandleInit /\ [][PacketStep \/ FileStep]_<<layer, vars, filterVars>>
  /\ WF_vars(Match)
  /\ WF_machineVars(Run)

(* bpf.rs:115-267, minifilter.rs:262-320: a callout that runs a filter and a *)
(* thread that looks for the rule of its operation both come to an end.      *)
WorkEnds == Halts /\ MatchingEnds
=============================================================================
