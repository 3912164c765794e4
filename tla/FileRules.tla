------------------------------ MODULE FileRules ------------------------------
(***************************************************************************)
(* Which file operations are suspended: the rules a client puts together   *)
(* with FileModuleConfig::add_filter (dll/src/types.rs) and the loop of    *)
(* minifilter_pre_op (src/src/file_monitor/minifilter.rs) that looks for   *)
(* one that an operation falls under, the matching of '*' and '?' step by  *)
(* step.                                                                   *)
(*                                                                         *)
(* Paths are sequences of UTF-16 units, numbered from 1 here and from 0 in *)
(* the code.  What happens to an operation that is suspended is module     *)
(* FileTx.                                                                 *)
(***************************************************************************)
EXTENDS Integers, SequencesExt

CONSTANTS
  Filters,     \* the arguments of add_filter: [mask, type, path, pid, exclude],
               \* a mask being the set of its bits
  Together,    \* bound: the filters put in one configuration with others
  RawConfigs,  \* configurations sent to the driver without add_filter
  Operations,  \* the operations pre_op sees: [mask, pid, paging, name]
  Devices,     \* QueryDosDevice: the device of each drive
  ExemptPid,   \* the process that opened the handle
  MaxRules,    \* MAX_FILTER_RULES
  MaxPath,     \* MAX_RULE_PATH_LEN
  MaxName      \* path_buf of pre_op

VARIABLES
  config,    \* FileModuleConfig: [rule_count, rules]
  asked,     \* history: the filters in it, drive letters read as devices
  started,   \* the configuration is in the driver
  op,        \* the operation in pre_op
  rule_i,    \* i, the rule looked at
  p_idx, t_idx, star_idx, match_idx,  \* matches_glob_u16
  outcome    \* of the operation: "suspended" or "passed"

glob == <<p_idx, t_idx, star_idx, match_idx>>
vars == <<config, asked, started, op, rule_i, glob, outcome>>

Exact == 0
Prefix == 1
Suffix == 2
Wildcard == 3

Star == 42   \* '*'
OneUnit == 63   \* '?'
Colon == 58
None == -1

NoOp == [mask |-> {}, pid |-> 0, paging |-> FALSE, name |-> <<>>]
NoRule == [mask |-> {}, type |-> Exact, path |-> <<>>, path_len |-> 0, pid |-> 0, exclude |-> FALSE]

(* to_lower_u16: only the letters of ASCII *)
Lower(c) == IF c \in 65..90 THEN c + 32 ELSE c

LesserOf(m, n) == IF m < n THEN m ELSE n

(* What the constants are.  The arrays of a configuration have a fixed      *)
(* length, whatever their counts say.                                       *)
ASSUME RulesAssumption ==
  /\ MaxRules \in Nat /\ MaxPath \in Nat /\ MaxName \in Nat
  /\ Filters \cup Together \subseteq
       [mask : SUBSET Nat, type : Nat, path : Seq(Nat), pid : Nat, exclude : BOOLEAN]
  /\ \A drive \in DOMAIN Devices : Devices[drive] \in Seq(Nat)
  /\ RawConfigs \subseteq
       [rule_count : Nat,
        rules : [1..MaxRules -> [mask : SUBSET Nat, type : Nat, path : Seq(Nat), path_len : Nat,
                                 pid : Nat, exclude : BOOLEAN]]]
  /\ \A c \in RawConfigs, n \in 1..MaxRules : Len(c.rules[n].path) = MaxPath
  /\ Operations \subseteq [mask : SUBSET Nat, pid : Nat, paging : BOOLEAN, name : Seq(Nat)]
  /\ NoOp \notin Operations

-----------------------------------------------------------------------------
(* The client *)

(* resolve_win32_path_to_nt; a drive nobody knows stays as it is. *)
Resolve(path) ==
  LET drive == SubSeq(path, 1, 2)
  IN  IF Len(path) >= 2 /\ path[2] = Colon /\ drive \in DOMAIN Devices
      THEN Devices[drive] \o SubSeq(path, 3, Len(path))
      ELSE path

(* FileModuleConfig::new *)
NewConfig == [rule_count |-> 0, rules |-> [n \in 1..MaxRules |-> NoRule]]

Rule(f) == [mask |-> f.mask, type |-> f.type, path |-> Resolve(f.path),
            path_len |-> Len(Resolve(f.path)), pid |-> f.pid, exclude |-> f.exclude]

Native(f) == [f EXCEPT !.path = Resolve(f.path)]

(* What a rule in the driver's arrays asks for.                             *)
FilterOf(r) == [mask |-> r.mask, type |-> r.type, pid |-> r.pid, exclude |-> r.exclude,
                path |-> SubSeq(r.path, 1, LesserOf(r.path_len, MaxPath))]

Fits(f) == config.rule_count < MaxRules /\ Len(Resolve(f.path)) <= MaxPath

AddFilter(f) ==
  /\ Fits(f)
  /\ config' = [rule_count |-> config.rule_count + 1,
                rules |-> [config.rules EXCEPT ![config.rule_count + 1] = Rule(f)]]
  /\ asked' = asked \cup {Native(f)}
  /\ UNCHANGED <<started, op, rule_i, glob, outcome>>

(* add_filter has consumed the configuration it refuses to extend. *)
AddFilterFails(f) ==
  /\ ~Fits(f)
  /\ config' = NewConfig /\ asked' = {}
  /\ UNCHANGED <<started, op, rule_i, glob, outcome>>

(* open_file *)
OpenFile ==
  /\ started' = TRUE
  /\ UNCHANGED <<config, asked, op, rule_i, glob, outcome>>

(* The configuration comes from a program of its own: counts and lengths    *)
(* may be larger than the arrays.                                           *)
OpenRaw(c) ==
  /\ asked = {}
  /\ started' = TRUE /\ config' = c
  /\ asked' = {FilterOf(c.rules[n]) : n \in 1..LesserOf(c.rule_count, MaxRules)}
  /\ UNCHANGED <<op, rule_i, glob, outcome>>

-----------------------------------------------------------------------------
(* minifilter_pre_op *)

(* The buffer get_file_path copies the name into is of a fixed length. *)
Path == SubSeq(op.name, 1, LesserOf(Len(op.name), MaxName))

RuleCount == LesserOf(config.rule_count, MaxRules)
Pattern == SubSeq(config.rules[rule_i].path, 1, LesserOf(config.rules[rule_i].path_len, MaxPath))

(* Looking for a rule: between two of them, or at the end of a wildcard.   *)
Looking == started /\ op # NoOp /\ outcome = "none"
AtRule == Looking /\ rule_i <= RuleCount /\ p_idx = None
InGlob == Looking /\ p_idx # None

PreOp(o) ==
  /\ started /\ op = NoOp
  /\ op' = o
  /\ IF o.paging \/ o.pid = ExemptPid \/ o.name = <<>>
     THEN outcome' = "passed" /\ UNCHANGED rule_i
     ELSE rule_i' = 1 /\ UNCHANGED outcome
  /\ UNCHANGED <<config, asked, started, glob>>

(* Variant: a process to leave out is taken for the one to watch. *)
SkipsIncluded(r) ==
  \/ r.mask \cap op.mask = {}
  \/ r.pid # 0 /\ op.pid # r.pid

(* The rule is not for this kind of operation or not for this process. *)
Skips(r) ==
  \/ r.mask \cap op.mask = {}
  \/ r.pid # 0 /\ (r.exclude <=> op.pid = r.pid)

SameUnits(s, t) == \A n \in DOMAIN t : Lower(s[n]) = Lower(t[n])

MatchesPrefix == Len(Path) >= Len(Pattern) /\ SameUnits(Path, Pattern)
MatchesSuffix ==
  LET offset == Len(Path) - Len(Pattern)
  IN  offset >= 0 /\ SameUnits([n \in DOMAIN Pattern |-> Path[offset + n]], Pattern)
MatchesExact == Len(Path) = Len(Pattern) /\ SameUnits(Path, Pattern)

Compare(type) ==
  CASE type = Exact -> MatchesExact
    [] type = Prefix -> MatchesPrefix
    [] type = Suffix -> MatchesSuffix
    [] OTHER -> FALSE

NextRule == rule_i' = rule_i + 1 /\ UNCHANGED outcome
Suspends == outcome' = "suspended" /\ UNCHANGED rule_i

TryRule ==
  /\ AtRule
  /\ LET r == config.rules[rule_i]
     IN  IF Skips(r) THEN NextRule /\ UNCHANGED glob
         ELSE IF r.type = Wildcard
         THEN /\ p_idx' = 0 /\ t_idx' = 0 /\ star_idx' = None /\ match_idx' = 0
              /\ UNCHANGED <<rule_i, outcome>>
         ELSE (IF Compare(r.type) THEN Suspends ELSE NextRule) /\ UNCHANGED glob
  /\ UNCHANGED <<config, asked, started, op>>

NoRuleLeft ==
  /\ Looking /\ rule_i > RuleCount
  /\ outcome' = "passed"
  /\ UNCHANGED <<config, asked, started, op, rule_i, glob>>

-----------------------------------------------------------------------------
(* matches_glob_u16 *)

More == t_idx < Len(Path)
InPattern == p_idx < Len(Pattern)
AtStar == InPattern /\ Pattern[p_idx + 1] = Star
SameUnit ==
  /\ InPattern
  /\ \/ Lower(Pattern[p_idx + 1]) = Lower(Path[t_idx + 1])
     \/ Pattern[p_idx + 1] = OneUnit

LeaveGlob == p_idx' = None /\ t_idx' = 0 /\ star_idx' = None /\ match_idx' = 0

Take ==
  /\ InGlob /\ More /\ SameUnit
  /\ p_idx' = p_idx + 1 /\ t_idx' = t_idx + 1
  /\ UNCHANGED <<config, asked, started, op, rule_i, star_idx, match_idx, outcome>>

(* Variant: the place of the star is kept after the step past it. *)
TakeStarPast ==
  /\ InGlob /\ More /\ ~SameUnit /\ AtStar
  /\ star_idx' = p_idx + 1 /\ match_idx' = t_idx /\ p_idx' = p_idx + 1
  /\ UNCHANGED <<config, asked, started, op, rule_i, t_idx, outcome>>

TakeStar ==
  /\ InGlob /\ More /\ ~SameUnit /\ AtStar
  /\ star_idx' = p_idx /\ match_idx' = t_idx /\ p_idx' = p_idx + 1
  /\ UNCHANGED <<config, asked, started, op, rule_i, t_idx, outcome>>

(* Variant: the star is tried again where it was tried. *)
BackAgain ==
  /\ InGlob /\ More /\ ~SameUnit /\ ~AtStar /\ star_idx # None
  /\ p_idx' = star_idx + 1 /\ t_idx' = match_idx
  /\ UNCHANGED <<config, asked, started, op, rule_i, star_idx, match_idx, outcome>>

(* The last star takes one unit more. *)
Back ==
  /\ InGlob /\ More /\ ~SameUnit /\ ~AtStar /\ star_idx # None
  /\ p_idx' = star_idx + 1
  /\ match_idx' = match_idx + 1 /\ t_idx' = match_idx + 1
  /\ UNCHANGED <<config, asked, started, op, rule_i, star_idx, outcome>>

Mismatch ==
  /\ InGlob /\ More /\ ~SameUnit /\ ~AtStar /\ star_idx = None
  /\ NextRule /\ LeaveGlob
  /\ UNCHANGED <<config, asked, started, op>>

(* The path is at its end: the rest of the pattern may only be stars. *)
PathEnds ==
  /\ InGlob /\ ~More
  /\ IF \A n \in (p_idx + 1)..Len(Pattern) : Pattern[n] = Star THEN Suspends ELSE NextRule
  /\ LeaveGlob
  /\ UNCHANGED <<config, asked, started, op>>

(* Suspended, the operation goes on in module FileTx; passed, to the file   *)
(* system.                                                                  *)
Return ==
  /\ outcome # "none"
  /\ op' = NoOp /\ rule_i' = 1 /\ outcome' = "none"
  /\ UNCHANGED <<config, asked, started, glob>>

-----------------------------------------------------------------------------
Init ==
  /\ config = NewConfig /\ asked = {} /\ started = FALSE
  /\ op = NoOp /\ rule_i = 1 /\ outcome = "none"
  /\ p_idx = None /\ t_idx = 0 /\ star_idx = None /\ match_idx = 0

Match == TryRule \/ NoRuleLeft \/ Take \/ TakeStar \/ Back \/ Mismatch \/ PathEnds

Next ==
  \/ /\ ~started
     /\ \/ \E f \in Filters : asked = {} /\ (AddFilter(f) \/ AddFilterFails(f))
        \/ \E f \in Together : asked \subseteq {Native(g) : g \in Together} /\ (AddFilter(f) \/ AddFilterFails(f))
        \/ OpenFile
        \/ \E c \in RawConfigs : OpenRaw(c)
  \/ \E o \in Operations : PreOp(o)
  \/ Match
  \/ Return

(* A thread in pre_op goes on. *)
Spec == Init /\ [][Next]_vars /\ WF_vars(Match)

-----------------------------------------------------------------------------
(* What a filter says, by its documentation and the meaning of its type     *)

Fold(s) == [n \in DOMAIN s |-> Lower(s[n])]

(* A wildcard pattern stands for a set of strings: a star for any, a        *)
(* question mark for any unit.  ends[m] is where the beginnings of str end  *)
(* that the first m units of pat stand for.                                 *)
Stands(pat, str) ==
  LET ends[m \in 0..Len(pat)] ==
        IF m = 0 THEN {0}
        ELSE IF pat[m] = Star
        THEN {n \in 0..Len(str) : \E k \in ends[m - 1] : k <= n}
        ELSE {n \in 1..Len(str) : pat[m] \in {OneUnit, str[n]} /\ n - 1 \in ends[m - 1]}
  IN  Len(str) \in ends[Len(pat)]

Means(f, o) ==
  /\ f.mask \cap o.mask # {}
  /\ f.pid # 0 => IF f.exclude THEN o.pid # f.pid ELSE o.pid = f.pid
  /\ LET pat == Fold(f.path)
         str == Fold(o.name)
     IN  \/ f.type = Exact /\ str = pat
         \/ f.type = Prefix /\ IsPrefix(pat, str)
         \/ f.type = Suffix /\ IsSuffix(pat, str)
         \/ f.type = Wildcard /\ Stands(pat, str)

(* Type invariant; the indices of the loops stay inside what they index.    *)
TypeOK ==
  /\ config.rule_count \in Nat /\ DOMAIN config.rules = 1..MaxRules
  /\ started \in BOOLEAN /\ op \in Operations \cup {NoOp}
  /\ rule_i \in 1..(RuleCount + 1)
  /\ outcome \in {"none", "suspended", "passed"}
  /\ InGlob =>
       /\ p_idx \in 0..Len(Pattern) /\ t_idx \in 0..Len(Path)
       /\ star_idx \in {None} \cup 0..(p_idx - 1) /\ match_idx \in 0..t_idx

(* types.rs:265-273, minifilter.rs:136-172, 262-320: an operation is        *)
(* suspended if and only if one of the filters asked for means it and no    *)
(* exemption does, as long as its name fits the buffer.  A star in the name *)
(* of a file may be taken for the star of a pattern, and the operation      *)
(* passes.                                                                  *)
SuspendedIfAsked ==
  outcome # "none" /\ Len(op.name) <= MaxName =>
    LET meant == /\ ~op.paging /\ op.pid # ExemptPid /\ op.name # <<>>
                 /\ \E f \in asked : Means(f, op)
    IN  /\ outcome = "suspended" => meant
        /\ meant /\ (\A n \in DOMAIN op.name : op.name[n] # Star) => outcome = "suspended"

(* minifilter.rs:137, "Supports '*' and '?' wildcards in a stack-safe       *)
(* non-recursive loop": it ends, whatever the pattern.                      *)
MatchingEnds == Looking ~> outcome # "none"
=============================================================================
