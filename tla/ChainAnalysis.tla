----------------------------- MODULE ChainAnalysis -----------------------------
(***************************************************************************)
(* One analysis of a contract: AnalysisRunner (backend/app/scanners.py)    *)
(* for Ethereum-like chains with Mythril, Slither and Echidna, and         *)
(* SolanaAnalysisRunner (solana_scanner.py) with cargo-audit; both with    *)
(* the source they fetch (sources.py, solana_sources.py).                  *)
(*                                                                         *)
(* A step is a stage of analyze, with the child process or the requests it *)
(* waits for.  Nothing else shares its variables, but the files of a       *)
(* source whose names are absolute are written outside its temporary       *)
(* directory, where other analyses write as well.  What a tool prints is   *)
(* described by what its output is searched for.                           *)
(***************************************************************************)
EXTENDS Integers, Sequences, FiniteSets, SequencesExt

CONSTANTS
  Label,        \* what a report, a keyword or a pattern may stand for
  Name,         \* names of source files, as the explorer gives them
  Path,         \* paths of the machine
  Shared,       \* those outside the temporary directory
  Parents,      \* Parents[p]: the directories that p is in
  Sanitize,     \* where the path of _sanitize_source_path leads from the
                \* temporary directory: outside, if it still begins with a "/"
  RawPath,      \* where the name leads as it is (of a mutant)
  None

Tool     == {"mythril", "slither", "echidna", "cargo_audit"}
ToolOf   == [evm |-> {"mythril", "slither", "echidna"}, solana |-> {"cargo_audit"}]
Trouble  == {"unavailable", "timeout", "error", "nonzero_exit", "parse_error"}

\* What _summarize_tool_failure can make of the output of a tool.
Failure  == [mythril |-> {"compiler"},
             slither |-> {"compiler", "compilation"},
             echidna |-> {"compiler", "compilation", "no properties", "unsuited"}]

\* A source: the files of a JSON input that come with a content, in order, none
\* when the source is one plain file; the compilation target it names; and the
\* risks its text hints at.  A file is known by its name.
Source == [files : SetToAllKPermutations(Name), target : Name \cup {None},
           risks : SUBSET Label]

\* An Anchor IDL: what its instructions hint at, and its pseudo-source.
Idl == [patterns : SUBSET Label, risks : SUBSET Label, malformed : BOOLEAN]

ASSUME NameAssumption == IsFiniteSet(Name)
ASSUME PathAssumption ==
  /\ Shared \subseteq Path /\ Parents \in [Path -> SUBSET Path]
  /\ Sanitize \in [Name -> Path] /\ RawPath \in [Name -> Path]
ASSUME NoneAssumption ==
  /\ {None, "whole", "other"} \cap Name = {} /\ None \notin {"whole", "other"}
  /\ \A source \in Source : source # None
  /\ \A idl \in Idl : idl # None

VARIABLES
  kind,            \* "evm" or "solana", the adapter of the chain
  rpc,             \* a node is configured for the chain
  installed,       \* those of its tools that are on the machine
  pc,
  source,          \* the source code, or None
  idl,             \* the IDL, or None
  vulnerabilities, \* as gathered so far
  notes,           \* the entries of summaries that are about a tool
  result,          \* the ScanResult, or None
  input,           \* the file of the source Echidna was last started on, or
                   \* "whole", "other", which is none of them, or None
  ran,             \* history: how the last run of each tool ended
  reported         \* history: every finding any run or scan came up with

deployment == <<kind, rpc, installed>>
vars == <<deployment, pc, source, idl, vulnerabilities, notes, result, input, ran, reported>>

Init ==
  /\ kind \in {"evm", "solana"} /\ rpc \in BOOLEAN /\ installed \in SUBSET ToolOf[kind]
  /\ pc = IF kind = "evm" THEN "mythril" ELSE "program"
  /\ source = None /\ idl = None
  /\ vulnerabilities = {} /\ notes = <<>> /\ result = None
  /\ input = None
  /\ ran = [t \in Tool |-> "not run"]
  /\ reported = {}

------------------------------------------------------------------------------
\* Running a tool, _run_tool and _run_cargo_audit.

\* How running t may end; a process that exits has printed something.
Printed(t) == [ended : {"clean", "unclean"}, json : SUBSET Label, keywords : SUBSET Label,
               stderr : BOOLEAN, failure : Failure[t] \cup {None}]
Outcome(t) ==
  IF t \notin installed
    THEN {[ended |-> "unavailable"]}
    ELSE {[ended |-> "timeout"], [ended |-> "error"]} \cup Printed(t)

Exited(o) == o.ended \in {"clean", "unclean"}

\* _extract_findings.  What was printed to stderr follows stdout, so that with
\* anything there the output is no JSON and only its keywords are found.
Extracted(t, o) ==
  {<<t, "keyword", l>> : l \in o.keywords} \cup
  IF t \in {"slither", "echidna"} /\ ~o.stderr THEN {<<t, "reported", l>> : l \in o.json} ELSE {}

\* The findings of _run_tool, ...
Findings(t, o) ==
  CASE ~Exited(o) -> {<<t, o.ended>>}
    [] Exited(o) /\ o.ended = "unclean" /\ Extracted(t, o) = {} /\ o.failure = None ->
         {<<t, "nonzero_exit">>}
    [] OTHER -> Extracted(t, o)

\* Mutant: nothing found is good news, however the process ended.
CleanRegardless(t, o) ==
  IF Exited(o) /\ Findings(t, o) = {} THEN "no findings"
  ELSE IF Exited(o) THEN "findings" ELSE o.ended
\* Mutant: the failure is noted even when there is none to name.
FailureRegardless(t, o) ==
  IF Exited(o) /\ o.ended = "unclean" THEN o.failure
  ELSE IF Exited(o) /\ Findings(t, o) = {} THEN "no findings"
  ELSE IF Exited(o) THEN "findings" ELSE o.ended
\* ... and its summary.
Says(t, o) ==
  CASE ~Exited(o) -> o.ended
    [] Exited(o) /\ Findings(t, o) # {} -> "findings"
    [] Exited(o) /\ Findings(t, o) = {} /\ o.ended = "clean" -> "no findings"
    [] OTHER -> o.failure

Note(t, says) == [tool |-> t, says |-> says]

\* Mutant: assigned, not extended.
LatestOnly(findings) == vulnerabilities' = findings
\* What analyze makes of the findings it is given: vulnerabilities.extend.
Extend(findings) == vulnerabilities' = vulnerabilities \cup findings

\* A run or a scan came up with findings.
Found(findings) ==
  /\ Extend(findings)
  /\ reported' = reported \cup findings

\* A tool has run, and what it says is taken into the scan.
Taken(t, o) ==
  /\ ran' = [ran EXCEPT ![t] = o.ended]
  /\ Found(Findings(t, o))
  /\ notes' = Append(notes, Note(t, Says(t, o)))

------------------------------------------------------------------------------
\* AnalysisRunner.

Mythril ==
  /\ pc = "mythril"
  /\ IF rpc
       THEN \E o \in Outcome("mythril") : Taken("mythril", o)
       ELSE /\ notes' = Append(notes, Note("mythril", "skipped"))
            /\ UNCHANGED <<vulnerabilities, ran, reported>>
  /\ pc' = "fetch"
  /\ UNCHANGED <<deployment, source, idl, result, input>>

\* fetch_source_code: a source, or none without an API key, for a contract that
\* is not verified, or after an error.  An endpoint that calls itself deprecated
\* is left for V2, whose answer counts.  The requests are not awaited: the event
\* loop stands still until they return.
FetchSource ==
  /\ pc = "fetch"
  /\ source' \in Source \cup {None}
  /\ IF source' = None
       THEN /\ notes' = notes \o <<Note("slither", "skipped"), Note("echidna", "skipped")>>
            /\ pc' = "build"
       ELSE /\ pc' = "slither"
            /\ UNCHANGED notes
  /\ UNCHANGED <<deployment, idl, vulnerabilities, result, input, ran, reported>>

\* Slither runs on the source code, as it was fetched, in one file.
Slither ==
  /\ pc = "slither"
  /\ \E o \in Outcome("slither") : Taken("slither", o)
  /\ pc' = "echidna"
  /\ UNCHANGED <<deployment, source, idl, result, input>>

\* The paths written from a source, each file where its name leads: of two that
\* lead to one path the last stays.
Written(s) == {Sanitize[s.files[i]] : i \in DOMAIN s.files}
FileAt(s, p) ==
  s.files[CHOOSE i \in DOMAIN s.files :
            /\ Sanitize[s.files[i]] = p
            /\ \A j \in DOMAIN s.files : Sanitize[s.files[j]] = p => j <= i]

\* The directories made for the files.  None of the files may be one of them;
\* else writing raises.
Directories(s) == {q \in Path : \E p \in Written(s) : q \in Parents[p]}
Writable(s) == Directories(s) \cap Written(s) = {}

\* What exists then: those files, their directories, and what was found outside.
Existing(s, found) == Written(s) \cup Directories(s) \cup found

\* Mutant: the target is looked up by its name, not where its name led.
UnsanitizedTarget(s, found) ==
  IF s.target # None /\ RawPath[s.target] \in Existing(s, found)
    THEN RawPath[s.target] ELSE Sanitize[s.files[1]]
\* _materialize_source_tree: the path of the target, if there is anything, or of
\* the first file.
Target(s, found) ==
  IF s.target # None /\ Sanitize[s.target] \in Existing(s, found)
    THEN Sanitize[s.target] ELSE Sanitize[s.files[1]]

\* What Echidna may find at p: the file that stayed there; a directory, or a
\* file that was there before; and outside, what another analysis wrote since.
Contents(s, p) ==
  (IF p \in Written(s) THEN {FileAt(s, p)} ELSE {"other"}) \cup
  (IF p \in Shared THEN {"other"} ELSE {})

Materialized(s) ==
  IF s.files = <<>> THEN {"whole"}
  ELSE UNION {Contents(s, Target(s, found)) : found \in SUBSET Shared}

\* The first run is left for one in the other mode.
NeedsRetry(o) == Findings("echidna", o) = {} /\ Says("echidna", o) = "no properties"

Echidna ==
  /\ pc = "echidna"
  /\ Writable(source)
  /\ input' \in Materialized(source)
  /\ \E o \in Outcome("echidna") :
       IF NeedsRetry(o)
         THEN /\ ran' = [ran EXCEPT !["echidna"] = o.ended]
              /\ reported' = reported \cup Findings("echidna", o)
              /\ pc' = "assertion"
              /\ UNCHANGED <<vulnerabilities, notes>>
         ELSE Taken("echidna", o) /\ pc' = "build"
  /\ UNCHANGED <<deployment, source, idl, result>>

\* The retry in assertion mode.
Assertion ==
  /\ pc = "assertion"
  /\ \E o \in Outcome("echidna") : Taken("echidna", o)
  /\ pc' = "build"
  /\ UNCHANGED <<deployment, source, idl, result, input>>

\* _extract_defi_signals: of what it extracts, risks are findings.
DefiRisks == IF source = None THEN {} ELSE {<<"defi_risk", l>> : l \in source.risks}

------------------------------------------------------------------------------
\* SolanaAnalysisRunner.

\* fetch_solana_program_info: of its three requests the first may bring an IDL;
\* none raises.
FetchProgram ==
  /\ pc = "program"
  /\ idl' \in Idl \cup {None}
  /\ pc' = "idl"
  /\ UNCHANGED <<deployment, source, vulnerabilities, notes, result, input, ran, reported>>

\* _analyse_idl and the scan of the pseudo-source.  The patterns of the first
\* are findings, signals as well; of its risks only the number is noted.
IdlFindings ==
  IF idl = None THEN {}
  ELSE {<<"solana_idl", l>> : l \in idl.patterns} \cup {<<"defi_risk", l>> : l \in idl.risks}

AnalyseIdl ==
  /\ pc = "idl"
  /\ idl # None => ~idl.malformed
  /\ Found(IdlFindings)
  /\ pc' = "cargo"
  /\ UNCHANGED <<deployment, source, idl, notes, result, input, ran>>

\* _run_cargo_audit: a report, or words of one in what is no JSON.  The exit
\* code does not matter, and there is no finding when it is not installed or
\* does not start.
CargoFindings(o) ==
  CASE o.ended \in {"unavailable", "error"} -> {}
    [] o.ended = "timeout" -> {<<"cargo_audit", "timeout">>}
    [] OTHER -> {<<"cargo_audit", "reported", l>> : l \in o.json} \cup
                IF o.garbled /\ o.keywords # {} THEN {<<"cargo_audit", "parse_error">>} ELSE {}
CargoSays(o) ==
  CASE ~Exited(o) -> o.ended
    [] Exited(o) /\ CargoFindings(o) # {} -> "findings"
    [] OTHER -> "no advisories"
CargoOutcome ==
  IF "cargo_audit" \notin installed
    THEN {[ended |-> "unavailable"]}
    ELSE {[ended |-> "timeout"], [ended |-> "error"]} \cup
         [ended : {"clean", "unclean"}, json : SUBSET Label, keywords : SUBSET Label,
          garbled : BOOLEAN]

CargoAudit ==
  /\ pc = "cargo"
  /\ \E o \in CargoOutcome :
       /\ ran' = [ran EXCEPT !["cargo_audit"] = o.ended]
       /\ Found(CargoFindings(o))
       /\ notes' = Append(notes, Note("cargo_audit", CargoSays(o)))
  /\ pc' = "build"
  /\ UNCHANGED <<deployment, source, idl, result, input>>

------------------------------------------------------------------------------
\* The end.

\* The scan of the source, and ScanResult.build.
Build ==
  /\ pc = "build"
  /\ Found(DefiRisks)
  /\ result' = [status |-> IF vulnerabilities' = {} THEN "ok" ELSE "vulnerabilities_detected",
                vulnerabilities |-> vulnerabilities']
  /\ pc' = "done"
  /\ UNCHANGED <<deployment, source, idl, notes, input, ran>>

\* The files for Slither or Echidna cannot be written, or an IDL is not shaped
\* as it is read: nothing catches that in analyze.
Raise ==
  /\ \/ pc \in {"slither", "echidna"}
     \/ pc = "idl" /\ idl # None /\ idl.malformed
  /\ pc' = "raised"
  /\ UNCHANGED <<deployment, source, idl, vulnerabilities, notes, result, input, ran, reported>>

Next ==
  \/ Mythril \/ FetchSource \/ Slither \/ Echidna \/ Assertion
  \/ FetchProgram \/ AnalyseIdl \/ CargoAudit
  \/ Build \/ Raise

Spec == Init /\ [][Next]_vars

------------------------------------------------------------------------------
\* Properties.

Ending  == {"clean", "unclean", "unavailable", "timeout", "error"}
Saying  == {"skipped", "unavailable", "timeout", "error", "findings", "no findings",
            "no advisories"} \cup UNION {Failure[t] : t \in DOMAIN Failure}
Finding == (Tool \X Trouble) \cup (Tool \X {"keyword", "reported"} \X Label)
             \cup ({"defi_risk", "solana_idl"} \X Label)

\* Every variable keeps its type.
TypeOK ==
  /\ kind \in {"evm", "solana"} /\ rpc \in BOOLEAN /\ installed \subseteq ToolOf[kind]
  /\ pc \in {"mythril", "fetch", "slither", "echidna", "assertion", "program", "idl", "cargo",
             "build", "done", "raised"}
  /\ source \in Source \cup {None} /\ idl \in Idl \cup {None}
  /\ pc \in {"slither", "echidna", "assertion"} => source # None
  /\ vulnerabilities \subseteq Finding /\ reported \subseteq Finding
  /\ notes \in Seq([tool : Tool, says : Saying])
  /\ \/ result = None
     \/ result \in [status : {"ok", "vulnerabilities_detected"}, vulnerabilities : SUBSET Finding]
  /\ input \in Name \cup {"whole", "other", None}
  /\ ran \in [Tool -> Ending \cup {"not run"}]

FindingsBy(t) == {f \in vulnerabilities : f[1] = t}

\* The summary of a scan has one entry for every tool of its chain, which tells
\* a run from a run that did not come about, and agrees with the findings,
\* although Echidna may run twice (scanners.py:29-64, 102-126, 188-218;
\* solana_scanner.py:170-206).  "No findings" stands for a tool that ended well.
NotesTell ==
  pc = "done" =>
    \A t \in ToolOf[kind] : \E i \in DOMAIN notes :
      /\ {j \in DOMAIN notes : notes[j].tool = t} = {i}
      /\ notes[i].says = "skipped" <=> ran[t] = "not run"
      /\ ran[t] \in {"unavailable", "timeout", "error"} => notes[i].says = ran[t]
      /\ notes[i].says = "no findings" => ran[t] = "clean"
      /\ notes[i].says = "findings" => FindingsBy(t) # {}
      /\ ran[t] \in {"clean", "unclean"} /\ FindingsBy(t) # {} => notes[i].says = "findings"

\* A file leads outside the temporary directory.
LeadsOutside(s) == Written(s) \cap Shared # {}
\* The target came without a content, and something else is where it leads.
TargetElsewhere(s) ==
  /\ s.target # None
  /\ \A i \in DOMAIN s.files : s.files[i] # s.target
  /\ \/ Sanitize[s.target] \in Shared
     \/ Sanitize[s.target] \in Directories(s)

\* Echidna is started on the file of the compilation target when that came with
\* a content, unless the path it leads to is outside the temporary directory or
\* that of another file too.  It is started on no file of the source only when
\* a name is absolute, or the target is a directory (scanners.py:128-186).
EchidnaGetsTarget ==
  input # None =>
    /\ input = "whole" <=> source.files = <<>>
    /\ input = "other" => LeadsOutside(source) \/ TargetElsewhere(source)
    /\ input \in Name => \E i \in DOMAIN source.files : source.files[i] = input
    /\ \A i \in DOMAIN source.files :
         /\ source.files[i] = source.target /\ Sanitize[source.target] \notin Shared
         /\ \A j \in DOMAIN source.files \ {i} :
              Sanitize[source.files[j]] # Sanitize[source.target]
         => input = source.target

\* What a missing tool leaves is a note, not a finding: "all best-effort,
\* missing tools produce summary notes not errors"
\* (.github/copilot-instructions.md:9).
MissingToolIsNote ==
  result # None =>
    \A t \in ToolOf[kind] \ installed : \A f \in result.vulnerabilities : f[1] # t

Promise == INSTANCE Analysis WITH
  phase <- IF pc \in {"done", "raised"} THEN pc ELSE "running"

\* An analysis implements Analysis: whatever any of its runs and scans finds is
\* in its result, if there is one, and the status agrees (scanners.py:25-78,
\* 113-126; solana_scanner.py:67-121).  That there is one is not promised: see
\* AlwaysReturns.
AnalysisSpec == Promise!Spec

\* "Analysis is always best-effort: every scanner tool [...] never raises.
\* `vulnerabilities` list is always returned even if empty"
\* (.github/copilot-instructions.md:42): no analysis ends with an exception.
AlwaysReturns == pc # "raised"
==============================================================================
