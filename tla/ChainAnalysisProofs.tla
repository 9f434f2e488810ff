-------------------------- MODULE ChainAnalysisProofs --------------------------
(***************************************************************************)
(* Proofs about ChainAnalysis.  The books of an analysis say, stage by     *)
(* stage, which tools are still to come, of which there is nothing yet,    *)
(* and that what is noted of the others is true.                           *)
(***************************************************************************)
EXTENDS ChainAnalysis, FiniteSetTheorems, WellFoundedInduction, TLAPS

USE DEF deployment, Extend

------------------------------------------------------------------------------
\* The invariant.

\* The tools a stage has not yet noted.
Pending == [mythril |-> {"mythril", "slither", "echidna"},
            fetch |-> {"slither", "echidna"}, slither |-> {"slither", "echidna"},
            echidna |-> {"echidna"}, assertion |-> {"echidna"},
            program |-> {"cargo_audit"}, idl |-> {"cargo_audit"}, cargo |-> {"cargo_audit"},
            build |-> {}, done |-> {}]

Unnoted(t) ==
  /\ \A i \in DOMAIN notes : notes[i].tool # t
  /\ FindingsBy(t) = {}
  /\ pc # "assertion" => ran[t] = "not run"

\* What NotesTell says of one tool.
Noted(t) ==
  \E i \in DOMAIN notes :
    /\ {j \in DOMAIN notes : notes[j].tool = t} = {i}
    /\ notes[i].says = "skipped" <=> ran[t] = "not run"
    /\ ran[t] \in {"unavailable", "timeout", "error"} => notes[i].says = ran[t]
    /\ notes[i].says = "no findings" => ran[t] = "clean"
    /\ notes[i].says = "findings" => FindingsBy(t) # {}
    /\ ran[t] \in {"clean", "unclean"} /\ FindingsBy(t) # {} => notes[i].says = "findings"

Books ==
  pc # "raised" =>
    \A t \in ToolOf[kind] : IF t \in Pending[pc] THEN Unnoted(t) ELSE Noted(t)

KindFits ==
  /\ pc \in {"mythril", "fetch", "slither", "echidna", "assertion"} => kind = "evm"
  /\ pc \in {"program", "idl", "cargo"} => kind = "solana"

\* Nothing that came to light is missing, and nothing is there that did not.
AllKept == reported = vulnerabilities

NoResultYet == pc # "done" => result = None

\* EchidnaGetsTarget, of a source and the file chosen from it.
RightFile(s, file) ==
  /\ file = "whole" <=> s.files = <<>>
  /\ file = "other" => LeadsOutside(s) \/ TargetElsewhere(s)
  /\ file \in Name => \E i \in DOMAIN s.files : s.files[i] = file
  /\ \A i \in DOMAIN s.files :
       /\ s.files[i] = s.target /\ Sanitize[s.target] \notin Shared
       /\ \A j \in DOMAIN s.files \ {i} : Sanitize[s.files[j]] # Sanitize[s.target]
       => file = s.target

\* Echidna's file is right, and there is none before its stage.
InputFits ==
  /\ input # None => source \in Source /\ RightFile(source, input)
  /\ pc \in {"mythril", "fetch", "slither", "program", "idl", "cargo"} => input = None

IInv == TypeOK /\ Books /\ KindFits /\ AllKept /\ NoResultYet /\ InputFits

------------------------------------------------------------------------------
\* Outcomes of a tool.

EvmTool == {"mythril", "slither", "echidna"}

\* A process that exited is one of Printed.
LEMMA ExitedPrinted ==
  ASSUME NEW t \in EvmTool, NEW o \in Outcome(t)
  PROVE  /\ o.ended \in Ending
         /\ Exited(o) => o \in Printed(t)
         /\ ~Exited(o) => o.ended \in {"unavailable", "timeout", "error"}
<1>1. CASE o \in Printed(t)
  BY <1>1 DEF Printed, Exited, Ending
<1>2. CASE o \in {[ended |-> "unavailable"], [ended |-> "timeout"], [ended |-> "error"]}
  BY <1>2 DEF Exited, Ending
<1>. QED BY <1>1, <1>2 DEF Outcome

LEMMA ExtractedType ==
  ASSUME NEW t \in EvmTool, NEW o \in Printed(t)
  PROVE  Extracted(t, o) \subseteq Finding /\ \A f \in Extracted(t, o) : f[1] = t
<1>1. o.keywords \subseteq Label /\ o.json \subseteq Label /\ t \in Tool
  BY DEF Printed, EvmTool, Tool
<1>2. \A l \in Label : <<t, "keyword", l>> \in Finding /\ <<t, "reported", l>> \in Finding
  BY <1>1 DEF Finding
<1>3. SUFFICES ASSUME NEW f \in Extracted(t, o)
               PROVE  f \in Finding /\ f[1] = t
  OBVIOUS
<1>4. PICK l \in Label : f = <<t, "keyword", l>> \/ f = <<t, "reported", l>>
  <2>1. CASE f \in {<<t, "keyword", l>> : l \in o.keywords}
    BY <1>1, <2>1
  <2>2. CASE f \in {<<t, "reported", l>> : l \in o.json}
    BY <1>1, <2>2
  <2>. QED BY <2>1, <2>2 DEF Extracted
<1>5. f[1] = t
  BY <1>4
<1>. QED BY <1>2, <1>4, <1>5

LEMMA FindingsType ==
  ASSUME NEW t \in EvmTool, NEW o \in Outcome(t)
  PROVE  /\ Findings(t, o) \subseteq Finding
         /\ \A f \in Findings(t, o) : f[1] = t
         /\ ~Exited(o) => Findings(t, o) # {}
<1>1. CASE ~Exited(o)
  <2>1. Findings(t, o) = {<<t, o.ended>>}
    BY <1>1 DEF Findings
  <2>2. <<t, o.ended>> \in Finding
    BY <1>1, ExitedPrinted DEF Finding, Tool, EvmTool, Trouble
  <2>. QED BY <1>1, <2>1, <2>2
<1>2. CASE Exited(o)
  <2>1. CASE o.ended = "unclean" /\ Extracted(t, o) = {} /\ o.failure = None
    <3>1. Findings(t, o) = {<<t, "nonzero_exit">>}
      BY <1>2, <2>1 DEF Findings
    <3>2. <<t, "nonzero_exit">> \in Finding
      BY DEF Finding, Tool, EvmTool, Trouble
    <3>. QED BY <1>2, <3>1, <3>2
  <2>2. CASE ~(o.ended = "unclean" /\ Extracted(t, o) = {} /\ o.failure = None)
    <3>1. Findings(t, o) = Extracted(t, o)
      BY <1>2, <2>2 DEF Findings
    <3>. QED BY <1>2, <3>1, ExitedPrinted, ExtractedType
  <2>. QED BY <2>1, <2>2
<1>. QED BY <1>1, <1>2

\* The summary of a run fits its findings and how it ended.
LEMMA SaysFits ==
  ASSUME NEW t \in EvmTool, NEW o \in Outcome(t)
  PROVE  /\ Says(t, o) \in Saying \ {"skipped"}
         /\ ~Exited(o) => Says(t, o) = o.ended
         /\ Says(t, o) = "no findings" => o.ended = "clean"
         /\ Exited(o) => (Says(t, o) = "findings" <=> Findings(t, o) # {})
<1>1. CASE ~Exited(o)
  BY <1>1, ExitedPrinted DEF Says, Saying
<1>2. CASE Exited(o) /\ Findings(t, o) # {}
  BY <1>2 DEF Says, Saying
<1>3. CASE Exited(o) /\ Findings(t, o) = {} /\ o.ended = "clean"
  BY <1>3 DEF Says, Saying
<1>4. CASE Exited(o) /\ Findings(t, o) = {} /\ o.ended # "clean"
  <2>1. Says(t, o) = o.failure
    BY <1>4 DEF Says
  <2>2. o.ended = "unclean"
    BY <1>4 DEF Exited
  <2>3. o.failure # None
    BY <1>4, <2>2 DEF Findings
  <2>4. o.failure \in Failure[t]
    BY <1>4, <2>3, ExitedPrinted DEF Printed
  <2>5. Failure[t] \subseteq {"compiler", "compilation", "no properties", "unsuited"}
    <3>1. CASE t = "mythril"
      BY <3>1 DEF Failure
    <3>2. CASE t = "slither"
      BY <3>2 DEF Failure
    <3>3. CASE t = "echidna"
      BY <3>3 DEF Failure
    <3>. QED BY <3>1, <3>2, <3>3 DEF EvmTool
  <2>6. t \in DOMAIN Failure
    BY DEF EvmTool, Failure
  <2>7. Says(t, o) \in Saying
    BY <2>1, <2>4, <2>6 DEF Saying
  <2>. QED BY <1>4, <2>1, <2>4, <2>5, <2>7
<1>. QED BY <1>1, <1>2, <1>3, <1>4

LEMMA CargoFits ==
  ASSUME NEW o \in CargoOutcome
  PROVE  /\ o.ended \in Ending
         /\ CargoFindings(o) \subseteq Finding
         /\ \A f \in CargoFindings(o) : f[1] = "cargo_audit"
         /\ CargoSays(o) \in Saying \ {"skipped", "no findings"}
         /\ ~Exited(o) => CargoSays(o) = o.ended
         /\ ~Exited(o) => o.ended \in {"unavailable", "timeout", "error"}
         /\ Exited(o) => (CargoSays(o) = "findings" <=> CargoFindings(o) # {})
<1>. DEFINE Exit == [ended : {"clean", "unclean"}, json : SUBSET Label,
                     keywords : SUBSET Label, garbled : BOOLEAN]
<1>0. \A l \in Label : <<"cargo_audit", "reported", l>> \in Finding
  BY DEF Finding, Tool
<1>1. <<"cargo_audit", "timeout">> \in Finding /\ <<"cargo_audit", "parse_error">> \in Finding
  BY DEF Finding, Tool, Trouble
<1>2. CASE o \in Exit
  <2>1. Exited(o) /\ o.ended \in Ending /\ o.json \subseteq Label
    BY <1>2 DEF Exited, Ending
  <2>2. CargoFindings(o) = {<<"cargo_audit", "reported", l>> : l \in o.json} \cup
                IF o.garbled /\ o.keywords # {} THEN {<<"cargo_audit", "parse_error">>} ELSE {}
    BY <1>2 DEF CargoFindings
  <2>3. CargoSays(o) = IF CargoFindings(o) # {} THEN "findings" ELSE "no advisories"
    BY <2>1 DEF CargoSays
  <2>4. CargoFindings(o) \subseteq Finding /\ \A f \in CargoFindings(o) : f[1] = "cargo_audit"
    BY <1>0, <1>1, <2>1, <2>2
  <2>. QED BY <2>1, <2>3, <2>4 DEF Saying
<1>3. CASE o \in {[ended |-> "unavailable"], [ended |-> "timeout"], [ended |-> "error"]}
  <2>1. ~Exited(o) /\ o.ended \in {"unavailable", "timeout", "error"}
    BY <1>3 DEF Exited
  <2>2. CargoSays(o) = o.ended
    BY <2>1 DEF CargoSays
  <2>3. CargoFindings(o) \subseteq {<<"cargo_audit", "timeout">>}
    BY <1>3 DEF CargoFindings
  <2>4. CargoFindings(o) \subseteq Finding /\ \A f \in CargoFindings(o) : f[1] = "cargo_audit"
    BY <1>1, <2>3
  <2>. QED BY <2>1, <2>2, <2>4 DEF Saying, Ending
<1>. QED BY <1>2, <1>3 DEF CargoOutcome

------------------------------------------------------------------------------
\* The file Echidna is started on.

LEMMA FilesType ==
  ASSUME NEW s \in Source
  PROVE  \E n \in Nat : s.files \in [1 .. n -> Name]
<1>1. s.files \in SetToAllKPermutations(Name)
  BY DEF Source
<1>2. PICK names \in SUBSET Name : s.files \in SetToSeqs(names)
  BY <1>1 DEF SetToAllKPermutations
<1>3. Cardinality(names) \in Nat
  BY NameAssumption, FS_Subset, FS_CardinalityType
<1>4. s.files \in [1 .. Cardinality(names) -> names]
  BY <1>2 DEF SetToSeqs
<1>. QED BY <1>3, <1>4

\* Of some positions one is the last.
LEMMA LastOne ==
  ASSUME NEW n \in Nat, NEW T \in SUBSET (1 .. n), T # {}
  PROVE  \E m \in T : \A i \in T : i <= m
<1>. DEFINE U == {n - i : i \in T}
            R == {ss \in Nat \X Nat : ss[1] < ss[2]}
<1>1. U \in SUBSET Nat /\ U # {}
  <2>1. \A i \in T : n - i \in Nat
    OBVIOUS
  <2>2. U # {}
    OBVIOUS
  <2>. QED BY <2>1, <2>2
<1>2. IsWellFoundedOn(R, Nat)
  BY NatLessThanWellFounded, Zenon DEF OpToRel
<1>3. PICK x \in U : \A y \in U : ~ (<<y, x>> \in R)
  <2>. HIDE DEF U, R
  <2>. QED BY <1>1, <1>2, WFMin
<1>4. \A y \in U : ~(y < x)
  BY <1>1, <1>3
<1>5. PICK m \in T : x = n - m
  BY <1>3
<1>6. ASSUME NEW i \in T PROVE i <= m
  <2>1. n - i \in U
    OBVIOUS
  <2>2. i \in Int /\ m \in Int /\ ~(n - i < n - m)
    BY <1>4, <1>5, <2>1
  <2>. QED BY <2>2
<1>. QED BY <1>6

\* What a path holds is the last of the files that lead there.
LEMMA FileAtIs ==
  ASSUME NEW s \in Source, NEW p \in Written(s)
  PROVE  \E i \in DOMAIN s.files :
           /\ FileAt(s, p) = s.files[i] /\ s.files[i] \in Name
           /\ Sanitize[s.files[i]] = p
           /\ \A j \in DOMAIN s.files : Sanitize[s.files[j]] = p => j <= i
<1>1. PICK n \in Nat : s.files \in [1 .. n -> Name]
  BY FilesType
<1>. DEFINE T == {i \in 1 .. n : Sanitize[s.files[i]] = p}
<1>2. T # {}
  BY <1>1 DEF Written
<1>3. PICK m \in T : \A i \in T : i <= m
  BY <1>2, LastOne
<1>4. \E i \in DOMAIN s.files :
        /\ Sanitize[s.files[i]] = p
        /\ \A j \in DOMAIN s.files : Sanitize[s.files[j]] = p => j <= i
  BY <1>1, <1>3
<1>. QED BY <1>1, <1>4 DEF FileAt

\* The path chosen is that of the target if there is anything, else that of a
\* file.
LEMMA TargetExists ==
  ASSUME NEW s \in Source, s.files # <<>>, NEW found \in SUBSET Shared
  PROVE  /\ s.target # None /\ Sanitize[s.target] \in Written(s) =>
              Target(s, found) = Sanitize[s.target]
         /\ \/ Target(s, found) \in Written(s)
            \/ /\ s.target # None /\ Target(s, found) = Sanitize[s.target]
               /\ \/ Target(s, found) \in Shared
                  \/ Target(s, found) \in Directories(s)
<1>1. PICK n \in Nat : s.files \in [1 .. n -> Name]
  BY FilesType
<1>2. n # 0
  BY <1>1
<1>3. Sanitize[s.files[1]] \in Written(s)
  BY <1>1, <1>2 DEF Written
<1>4. CASE s.target # None /\ Sanitize[s.target] \in Existing(s, found)
  <2>1. Target(s, found) = Sanitize[s.target]
    BY <1>4 DEF Target
  <2>2. \/ Target(s, found) \in Written(s) \/ Target(s, found) \in Shared
        \/ Target(s, found) \in Directories(s)
    BY <1>4, <2>1 DEF Existing
  <2>. QED BY <1>4, <2>1, <2>2
<1>5. CASE ~(s.target # None /\ Sanitize[s.target] \in Existing(s, found))
  <2>1. Target(s, found) = Sanitize[s.files[1]]
    BY <1>5 DEF Target
  <2>2. ~(s.target # None /\ Sanitize[s.target] \in Written(s))
    BY <1>5 DEF Existing
  <2>. QED BY <1>3, <2>1, <2>2
<1>. QED BY <1>4, <1>5

\* Other content than a file of the source is there only where nothing was
\* written, or outside.
LEMMA ContentsRight ==
  ASSUME NEW s \in Source, NEW p, NEW file \in Contents(s, p)
  PROVE  \/ file = "other" /\ (p \notin Written(s) \/ p \in Shared)
         \/ p \in Written(s) /\ file = FileAt(s, p)
  BY DEF Contents

LEMMA MaterializedRight ==
  ASSUME NEW s \in Source, NEW file \in Materialized(s)
  PROVE  file \in Name \cup {"whole", "other"} /\ RightFile(s, file)
<1>1. PICK n \in Nat : s.files \in [1 .. n -> Name]
  BY FilesType
<1>0. /\ "whole" \notin Name /\ "other" \notin Name /\ None \notin Name
  BY NoneAssumption
<1>2. CASE s.files = <<>>
  <2>1. file = "whole"
    BY <1>2 DEF Materialized
  <2>2. DOMAIN s.files = {}
    BY <1>2
  <2>. QED BY <1>0, <1>2, <2>1, <2>2 DEF RightFile
<1>3. CASE s.files # <<>>
  <2>1. PICK found \in SUBSET Shared : file \in Contents(s, Target(s, found))
    BY <1>3 DEF Materialized
  <2>. DEFINE p == Target(s, found)
  <2>2. CASE file = "other" /\ (p \notin Written(s) \/ p \in Shared)
    <3>1. p \in Written(s) => LeadsOutside(s)
      BY <2>2 DEF LeadsOutside
    <3>2. ASSUME p \notin Written(s) PROVE TargetElsewhere(s)
      <4>1. /\ s.target # None /\ p = Sanitize[s.target]
            /\ p \in Shared \/ p \in Directories(s)
        BY <1>3, <3>2, TargetExists
      <4>2. \A i \in DOMAIN s.files : s.files[i] # s.target
        BY <3>2, <4>1 DEF Written
      <4>. QED BY <4>1, <4>2 DEF TargetElsewhere
    <3>3. ASSUME NEW i \in DOMAIN s.files, s.files[i] = s.target,
                 Sanitize[s.target] \notin Shared
          PROVE  FALSE
      <4>1. s.target \in Name /\ Sanitize[s.target] \in Written(s)
        BY <1>1, <3>3 DEF Written
      <4>. QED BY <1>0, <1>3, <2>2, <3>3, <4>1, TargetExists
    <3>. QED BY <1>0, <1>3, <2>2, <3>1, <3>2, <3>3 DEF RightFile
  <2>3. CASE p \in Written(s) /\ file = FileAt(s, p)
    <3>1. PICK i \in DOMAIN s.files :
            file = s.files[i] /\ s.files[i] \in Name /\ Sanitize[s.files[i]] = p
      BY <2>3, FileAtIs
    <3>2. ASSUME NEW k \in DOMAIN s.files, s.files[k] = s.target,
                 \A j \in DOMAIN s.files \ {k} : Sanitize[s.files[j]] # Sanitize[s.target]
          PROVE  file = s.target
      <4>1. s.target \in Name /\ Sanitize[s.target] \in Written(s)
        BY <1>1, <3>2 DEF Written
      <4>2. p = Sanitize[s.target]
        BY <1>0, <1>3, <4>1, TargetExists
      <4>. QED BY <3>1, <3>2, <4>2
    <3>. QED BY <1>0, <1>3, <3>1, <3>2 DEF RightFile
  <2>. QED BY <2>1, <2>2, <2>3, ContentsRight
<1>. QED BY <1>2, <1>3

------------------------------------------------------------------------------
\* The books.

\* Findings of one tool, or of none, leave those of another alone.
LEMMA FoundKeeps ==
  ASSUME NEW findings, Found(findings), NEW t, \A f \in findings : f[1] # t
  PROVE  FindingsBy(t)' = FindingsBy(t)
  BY DEF Found, FindingsBy

LEMMA FoundType ==
  ASSUME TypeOK, AllKept, NEW findings, findings \subseteq Finding, Found(findings)
  PROVE  vulnerabilities' \subseteq Finding /\ reported' \subseteq Finding /\ AllKept'
  BY DEF TypeOK, AllKept, Found

\* A further note leaves what is noted of the other tools.
LEMMA NotedStays ==
  ASSUME notes \in Seq([tool : Tool, says : Saying]),
         NEW n \in [tool : Tool, says : Saying], notes' = Append(notes, n),
         NEW t, t # n.tool, ran'[t] = ran[t], FindingsBy(t)' = FindingsBy(t)
  PROVE  /\ Noted(t) => Noted(t)'
         /\ Unnoted(t) /\ ran[t] = "not run" => Unnoted(t)'
<1>1. /\ DOMAIN notes' = DOMAIN notes \cup {Len(notes) + 1}
      /\ \A i \in DOMAIN notes : notes'[i] = notes[i]
      /\ notes'[Len(notes) + 1] = n
      /\ Len(notes) + 1 \notin DOMAIN notes
  OBVIOUS
<1>2. ASSUME Noted(t) PROVE Noted(t)'
  <2>1. PICK i \in DOMAIN notes :
          /\ {j \in DOMAIN notes : notes[j].tool = t} = {i}
          /\ notes[i].says = "skipped" <=> ran[t] = "not run"
          /\ ran[t] \in {"unavailable", "timeout", "error"} => notes[i].says = ran[t]
          /\ notes[i].says = "no findings" => ran[t] = "clean"
          /\ notes[i].says = "findings" => FindingsBy(t) # {}
          /\ ran[t] \in {"clean", "unclean"} /\ FindingsBy(t) # {} => notes[i].says = "findings"
    BY <1>2 DEF Noted
  <2>2. {j \in DOMAIN notes' : notes'[j].tool = t} = {i}
    BY <1>1, <2>1
  <2>3. i \in DOMAIN notes' /\ notes'[i] = notes[i]
    BY <1>1
  <2>. QED BY <2>1, <2>2, <2>3 DEF Noted
<1>3. ASSUME Unnoted(t), ran[t] = "not run" PROVE Unnoted(t)'
  BY <1>1, <1>3 DEF Unnoted
<1>. QED BY <1>2, <1>3

\* The first note of a tool is the one about it.
LEMMA FirstNote ==
  ASSUME notes \in Seq([tool : Tool, says : Saying]),
         NEW n \in [tool : Tool, says : Saying], notes' = Append(notes, n),
         \A i \in DOMAIN notes : notes[i].tool # n.tool
  PROVE  LET i == Len(notes) + 1 IN
           /\ i \in DOMAIN notes' /\ notes'[i] = n
           /\ {j \in DOMAIN notes' : notes'[j].tool = n.tool} = {i}
<1>1. /\ DOMAIN notes' = DOMAIN notes \cup {Len(notes) + 1}
      /\ \A i \in DOMAIN notes : notes'[i] = notes[i]
      /\ notes'[Len(notes) + 1] = n
  OBVIOUS
<1>. QED BY <1>1

\* A run of a tool that had no note and no finding yet is noted truly.
LEMMA TakenNoted ==
  ASSUME TypeOK, NEW t \in EvmTool, NEW o \in Outcome(t), Taken(t, o), Unnoted(t)
  PROVE  /\ notes' = Append(notes, Note(t, Says(t, o)))
         /\ Note(t, Says(t, o)) \in [tool : Tool, says : Saying]
         /\ Noted(t)'
<1>1. /\ notes' = Append(notes, Note(t, Says(t, o)))
      /\ ran' = [ran EXCEPT ![t] = o.ended] /\ Found(Findings(t, o))
  BY DEF Taken
<1>2. t \in Tool /\ notes \in Seq([tool : Tool, says : Saying]) /\ ran'[t] = o.ended
  BY <1>1 DEF TypeOK, EvmTool, Tool
<1>3. Note(t, Says(t, o)) \in [tool : Tool, says : Saying]
  BY <1>2, SaysFits DEF Note
<1>4. FindingsBy(t)' = Findings(t, o)
  BY <1>1, FindingsType DEF Found, FindingsBy, Unnoted
<1>. DEFINE i == Len(notes) + 1
<1>5. /\ i \in DOMAIN notes' /\ notes'[i].says = Says(t, o)
      /\ {j \in DOMAIN notes' : notes'[j].tool = t} = {i}
  <2>1. Note(t, Says(t, o)).tool = t /\ Note(t, Says(t, o)).says = Says(t, o)
    BY DEF Note
  <2>2. \A j \in DOMAIN notes : notes[j].tool # t
    BY DEF Unnoted
  <2>. QED BY <1>1, <1>2, <1>3, <2>1, <2>2, FirstNote
<1>6. /\ Exited(o) <=> o.ended \in {"clean", "unclean"}
      /\ ~Exited(o) => o.ended \in {"unavailable", "timeout", "error"}
  BY ExitedPrinted DEF Exited
<1>7. /\ ~(notes'[i].says = "skipped") /\ ~(ran'[t] = "not run")
      /\ ran'[t] \in {"unavailable", "timeout", "error"} => notes'[i].says = ran'[t]
      /\ notes'[i].says = "no findings" => ran'[t] = "clean"
      /\ notes'[i].says = "findings" => FindingsBy(t)' # {}
      /\ ran'[t] \in {"clean", "unclean"} /\ FindingsBy(t)' # {} => notes'[i].says = "findings"
  BY <1>2, <1>4, <1>5, <1>6, SaysFits
<1>. HIDE DEF i
<1>. QED BY <1>1, <1>3, <1>5, <1>7 DEF Noted

Entry == [tool : Tool, says : Saying]
NoteSeq == Seq(Entry)

LEMMA EmptySeq == ASSUME NEW S PROVE <<>> \in Seq(S)
  OBVIOUS

LEMMA AppendSeq == ASSUME NEW S, NEW q \in Seq(S), NEW a \in S PROVE Append(q, a) \in Seq(S)
  OBVIOUS

\* A tool that is skipped is noted truly.
LEMMA SkippedBooks ==
  ASSUME notes \in NoteSeq, NEW t, Unnoted(t), ran[t] = "not run",
         Note(t, "skipped") \in [tool : Tool, says : Saying],
         notes' = Append(notes, Note(t, "skipped")), UNCHANGED <<vulnerabilities, ran>>
  PROVE  /\ notes' \in NoteSeq /\ Noted(t)'
         /\ \A u : u # t => /\ Noted(u) => Noted(u)'
                            /\ Unnoted(u) /\ ran[u] = "not run" => Unnoted(u)'
<1>1. notes' \in NoteSeq /\ notes \in Seq([tool : Tool, says : Saying])
  BY AppendSeq DEF NoteSeq, Entry
<1>2. \A u : FindingsBy(u)' = FindingsBy(u)
  BY DEF FindingsBy
<1>3. Note(t, "skipped").tool = t /\ Note(t, "skipped").says = "skipped"
  BY DEF Note
<1>4. \A i \in DOMAIN notes : notes[i].tool # t
  BY DEF Unnoted
<1>. DEFINE i == Len(notes) + 1
<1>5. /\ i \in DOMAIN notes' /\ notes'[i].says = "skipped"
      /\ {j \in DOMAIN notes' : notes'[j].tool = t} = {i}
  BY <1>1, <1>3, <1>4, FirstNote
<1>6. ran'[t] = "not run"
  OBVIOUS
<1>. HIDE DEF i
<1>7. Noted(t)'
  BY <1>5, <1>6 DEF Noted
<1>8. \A u : u # t => /\ Noted(u) => Noted(u)'
                      /\ Unnoted(u) /\ ran[u] = "not run" => Unnoted(u)'
  BY <1>1, <1>2, <1>3, NotedStays
<1>. QED BY <1>1, <1>7, <1>8

\* As are the two for which there is no source.
LEMMA BothSkipped ==
  ASSUME notes \in NoteSeq, Noted("mythril"), Unnoted("slither"), Unnoted("echidna"),
         ran["slither"] = "not run", ran["echidna"] = "not run",
         NEW a \in Entry, a.tool = "slither", a.says = "skipped",
         NEW b \in Entry, b.tool = "echidna", b.says = "skipped",
         notes' = notes \o <<a, b>>, UNCHANGED <<vulnerabilities, ran>>
  PROVE  /\ notes' \in NoteSeq
         /\ Noted("mythril")' /\ Noted("slither")' /\ Noted("echidna")'
<1>. DEFINE s == Len(notes) + 1
            e == Len(notes) + 2
<1>1. /\ notes' \in NoteSeq /\ DOMAIN notes' = DOMAIN notes \cup {s, e}
      /\ \A i \in DOMAIN notes : notes'[i] = notes[i]
      /\ notes'[s] = a /\ notes'[e] = b
      /\ s \notin DOMAIN notes /\ e \notin DOMAIN notes /\ s # e
  BY ONLY notes \in NoteSeq, a \in Entry, b \in Entry, notes' = notes \o <<a, b>> DEF NoteSeq
<1>. HIDE DEF s, e
<1>2. /\ notes'[s].tool = "slither" /\ notes'[s].says = "skipped"
      /\ notes'[e].tool = "echidna" /\ notes'[e].says = "skipped"
  BY <1>1
<1>3. \A t : FindingsBy(t)' = FindingsBy(t)
  BY DEF FindingsBy
<1>4. {j \in DOMAIN notes' : notes'[j].tool = "slither"} = {s}
  BY <1>1, <1>2 DEF Unnoted
<1>5. {j \in DOMAIN notes' : notes'[j].tool = "echidna"} = {e}
  BY <1>1, <1>2 DEF Unnoted
<1>6. Noted("slither")'
  BY <1>1, <1>2, <1>4 DEF Noted
<1>7. Noted("echidna")'
  BY <1>1, <1>2, <1>5 DEF Noted
<1>8. Noted("mythril")'
  <2>1. PICK i \in DOMAIN notes :
          /\ {j \in DOMAIN notes : notes[j].tool = "mythril"} = {i}
          /\ notes[i].says = "skipped" <=> ran["mythril"] = "not run"
          /\ ran["mythril"] \in {"unavailable", "timeout", "error"} =>
               notes[i].says = ran["mythril"]
          /\ notes[i].says = "no findings" => ran["mythril"] = "clean"
          /\ notes[i].says = "findings" => FindingsBy("mythril") # {}
          /\ ran["mythril"] \in {"clean", "unclean"} /\ FindingsBy("mythril") # {} =>
               notes[i].says = "findings"
    BY DEF Noted
  <2>2. {j \in DOMAIN notes' : notes'[j].tool = "mythril"} = {i}
    BY <1>1, <1>2, <2>1
  <2>3. i \in DOMAIN notes' /\ notes'[i] = notes[i]
    BY <1>1
  <2>. QED BY <1>3, <2>1, <2>2, <2>3 DEF Noted
<1>. QED BY <1>1, <1>6, <1>7, <1>8

\* A run of a tool leaves the books of the others right.
LEMMA TakenBooks ==
  ASSUME IInv, NEW t \in EvmTool, NEW o \in Outcome(t), Taken(t, o), Unnoted(t)
  PROVE  /\ Noted(t)'
         /\ \A u \in Tool \ {t} : /\ Noted(u) => Noted(u)'
                                  /\ Unnoted(u) /\ ran[u] = "not run" => Unnoted(u)'
         /\ notes' \in NoteSeq /\ ran' \in [Tool -> Ending \cup {"not run"}]
         /\ vulnerabilities' \subseteq Finding /\ reported' \subseteq Finding /\ AllKept'
<1>1. /\ notes' = Append(notes, Note(t, Says(t, o)))
      /\ Note(t, Says(t, o)) \in [tool : Tool, says : Saying]
      /\ Noted(t)'
  BY TakenNoted DEF IInv
<1>2. notes \in Seq([tool : Tool, says : Saying]) /\ ran \in [Tool -> Ending \cup {"not run"}]
  BY DEF IInv, TypeOK
<1>3. ASSUME NEW u \in Tool \ {t}
      PROVE  /\ Noted(u) => Noted(u)'
             /\ Unnoted(u) /\ ran[u] = "not run" => Unnoted(u)'
  <2>1. FindingsBy(u)' = FindingsBy(u)
    BY FoundKeeps, FindingsType DEF Taken
  <2>2. ran'[u] = ran[u] /\ u # Note(t, Says(t, o)).tool
    BY <1>2 DEF Taken, Note
  <2>. QED BY <1>1, <1>2, <2>1, <2>2, NotedStays
<1>4. vulnerabilities' \subseteq Finding /\ reported' \subseteq Finding /\ AllKept'
  BY FoundType, FindingsType DEF IInv, Taken
<1>5. ran' \in [Tool -> Ending \cup {"not run"}]
  BY <1>2, ExitedPrinted DEF Taken
<1>6. notes' \in NoteSeq
  BY <1>1, <1>2, AppendSeq DEF NoteSeq, Entry
<1>. QED BY <1>1, <1>3, <1>4, <1>5, <1>6

------------------------------------------------------------------------------
\* The steps.

Stage == {"mythril", "fetch", "slither", "echidna", "assertion", "program", "idl", "cargo",
          "build", "done", "raised"}

LEMMA ToolsOf == ToolOf["evm"] = EvmTool /\ ToolOf["solana"] = {"cargo_audit"}
  BY DEF ToolOf, EvmTool

LEMMA InitIInv == ASSUME Init PROVE IInv
<1>1. notes = <<>> /\ <<>> \in NoteSeq
  BY EmptySeq DEF Init, NoteSeq
<1>2. ran \in [Tool -> Ending \cup {"not run"}]
  BY DEF Init
<1>3. TypeOK
  <2>1. kind \in {"evm", "solana"} /\ rpc \in BOOLEAN /\ installed \subseteq ToolOf[kind]
    BY DEF Init
  <2>2. pc \in {"mythril", "program"}
    BY DEF Init
  <2>3. source = None /\ idl = None /\ result = None /\ input = None
        /\ vulnerabilities = {} /\ reported = {}
    BY DEF Init
  <2>. QED BY <1>1, <1>2, <2>1, <2>2, <2>3 DEF TypeOK, NoteSeq, Entry
<1>4. \A t \in Tool : Unnoted(t)
  <2>0. DOMAIN notes = {}
    BY ONLY <1>1
  <2>1. \A t \in Tool : ran[t] = "not run"
    BY DEF Init
  <2>2. \A t : FindingsBy(t) = {}
    BY DEF Init, FindingsBy
  <2>. QED BY <2>0, <2>1, <2>2 DEF Unnoted
<1>5. \A t \in ToolOf[kind] : t \in Pending[pc] /\ t \in Tool
  <2>1. CASE kind = "evm"
    BY <2>1, ToolsOf DEF Init, Pending, Tool, EvmTool
  <2>2. CASE kind = "solana"
    BY <2>2, ToolsOf DEF Init, Pending, Tool
  <2>. QED BY <2>1, <2>2 DEF Init
<1>6. Books
  BY <1>4, <1>5 DEF Books
<1>7. KindFits /\ AllKept /\ NoResultYet /\ InputFits
  BY DEF Init, KindFits, AllKept, NoResultYet, InputFits
<1>. QED BY <1>3, <1>6, <1>7 DEF IInv

LEMMA StepMythril == ASSUME IInv, Mythril PROVE IInv'
<1>1. /\ pc = "mythril" /\ pc' = "fetch" /\ kind = "evm" /\ ToolOf[kind] = EvmTool
      /\ UNCHANGED <<deployment, source, idl, result, input>>
  BY ToolsOf DEF IInv, Mythril, KindFits
<1>2. /\ notes \in NoteSeq /\ "mythril" \in EvmTool
      /\ Pending["mythril"] = EvmTool /\ Pending["fetch"] = {"slither", "echidna"}
  BY DEF IInv, TypeOK, NoteSeq, Entry, Pending, EvmTool
<1>3. \A t \in EvmTool : Unnoted(t) /\ ran[t] = "not run"
  BY <1>1, <1>2 DEF IInv, Books, Unnoted
<1>4. /\ Noted("mythril")' /\ Unnoted("slither")' /\ Unnoted("echidna")'
      /\ notes' \in NoteSeq /\ ran' \in [Tool -> Ending \cup {"not run"}]
      /\ vulnerabilities' \subseteq Finding /\ reported' \subseteq Finding /\ AllKept'
  <2>1. CASE rpc
    <3>1. PICK o \in Outcome("mythril") : Taken("mythril", o)
      BY <2>1 DEF Mythril
    <3>. QED BY <1>2, <1>3, <3>1, TakenBooks DEF EvmTool, Tool
  <2>2. CASE ~rpc
    <3>1. /\ notes' = Append(notes, Note("mythril", "skipped"))
          /\ UNCHANGED <<vulnerabilities, ran, reported>>
      BY <2>2 DEF Mythril
    <3>2. Note("mythril", "skipped") \in [tool : Tool, says : Saying]
      BY DEF Note, Tool, Saying
    <3>3. vulnerabilities' \subseteq Finding /\ reported' \subseteq Finding /\ AllKept'
          /\ ran' \in [Tool -> Ending \cup {"not run"}]
      BY <3>1 DEF IInv, TypeOK, AllKept
    <3>4. Unnoted("mythril") /\ Unnoted("slither") /\ Unnoted("echidna")
          /\ ran["mythril"] = "not run" /\ ran["slither"] = "not run"
          /\ ran["echidna"] = "not run"
      BY <1>3 DEF EvmTool
    <3>. QED BY <1>2, <3>1, <3>2, <3>3, <3>4, SkippedBooks
  <2>. QED BY <2>1, <2>2 DEF IInv, TypeOK
<1>5. TypeOK'
  BY <1>1, <1>4 DEF IInv, TypeOK, NoteSeq, Entry
<1>6. Books'
  BY <1>1, <1>2, <1>4 DEF Books, EvmTool
<1>7. KindFits' /\ NoResultYet' /\ InputFits'
  BY <1>1 DEF IInv, KindFits, NoResultYet, InputFits
<1>. QED BY <1>4, <1>5, <1>6, <1>7 DEF IInv

LEMMA StepFetchSource == ASSUME IInv, FetchSource PROVE IInv'
<1>1. /\ pc = "fetch" /\ kind = "evm" /\ ToolOf[kind] = EvmTool
      /\ source' \in Source \cup {None}
      /\ UNCHANGED <<deployment, idl, vulnerabilities, result, input, ran, reported>>
  BY ToolsOf DEF IInv, FetchSource, KindFits
<1>2. /\ notes \in NoteSeq /\ Pending["fetch"] = {"slither", "echidna"}
      /\ Pending["slither"] = {"slither", "echidna"} /\ Pending["build"] = {}
  BY DEF IInv, TypeOK, NoteSeq, Entry, Pending
<1>3. /\ Noted("mythril") /\ Unnoted("slither") /\ Unnoted("echidna")
      /\ ran["slither"] = "not run" /\ ran["echidna"] = "not run"
  BY <1>1, <1>2 DEF IInv, Books, Unnoted, EvmTool
<1>4. AllKept'
  BY <1>1 DEF IInv, AllKept
<1>5. CASE source' = None
  <2>1. /\ notes' = notes \o <<Note("slither", "skipped"), Note("echidna", "skipped")>>
        /\ pc' = "build"
    BY <1>5 DEF FetchSource
  <2>2. /\ Note("slither", "skipped") \in Entry /\ Note("echidna", "skipped") \in Entry
        /\ \A t, says : Note(t, says).tool = t /\ Note(t, says).says = says
    BY DEF Note, Entry, Tool, Saying
  <2>3. /\ notes' \in NoteSeq
        /\ Noted("mythril")' /\ Noted("slither")' /\ Noted("echidna")'
    <3>. DEFINE a == Note("slither", "skipped")
                b == Note("echidna", "skipped")
    <3>1. /\ a \in Entry /\ a.tool = "slither" /\ a.says = "skipped"
          /\ b \in Entry /\ b.tool = "echidna" /\ b.says = "skipped"
          /\ notes' = notes \o <<a, b>>
      BY <2>1, <2>2
    <3>2. UNCHANGED <<vulnerabilities, ran>>
      BY <1>1
    <3>. HIDE DEF a, b
    <3>. QED BY <1>2, <1>3, <3>1, <3>2, BothSkipped
  <2>4. TypeOK'
    BY <1>1, <2>1, <2>3 DEF IInv, TypeOK, NoteSeq, Entry
  <2>5. Books' /\ KindFits' /\ NoResultYet' /\ InputFits'
    BY <1>1, <1>2, <2>1, <2>3 DEF IInv, Books, EvmTool, KindFits, NoResultYet, InputFits
  <2>. QED BY <1>4, <2>4, <2>5 DEF IInv
<1>6. CASE source' # None
  <2>1. pc' = "slither" /\ UNCHANGED notes
    BY <1>6 DEF FetchSource
  <2>2. Noted("mythril")' /\ Unnoted("slither")' /\ Unnoted("echidna")'
    BY <1>1, <1>3, <2>1 DEF Noted, Unnoted, FindingsBy
  <2>3. TypeOK'
    BY <1>1, <1>6, <2>1 DEF IInv, TypeOK
  <2>4. Books' /\ KindFits' /\ NoResultYet' /\ InputFits'
    BY <1>1, <1>2, <2>1, <2>2 DEF IInv, Books, EvmTool, KindFits, NoResultYet, InputFits
  <2>. QED BY <1>4, <2>3, <2>4 DEF IInv
<1>. QED BY <1>5, <1>6

LEMMA StepSlither == ASSUME IInv, Slither PROVE IInv'
<1>1. /\ pc = "slither" /\ pc' = "echidna" /\ kind = "evm" /\ ToolOf[kind] = EvmTool
      /\ UNCHANGED <<deployment, source, idl, result, input>>
  BY ToolsOf DEF IInv, Slither, KindFits
<1>2. /\ "slither" \in EvmTool /\ EvmTool \subseteq Tool
      /\ Pending["slither"] = {"slither", "echidna"} /\ Pending["echidna"] = {"echidna"}
  BY DEF Pending, EvmTool, Tool
<1>3. /\ Noted("mythril") /\ Unnoted("slither") /\ Unnoted("echidna")
      /\ ran["echidna"] = "not run"
  BY <1>1, <1>2 DEF IInv, Books, Unnoted, EvmTool
<1>4. PICK o \in Outcome("slither") : Taken("slither", o)
  BY DEF Slither
<1>5. /\ Noted("mythril")' /\ Noted("slither")' /\ Unnoted("echidna")'
      /\ notes' \in NoteSeq /\ ran' \in [Tool -> Ending \cup {"not run"}]
      /\ vulnerabilities' \subseteq Finding /\ reported' \subseteq Finding /\ AllKept'
  BY <1>2, <1>3, <1>4, TakenBooks DEF EvmTool
<1>6. TypeOK'
  <2>1. source \in Source /\ source # None
    BY <1>1, NoneAssumption DEF IInv, TypeOK
  <2>. QED BY <1>1, <1>5, <2>1 DEF IInv, TypeOK, NoteSeq, Entry
<1>7. Books'
  BY <1>1, <1>2, <1>5 DEF Books, EvmTool
<1>8. KindFits' /\ NoResultYet' /\ InputFits'
  BY <1>1 DEF IInv, KindFits, NoResultYet, InputFits
<1>. QED BY <1>5, <1>6, <1>7, <1>8 DEF IInv

LEMMA StepEchidna == ASSUME IInv, Echidna PROVE IInv'
<1>1. /\ pc = "echidna" /\ kind = "evm" /\ ToolOf[kind] = EvmTool
      /\ source \in Source /\ source # None
      /\ input' \in Materialized(source)
      /\ UNCHANGED <<deployment, source, idl, result>>
  BY ToolsOf, NoneAssumption DEF IInv, TypeOK, Echidna, KindFits
<1>2. /\ "echidna" \in EvmTool /\ EvmTool \subseteq Tool
      /\ Pending["echidna"] = {"echidna"} /\ Pending["assertion"] = {"echidna"}
      /\ Pending["build"] = {}
  BY DEF Pending, EvmTool, Tool
<1>3. Noted("mythril") /\ Noted("slither") /\ Unnoted("echidna")
  BY <1>1, <1>2 DEF IInv, Books, EvmTool
<1>4. input' \in Name \cup {"whole", "other"} /\ InputFits'
  BY <1>1, MaterializedRight DEF InputFits, Echidna
<1>5. PICK o \in Outcome("echidna") :
       IF NeedsRetry(o)
         THEN /\ ran' = [ran EXCEPT !["echidna"] = o.ended]
              /\ reported' = reported \cup Findings("echidna", o)
              /\ pc' = "assertion"
              /\ UNCHANGED <<vulnerabilities, notes>>
         ELSE Taken("echidna", o) /\ pc' = "build"
  BY DEF Echidna
<1>6. CASE NeedsRetry(o)
  <2>1. /\ ran' = [ran EXCEPT !["echidna"] = o.ended] /\ pc' = "assertion"
        /\ reported' = reported /\ UNCHANGED <<vulnerabilities, notes>>
    BY <1>5, <1>6 DEF NeedsRetry
  <2>2. ran' \in [Tool -> Ending \cup {"not run"}]
    BY <1>2, <2>1, ExitedPrinted DEF IInv, TypeOK
  <2>3. Noted("mythril")' /\ Noted("slither")'
    <3>1. ran'["mythril"] = ran["mythril"] /\ ran'["slither"] = ran["slither"]
      BY <2>1 DEF IInv, TypeOK, Tool
    <3>. QED BY <1>3, <2>1, <3>1 DEF Noted, FindingsBy
  <2>4. Unnoted("echidna")'
    BY <1>3, <2>1 DEF Unnoted, FindingsBy
  <2>5. TypeOK'
    BY <1>1, <1>4, <2>1, <2>2 DEF IInv, TypeOK
  <2>6. Books'
    BY <1>1, <1>2, <2>1, <2>3, <2>4 DEF Books, EvmTool
  <2>7. KindFits' /\ AllKept' /\ NoResultYet'
    BY <1>1, <2>1 DEF IInv, KindFits, AllKept, NoResultYet
  <2>. QED BY <1>4, <2>5, <2>6, <2>7 DEF IInv
<1>7. CASE ~NeedsRetry(o)
  <2>1. Taken("echidna", o) /\ pc' = "build"
    BY <1>5, <1>7
  <2>2. /\ Noted("mythril")' /\ Noted("slither")' /\ Noted("echidna")'
        /\ notes' \in NoteSeq /\ ran' \in [Tool -> Ending \cup {"not run"}]
        /\ vulnerabilities' \subseteq Finding /\ reported' \subseteq Finding /\ AllKept'
    BY <1>2, <1>3, <2>1, TakenBooks DEF EvmTool
  <2>3. TypeOK'
    BY <1>1, <1>4, <2>1, <2>2 DEF IInv, TypeOK, NoteSeq, Entry
  <2>4. Books'
    BY <1>1, <1>2, <2>1, <2>2 DEF Books, EvmTool
  <2>5. KindFits' /\ NoResultYet'
    BY <1>1, <2>1 DEF IInv, KindFits, NoResultYet
  <2>. QED BY <1>4, <2>2, <2>3, <2>4, <2>5 DEF IInv
<1>. QED BY <1>6, <1>7

LEMMA StepAssertion == ASSUME IInv, Assertion PROVE IInv'
<1>1. /\ pc = "assertion" /\ pc' = "build" /\ kind = "evm" /\ ToolOf[kind] = EvmTool
      /\ UNCHANGED <<deployment, source, idl, result, input>>
  BY ToolsOf DEF IInv, Assertion, KindFits
<1>2. /\ "echidna" \in EvmTool /\ EvmTool \subseteq Tool
      /\ Pending["assertion"] = {"echidna"} /\ Pending["build"] = {}
  BY DEF Pending, EvmTool, Tool
<1>3. Noted("mythril") /\ Noted("slither") /\ Unnoted("echidna")
  BY <1>1, <1>2 DEF IInv, Books, EvmTool
<1>4. PICK o \in Outcome("echidna") : Taken("echidna", o)
  BY DEF Assertion
<1>5. /\ Noted("mythril")' /\ Noted("slither")' /\ Noted("echidna")'
      /\ notes' \in NoteSeq /\ ran' \in [Tool -> Ending \cup {"not run"}]
      /\ vulnerabilities' \subseteq Finding /\ reported' \subseteq Finding /\ AllKept'
  BY <1>2, <1>3, <1>4, TakenBooks DEF EvmTool
<1>6. TypeOK'
  BY <1>1, <1>5 DEF IInv, TypeOK, NoteSeq, Entry
<1>7. Books'
  BY <1>1, <1>2, <1>5 DEF Books, EvmTool
<1>8. KindFits' /\ NoResultYet' /\ InputFits'
  BY <1>1 DEF IInv, KindFits, NoResultYet, InputFits
<1>. QED BY <1>5, <1>6, <1>7, <1>8 DEF IInv

LEMMA StepFetchProgram == ASSUME IInv, FetchProgram PROVE IInv'
<1>1. /\ pc = "program" /\ pc' = "idl" /\ kind = "solana" /\ idl' \in Idl \cup {None}
      /\ UNCHANGED <<deployment, source, vulnerabilities, notes, result, input, ran, reported>>
  BY DEF IInv, FetchProgram, KindFits
<1>2. Pending["program"] = {"cargo_audit"} /\ Pending["idl"] = {"cargo_audit"}
  BY DEF Pending
<1>3. TypeOK'
  BY <1>1 DEF IInv, TypeOK
<1>4. Books'
  BY <1>1, <1>2, ToolsOf DEF IInv, Books, Unnoted, FindingsBy
<1>5. KindFits' /\ AllKept' /\ NoResultYet' /\ InputFits'
  BY <1>1 DEF IInv, KindFits, AllKept, NoResultYet, InputFits
<1>. QED BY <1>3, <1>4, <1>5 DEF IInv

LEMMA StepAnalyseIdl == ASSUME IInv, AnalyseIdl PROVE IInv'
<1>1. /\ pc = "idl" /\ pc' = "cargo" /\ kind = "solana" /\ Found(IdlFindings)
      /\ UNCHANGED <<deployment, source, idl, notes, result, input, ran>>
  BY DEF IInv, AnalyseIdl, KindFits
<1>2. Pending["idl"] = {"cargo_audit"} /\ Pending["cargo"] = {"cargo_audit"}
  BY DEF Pending
<1>3. IdlFindings \subseteq Finding /\ \A f \in IdlFindings : f[1] # "cargo_audit"
  <2>1. SUFFICES ASSUME NEW f \in IdlFindings
                 PROVE  f \in Finding /\ f[1] # "cargo_audit"
    OBVIOUS
  <2>2. idl \in Idl
    BY DEF IdlFindings, IInv, TypeOK
  <2>3. idl.patterns \subseteq Label /\ idl.risks \subseteq Label
    BY <2>2 DEF Idl
  <2>4. PICK l \in Label : f = <<"solana_idl", l>> \/ f = <<"defi_risk", l>>
    BY <2>2, <2>3 DEF IdlFindings
  <2>5. f[1] # "cargo_audit"
    BY <2>4
  <2>. QED BY <2>4, <2>5 DEF Finding
<1>4. vulnerabilities' \subseteq Finding /\ reported' \subseteq Finding /\ AllKept'
  BY <1>1, <1>3, FoundType DEF IInv
<1>5. TypeOK'
  BY <1>1, <1>4 DEF IInv, TypeOK
<1>6. Unnoted("cargo_audit")'
  <2>1. Unnoted("cargo_audit") /\ ran["cargo_audit"] = "not run"
    BY <1>1, <1>2, ToolsOf DEF IInv, Books, Unnoted
  <2>. QED BY <1>1, <1>3, <2>1, FoundKeeps DEF Unnoted
<1>7. Books'
  BY <1>1, <1>2, <1>6, ToolsOf DEF Books
<1>8. KindFits' /\ NoResultYet' /\ InputFits'
  BY <1>1 DEF IInv, KindFits, NoResultYet, InputFits
<1>. QED BY <1>4, <1>5, <1>7, <1>8 DEF IInv

LEMMA StepCargoAudit == ASSUME IInv, CargoAudit PROVE IInv'
<1>1. /\ pc = "cargo" /\ pc' = "build" /\ kind = "solana"
      /\ UNCHANGED <<deployment, source, idl, result, input>>
  BY DEF IInv, CargoAudit, KindFits
<1>2. Pending["cargo"] = {"cargo_audit"} /\ Pending["build"] = {}
  BY DEF Pending
<1>3. Unnoted("cargo_audit")
  BY <1>1, <1>2, ToolsOf DEF IInv, Books
<1>4. PICK o \in CargoOutcome :
       /\ ran' = [ran EXCEPT !["cargo_audit"] = o.ended]
       /\ Found(CargoFindings(o))
       /\ notes' = Append(notes, Note("cargo_audit", CargoSays(o)))
  BY DEF CargoAudit
<1>5. vulnerabilities' \subseteq Finding /\ reported' \subseteq Finding /\ AllKept'
  BY <1>4, CargoFits, FoundType DEF IInv
<1>6. ran'["cargo_audit"] = o.ended /\ ran' \in [Tool -> Ending \cup {"not run"}]
  BY <1>4, CargoFits DEF IInv, TypeOK, Tool
<1>7. /\ Note("cargo_audit", CargoSays(o)) \in Entry
      /\ Note("cargo_audit", CargoSays(o)).tool = "cargo_audit"
      /\ Note("cargo_audit", CargoSays(o)).says = CargoSays(o)
  BY CargoFits DEF Note, Entry, Tool
<1>8. notes' \in NoteSeq
  BY <1>4, <1>7, AppendSeq DEF IInv, TypeOK, NoteSeq, Entry
<1>. DEFINE i == Len(notes) + 1
<1>9. /\ i \in DOMAIN notes' /\ notes'[i].says = CargoSays(o)
      /\ {j \in DOMAIN notes' : notes'[j].tool = "cargo_audit"} = {i}
  <2>1. \A j \in DOMAIN notes : notes[j].tool # "cargo_audit"
    BY <1>3 DEF Unnoted
  <2>. DEFINE n == Note("cargo_audit", CargoSays(o))
  <2>2. /\ n \in Entry /\ n.tool = "cargo_audit" /\ n.says = CargoSays(o)
        /\ notes' = Append(notes, n) /\ notes \in Seq(Entry)
    BY <1>4, <1>7 DEF IInv, TypeOK, Entry
  <2>. HIDE DEF n
  <2>3. LET k == Len(notes) + 1 IN
          /\ k \in DOMAIN notes' /\ notes'[k] = n
          /\ {j \in DOMAIN notes' : notes'[j].tool = n.tool} = {k}
    BY <2>1, <2>2, FirstNote DEF Entry
  <2>. QED BY <2>2, <2>3
<1>10. FindingsBy("cargo_audit")' = CargoFindings(o)
  BY <1>3, <1>4, CargoFits DEF Found, FindingsBy, Unnoted
<1>11. Exited(o) <=> o.ended \in {"clean", "unclean"}
  BY DEF Exited
<1>12. /\ ~(notes'[i].says = "skipped") /\ ~(ran'["cargo_audit"] = "not run")
       /\ ran'["cargo_audit"] \in {"unavailable", "timeout", "error"} =>
            notes'[i].says = ran'["cargo_audit"]
       /\ notes'[i].says # "no findings"
       /\ notes'[i].says = "findings" => FindingsBy("cargo_audit")' # {}
       /\ ran'["cargo_audit"] \in {"clean", "unclean"} /\ FindingsBy("cargo_audit")' # {} =>
            notes'[i].says = "findings"
  BY <1>6, <1>9, <1>10, <1>11, CargoFits DEF Ending
<1>. HIDE DEF i
<1>13. Noted("cargo_audit")'
  BY <1>9, <1>12 DEF Noted
<1>14. TypeOK'
  BY <1>1, <1>5, <1>6, <1>8 DEF IInv, TypeOK, NoteSeq, Entry
<1>15. Books'
  BY <1>1, <1>2, <1>13, ToolsOf DEF Books
<1>16. KindFits' /\ NoResultYet' /\ InputFits'
  BY <1>1 DEF IInv, KindFits, NoResultYet, InputFits
<1>. QED BY <1>5, <1>14, <1>15, <1>16 DEF IInv

LEMMA StepBuild == ASSUME IInv, Build PROVE IInv'
<1>1. /\ pc = "build" /\ pc' = "done" /\ Found(DefiRisks)
      /\ result' = [status |-> IF vulnerabilities' = {} THEN "ok"
                               ELSE "vulnerabilities_detected",
                    vulnerabilities |-> vulnerabilities']
      /\ UNCHANGED <<deployment, source, idl, notes, input, ran>>
  BY DEF Build
<1>2. DefiRisks \subseteq Finding /\ \A f \in DefiRisks : f[1] \notin Tool
  <2>1. SUFFICES ASSUME NEW f \in DefiRisks
                 PROVE  f \in Finding /\ f[1] \notin Tool
    OBVIOUS
  <2>2. source \in Source
    BY DEF DefiRisks, IInv, TypeOK
  <2>3. source.risks \subseteq Label
    BY <2>2 DEF Source
  <2>4. PICK l \in Label : f = <<"defi_risk", l>>
    BY <2>2, <2>3 DEF DefiRisks
  <2>5. f[1] = "defi_risk"
    BY <2>4
  <2>. QED BY <2>4, <2>5 DEF Finding, Tool
<1>3. vulnerabilities' \subseteq Finding /\ reported' \subseteq Finding /\ AllKept'
  BY <1>1, <1>2, FoundType DEF IInv
<1>4. result' \in [status : {"ok", "vulnerabilities_detected"}, vulnerabilities : SUBSET Finding]
  BY <1>1, <1>3
<1>5. TypeOK'
  BY <1>1, <1>3, <1>4 DEF IInv, TypeOK
<1>6. Pending["build"] = {} /\ Pending["done"] = {} /\ ToolOf[kind] \subseteq Tool
  BY ToolsOf DEF Pending, IInv, TypeOK, EvmTool, Tool
<1>7. ASSUME NEW t \in ToolOf[kind] PROVE Noted(t)'
  <2>1. Noted(t)
    BY <1>1, <1>6 DEF IInv, Books
  <2>2. FindingsBy(t)' = FindingsBy(t)
    BY <1>1, <1>2, <1>6, FoundKeeps
  <2>. QED BY <1>1, <2>1, <2>2 DEF Noted
<1>8. Books'
  BY <1>1, <1>6, <1>7 DEF Books
<1>9. KindFits' /\ NoResultYet' /\ InputFits'
  BY <1>1 DEF IInv, KindFits, NoResultYet, InputFits
<1>. QED BY <1>3, <1>5, <1>8, <1>9 DEF IInv

LEMMA StepRaise == ASSUME IInv, Raise PROVE IInv'
<1>1. /\ pc' = "raised" /\ pc # "done"
      /\ UNCHANGED <<deployment, source, idl, vulnerabilities, notes, result, input, ran, reported>>
  BY DEF Raise
<1>. QED BY <1>1 DEF IInv, TypeOK, Books, KindFits, AllKept, NoResultYet, InputFits

LEMMA StepStutter == ASSUME IInv, UNCHANGED vars PROVE IInv'
<1>1. TypeOK' /\ KindFits' /\ AllKept' /\ NoResultYet' /\ InputFits'
  BY DEF vars, IInv, TypeOK, KindFits, AllKept, NoResultYet, InputFits
<1>2. \A t : FindingsBy(t)' = FindingsBy(t)
  BY DEF vars, FindingsBy
<1>3. \A t : (Noted(t)' <=> Noted(t)) /\ (Unnoted(t)' <=> Unnoted(t))
  BY <1>2 DEF vars, Noted, Unnoted
<1>4. Books'
  BY <1>3 DEF vars, IInv, Books
<1>. QED BY <1>1, <1>4 DEF IInv

LEMMA StepIInv == ASSUME IInv, [Next]_vars PROVE IInv'
  BY StepMythril, StepFetchSource, StepSlither, StepEchidna, StepAssertion, StepFetchProgram,
     StepAnalyseIdl, StepCargoAudit, StepBuild, StepRaise, StepStutter
  DEF Next

------------------------------------------------------------------------------
\* The theorems.

\* Which tools are noted, and truly, and what has been found, at every stage of
\* any analysis.
THEOREM Invariance == Spec => []IInv
<1>1. Init => IInv
  BY InitIInv
<1>2. IInv /\ [Next]_vars => IInv'
  BY StepIInv
<1>. QED BY <1>1, <1>2, PTL DEF Spec

\* Every variable keeps its type.
THEOREM TypeCorrect == Spec => []TypeOK
<1>1. IInv => TypeOK
  BY DEF IInv
<1>. QED BY <1>1, Invariance, PTL

\* A finished analysis has one true note for each tool of its chain.
THEOREM NotesTrue == Spec => []NotesTell
<1>1. ASSUME IInv PROVE NotesTell
  <2>1. SUFFICES ASSUME pc = "done", NEW t \in ToolOf[kind] PROVE Noted(t)
    BY DEF NotesTell, Noted
  <2>2. Pending["done"] = {}
    BY DEF Pending
  <2>. QED BY <1>1, <2>1, <2>2 DEF IInv, Books
<1>. QED BY <1>1, Invariance, PTL

\* What file of a source Echidna is started on, for any names and paths.
THEOREM TargetChosen == Spec => []EchidnaGetsTarget
<1>1. IInv => EchidnaGetsTarget
  BY DEF IInv, InputFits, RightFile, EchidnaGetsTarget
<1>. QED BY <1>1, Invariance, PTL

\* An analysis implements Analysis: each stage reports, finishes or raises.
THEOREM ImplementsAnalysis == Spec => AnalysisSpec
<1>. USE DEF Promise!Report, Promise!Finish, Promise!Raise
<1>1. Init => Promise!Init
  BY DEF Init, Promise!Init
<1>2. ASSUME IInv, [Next]_vars PROVE [Promise!Next]_(Promise!vars)
  <2>1. CASE Mythril \/ FetchSource \/ Slither \/ Echidna \/ Assertion
               \/ FetchProgram \/ AnalyseIdl \/ CargoAudit
    <3>1. /\ reported \subseteq reported' /\ UNCHANGED result
      BY <2>1 DEF Mythril, FetchSource, Slither, Echidna, Assertion, FetchProgram, AnalyseIdl,
                  CargoAudit, Taken, Found
    <3>2. pc \notin {"done", "raised"} /\ pc' \notin {"done", "raised"}
      BY <2>1 DEF Mythril, FetchSource, Slither, Echidna, Assertion, FetchProgram, AnalyseIdl,
                  CargoAudit
    <3>. QED BY <3>1, <3>2 DEF Promise!Next
  <2>2. CASE Build
    <3>1. reported = vulnerabilities /\ reported' = vulnerabilities'
      BY <1>2, <2>2, StepBuild DEF IInv, AllKept
    <3>. QED BY <2>2, <3>1 DEF Build, Found, Promise!Next
  <2>3. CASE Raise
    BY <2>3 DEF Raise, Promise!Next
  <2>4. CASE UNCHANGED vars
    BY <2>4 DEF vars, Promise!vars
  <2>. QED BY <1>2, <2>1, <2>2, <2>3, <2>4 DEF Next
<1>. QED BY <1>1, <1>2, Invariance, PTL DEF Spec, AnalysisSpec, Promise!Spec

------------------------------------------------------------------------------
\* What a missing tool leaves.

\* The findings that stand for a tool that is not installed.
Missing(t) == IF t = "cargo_audit" THEN {} ELSE {<<t, "unavailable">>}

MissingSoFar == \A t \in Tool \ installed : FindingsBy(t) \subseteq Missing(t)

\* Findings that are found take nothing but that from a missing tool.
LEMMA MissingFound ==
  ASSUME MissingSoFar, UNCHANGED installed, NEW findings, Found(findings),
         \A f \in findings : \A t \in Tool \ installed : f[1] = t => f \in Missing(t)
  PROVE  MissingSoFar'
  BY DEF MissingSoFar, Found, FindingsBy

LEMMA MissingTaken ==
  ASSUME MissingSoFar, UNCHANGED installed,
         NEW u \in EvmTool, NEW o \in Outcome(u), Taken(u, o)
  PROVE  MissingSoFar'
<1>1. Found(Findings(u, o))
  BY DEF Taken
<1>2. \A f \in Findings(u, o) : f[1] = u
  BY FindingsType
<1>3. u \notin installed => Findings(u, o) = {<<u, "unavailable">>} /\ u # "cargo_audit"
  BY DEF Outcome, Findings, Exited, EvmTool
<1>4. ASSUME NEW f \in Findings(u, o), NEW t \in Tool \ installed, f[1] = t
      PROVE  f \in Missing(t)
  BY <1>2, <1>3, <1>4 DEF Missing
<1>. QED BY <1>1, <1>4, MissingFound

LEMMA MissingStep ==
  ASSUME IInv, MissingSoFar, [Next]_vars
  PROVE  MissingSoFar'
<1>0. UNCHANGED installed
  BY DEF Next, vars, Mythril, FetchSource, Slither, Echidna, Assertion, FetchProgram, AnalyseIdl,
         CargoAudit, Build, Raise
<1>1. \A findings : Found(findings) /\ (\A f \in findings : f[1] \notin Tool) => MissingSoFar'
  BY <1>0, MissingFound
<1>2. CASE Mythril
  <2>1. ASSUME NEW o \in Outcome("mythril"), Taken("mythril", o) PROVE MissingSoFar'
    BY <1>0, <2>1, MissingTaken DEF EvmTool
  <2>2. UNCHANGED vulnerabilities => MissingSoFar'
    BY <1>0 DEF MissingSoFar, FindingsBy
  <2>. QED BY <1>2, <2>1, <2>2 DEF Mythril
<1>3. CASE Slither
  BY <1>0, <1>3, MissingTaken DEF Slither, EvmTool
<1>4. CASE Echidna
  <2>1. ASSUME NEW o \in Outcome("echidna"), Taken("echidna", o) PROVE MissingSoFar'
    BY <1>0, <2>1, MissingTaken DEF EvmTool
  <2>2. UNCHANGED vulnerabilities => MissingSoFar'
    BY <1>0 DEF MissingSoFar, FindingsBy
  <2>. QED BY <1>4, <2>1, <2>2 DEF Echidna
<1>5. CASE Assertion
  BY <1>0, <1>5, MissingTaken DEF Assertion, EvmTool
<1>6. CASE AnalyseIdl
  <2>1. \A f \in IdlFindings : f[1] \notin Tool
    BY DEF IdlFindings, Tool
  <2>. QED BY <1>1, <1>6, <2>1 DEF AnalyseIdl
<1>7. CASE CargoAudit
  <2>1. PICK o \in CargoOutcome : Found(CargoFindings(o))
    BY <1>7 DEF CargoAudit
  <2>2. \A f \in CargoFindings(o) : f[1] = "cargo_audit"
    BY CargoFits
  <2>3. "cargo_audit" \notin installed => CargoFindings(o) = {}
    BY DEF CargoOutcome, CargoFindings
  <2>4. ASSUME NEW f \in CargoFindings(o), NEW t \in Tool \ installed, f[1] = t
        PROVE  f \in Missing(t)
    BY <2>2, <2>3, <2>4
  <2>. QED BY <1>0, <2>1, <2>4, MissingFound
<1>8. CASE Build
  <2>1. \A f \in DefiRisks : f[1] \notin Tool
    BY DEF DefiRisks, Tool
  <2>. QED BY <1>1, <1>8, <2>1 DEF Build
<1>9. CASE UNCHANGED vulnerabilities
  BY <1>0, <1>9 DEF MissingSoFar, FindingsBy
<1>. QED
  BY <1>2, <1>3, <1>4, <1>5, <1>6, <1>7, <1>8, <1>9
  DEF Next, vars, FetchSource, FetchProgram, Raise

\* A result, if there is one, has what was found.
ResultWhole == result # None => pc = "done" /\ result.vulnerabilities = vulnerabilities

LEMMA WholeStep ==
  ASSUME IInv, ResultWhole, [Next]_vars
  PROVE  ResultWhole'
<1>1. CASE Build
  BY <1>1 DEF Build, ResultWhole
<1>2. ASSUME pc # "done", UNCHANGED result PROVE ResultWhole'
  BY <1>2 DEF IInv, NoResultYet, ResultWhole
<1>3. CASE UNCHANGED vars
  BY <1>3 DEF vars, ResultWhole
<1>. QED
  BY <1>1, <1>2, <1>3
  DEF Next, Mythril, FetchSource, Slither, Echidna, Assertion, FetchProgram, AnalyseIdl,
      CargoAudit, Raise

\* How far the instructions are right (.github/copilot-instructions.md:9, see
\* MissingToolIsNote): cargo-audit leaves nothing when it is missing, and each
\* tool of the others exactly one finding at most, that it is unavailable.
THEOREM MissingLeavesOneFinding ==
  Spec => [](result # None =>
               \A t \in ToolOf[kind] \ installed :
                 {f \in result.vulnerabilities : f[1] = t} \subseteq Missing(t))
<1>. DEFINE OneFinding ==
       result # None =>
         \A t \in ToolOf[kind] \ installed :
           {f \in result.vulnerabilities : f[1] = t} \subseteq Missing(t)
<1>1. Init => MissingSoFar /\ ResultWhole
  BY DEF Init, MissingSoFar, FindingsBy, ResultWhole
<1>2. IInv /\ MissingSoFar /\ ResultWhole /\ [Next]_vars => MissingSoFar' /\ ResultWhole'
  BY MissingStep, WholeStep
<1>3. ASSUME IInv, MissingSoFar, ResultWhole, result # None PROVE OneFinding
  <2>1. ToolOf[kind] \subseteq Tool
    BY <1>3, ToolsOf DEF IInv, TypeOK, Tool, EvmTool
  <2>. QED BY <1>3, <2>1 DEF MissingSoFar, FindingsBy, ResultWhole
<1>4. IInv /\ MissingSoFar /\ ResultWhole => OneFinding
  BY <1>3
<1>. QED BY <1>1, <1>2, <1>4, Invariance, PTL DEF Spec

------------------------------------------------------------------------------
\* When an analysis ends with an exception.

\* How far the instructions are right (.github/copilot-instructions.md:42, see
\* AlwaysReturns): without a source, and without an IDL or with one that is
\* shaped as it is read, an analysis does not raise.
THEOREM RaisesOnlyOnInput ==
  Spec => [](pc = "raised" =>
               IF kind = "evm" THEN source # None ELSE idl # None /\ idl.malformed)
<1>. DEFINE Cause == pc = "raised" =>
                       IF kind = "evm" THEN source # None ELSE idl # None /\ idl.malformed
<1>1. Init => Cause
  BY DEF Init
<1>2. ASSUME IInv, Cause, [Next]_vars PROVE Cause'
  <2>1. CASE Raise
    BY <1>2, <2>1 DEF IInv, TypeOK, KindFits, Raise
  <2>2. CASE UNCHANGED vars
    BY <1>2, <2>2 DEF vars
  <2>3. CASE ~Raise /\ ~UNCHANGED vars
    <3>1. pc' # "raised"
      BY <1>2, <2>3 DEF Next, Mythril, FetchSource, Slither, Echidna, Assertion, FetchProgram,
                        AnalyseIdl, CargoAudit, Build
    <3>. QED BY <3>1
  <2>. QED BY <2>1, <2>2, <2>3
<1>3. IInv /\ Cause /\ [Next]_vars => Cause'
  BY <1>2
<1>. QED BY <1>1, <1>3, Invariance, PTL DEF Spec
==============================================================================
