-------------------------- MODULE ScannerLoopProofs --------------------------
(***************************************************************************)
(* Proofs about ScannerLoop: its inductive invariant, one lemma per part   *)
(* and one step per action; what follows from it; what failures cost; and  *)
(* that the scanner implements DiscoveryLedger.                            *)
(***************************************************************************)
EXTENDS ScannerLoop, FiniteSetTheorems, TLAPS

USE DEF chainVars, diskVars, taskVars, requestVars, history, budgets

LEMMA DeployedAddresses ==
  ASSUME NEW b \in Block
  PROVE  Deployed(b) \subseteq Address
  BY TxsAssumption, NoneAssumption DEF Deployed, Tx

LEMMA FindType ==
  ASSUME NEW first, NEW last
  PROVE  FindContractCreations(first, last) \in SUBSET Contract
  BY DEF FindContractCreations

LEMMA BlockInt == Block \subseteq Int /\ None \notin Block
  BY MaxHeightAssumption, NoneAssumption DEF Block

LEMMA LoseMemoryType ==
  ASSUME LoseMemory
  PROVE  /\ pc' \in ScannerPc
         /\ lastProcessed' \in Cursor
         /\ latest' \in Block \cup {None}
         /\ batch' \in SUBSET Contract
         /\ current' \in Contract \cup {None}
         /\ rpcErrors' \in 0 .. FloatMaxExp + 1
         /\ stopEvent' \in BOOLEAN
         /\ reqPc' \in [Request -> {"new", "analyzing", "notify", "done"}]
<1>1. reqPc' = [r \in Request |-> IF reqPc[r] = "new" THEN "new" ELSE "done"]
  BY DEF LoseMemory
<1>2. reqPc' \in [Request -> {"new", "analyzing", "notify", "done"}]
  BY <1>1
<1>3. lastProcessed' \in Cursor /\ pc' \in ScannerPc
  BY DEF LoseMemory, Cursor, ScannerPc
<1>4. rpcErrors' \in 0 .. FloatMaxExp + 1
  BY FloatAssumption DEF LoseMemory
<1>. QED
  BY <1>2, <1>3, <1>4 DEF LoseMemory

LEMMA TypeInit == ASSUME Init PROVE TypeOK
<1>1. height \in Block /\ rpcErrors \in 0 .. FloatMaxExp + 1
  BY MaxHeightAssumption, FloatAssumption DEF Init, Block
<1>2. /\ contracts \in [Address -> Block \cup {None}]
      /\ scans \in [Address -> Block \cup {None}]
  BY DEF Init
<1>3. lastDisk \in Cursor /\ lastProcessed \in Cursor /\ origin \in Cursor
  BY DEF Init, Cursor
<1>4. /\ pc \in ScannerPc
      /\ latest \in Block \cup {None}
      /\ batch \in SUBSET Contract
      /\ current \in Contract \cup {None}
      /\ stopEvent \in BOOLEAN
  BY DEF Init, ScannerPc
<1>5. /\ reqPc \in [Request -> {"new", "analyzing", "notify", "done"}]
      /\ reqAddr \in [Request -> Address \cup {None}]
  BY DEF Init
<1>6. analyses \in [Address -> Nat] /\ upserts \in Nat /\ alerts \in Nat
  BY DEF Init
<1>7. faults \in Nat /\ crashes \in Nat /\ stops \in Nat
  BY DEF Init
<1>. QED
  BY <1>1, <1>2, <1>3, <1>4, <1>5, <1>6, <1>7 DEF TypeOK

LEMMA TypeStep ==
  ASSUME TypeOK, ErrorsBounded, AnalysesClaimed, CursorsOrdered, [Next]_vars
  PROVE  TypeOK'
<1>. USE MaxHeightAssumption, FloatAssumption, NoneAssumption, StartAssumption
     DEF Block, Cursor, Height, ScannerPc, TypeOK
<1>1. CASE Mine
  BY <1>1 DEF Mine
<1>2. CASE Boot
  BY <1>2 DEF Boot, LoopTop
<1>3. CASE BootFails
  BY <1>3 DEF BootFails
<1>4. CASE Wake
  BY <1>4 DEF Wake, LoopTop
<1>5. CASE LatestFresh
  BY <1>5 DEF LatestFresh, LatestAnswer, FirstCursor, NothingNew
<1>6. CASE LatestStale
  BY <1>6 DEF LatestStale, LatestAnswer, FirstCursor, NothingNew
<1>7. CASE FindAnswer
  BY <1>7, FindType DEF FindAnswer
<1>8. ASSUME NEW c \in batch, SkipKnown(c) PROVE TypeOK'
  BY <1>8 DEF SkipKnown
<1>9. ASSUME NEW c \in batch, ClaimAndAnalyze(c) PROVE TypeOK'
  BY <1>9 DEF ClaimAndAnalyze, AddContract, Contract
<1>10. CASE StoreScan
  BY <1>10 DEF StoreScan, UpsertScan, AnalysesClaimed, Contract
<1>11. CASE SendAlert
  BY <1>11 DEF SendAlert, NotifyScan
<1>12. CASE AdvanceCursor
  BY <1>12 DEF AdvanceCursor, CursorsOrdered
<1>13. ASSUME NEW retryable \in BOOLEAN, StepRaises(retryable) PROVE TypeOK'
  BY <1>13 DEF StepRaises, HandleError, DelayOverflows, ErrorsBounded
<1>14. CASE FirstCursorNotStored
  BY <1>14 DEF FirstCursorNotStored, HandleError, FirstCursor
<1>15. CASE CursorNotStored
  BY <1>15 DEF CursorNotStored, HandleError, CursorsOrdered
<1>16. ASSUME NEW r \in Request, NEW a \in Address, StartRescan(r, a) PROVE TypeOK'
  BY <1>16 DEF StartRescan, AddContract
<1>17. ASSUME NEW r \in Request, StoreRescan(r) PROVE TypeOK'
  BY <1>17 DEF StoreRescan, UpsertScan, AnalysesClaimed
<1>18. ASSUME NEW r \in Request, AlertRescan(r) PROVE TypeOK'
  BY <1>18 DEF AlertRescan, NotifyScan
<1>19. ASSUME NEW r \in Request, RescanFails(r) PROVE TypeOK'
  BY <1>19 DEF RescanFails
<1>20. CASE Crash
  BY <1>20, LoseMemoryType DEF Crash
<1>21. CASE Shutdown
  BY <1>21 DEF Shutdown
<1>22. CASE Exit
  BY <1>22, LoseMemoryType DEF Exit
<1>23. CASE UNCHANGED vars
  BY <1>23 DEF vars
<1>. QED
  BY <1>1, <1>2, <1>3, <1>4, <1>5, <1>6, <1>7, <1>8, <1>9, <1>10, <1>11, <1>12,
     <1>13, <1>14, <1>15, <1>16, <1>17, <1>18, <1>19, <1>20, <1>21, <1>22, <1>23
  DEF Next, ScannerStep, RequestStep, Fault

LEMMA RunningStep ==
  ASSUME TypeOK, OneRunning, [Next]_vars
  PROVE  OneRunning'
<1>. USE DEF TypeOK, OneRunning, EventLoopFree, ScannerHoldsLoop, RequestHoldsLoop
<1>1. CASE Mine
  BY <1>1 DEF Mine
<1>2. CASE Boot
  BY <1>2 DEF Boot, LoopTop
<1>3. CASE BootFails
  BY <1>3 DEF BootFails
<1>4. CASE Wake
  BY <1>4 DEF Wake, LoopTop
<1>5. CASE LatestFresh
  BY <1>5 DEF LatestFresh, LatestAnswer, FirstCursor, NothingNew
<1>6. CASE LatestStale
  BY <1>6 DEF LatestStale, LatestAnswer, FirstCursor, NothingNew
<1>7. CASE FindAnswer
  BY <1>7 DEF FindAnswer
<1>8. ASSUME NEW c \in batch, SkipKnown(c) PROVE OneRunning'
  BY <1>8 DEF SkipKnown
<1>9. ASSUME NEW c \in batch, ClaimAndAnalyze(c) PROVE OneRunning'
  BY <1>9 DEF ClaimAndAnalyze, AddContract, HasContract
<1>10. CASE StoreScan
  BY <1>10 DEF StoreScan, UpsertScan
<1>11. CASE SendAlert
  BY <1>11 DEF SendAlert, NotifyScan
<1>12. CASE AdvanceCursor
  BY <1>12 DEF AdvanceCursor
<1>13. ASSUME NEW retryable \in BOOLEAN, StepRaises(retryable) PROVE OneRunning'
  BY <1>13 DEF StepRaises, HandleError
<1>14. CASE FirstCursorNotStored
  BY <1>14 DEF FirstCursorNotStored, HandleError, FirstCursor
<1>15. CASE CursorNotStored
  BY <1>15 DEF CursorNotStored, HandleError
<1>16. ASSUME NEW r \in Request, NEW a \in Address, StartRescan(r, a) PROVE OneRunning'
  BY <1>16 DEF StartRescan, AddContract
<1>17. ASSUME NEW r \in Request, StoreRescan(r) PROVE OneRunning'
  BY <1>17 DEF StoreRescan, UpsertScan
<1>18. ASSUME NEW r \in Request, AlertRescan(r) PROVE OneRunning'
  BY <1>18 DEF AlertRescan, NotifyScan
<1>19. ASSUME NEW r \in Request, RescanFails(r) PROVE OneRunning'
  BY <1>19 DEF RescanFails
<1>20. CASE Crash
  BY <1>20 DEF Crash, LoseMemory
<1>21. CASE Shutdown
  BY <1>21 DEF Shutdown
<1>22. CASE Exit
  BY <1>22 DEF Exit, LoseMemory
<1>23. CASE UNCHANGED vars
  BY <1>23 DEF vars
<1>. QED
  BY <1>1, <1>2, <1>3, <1>4, <1>5, <1>6, <1>7, <1>8, <1>9, <1>10, <1>11, <1>12,
     <1>13, <1>14, <1>15, <1>16, <1>17, <1>18, <1>19, <1>20, <1>21, <1>22, <1>23
  DEF Next, ScannerStep, RequestStep, Fault

LEMMA CursorsStep ==
  ASSUME TypeOK, CursorsOrdered, [Next]_vars
  PROVE  CursorsOrdered'
<1>. USE MaxHeightAssumption, NoneAssumption, StartAssumption DEF TypeOK, CursorsOrdered, Block, Height, Cursor
<1>1. CASE Mine
  BY <1>1 DEF Mine
<1>2. CASE Boot
  BY <1>2 DEF Boot, LoopTop
<1>3. CASE BootFails
  BY <1>3 DEF BootFails
<1>4. CASE Wake
  BY <1>4 DEF Wake, LoopTop
<1>5. CASE LatestFresh
  BY <1>5 DEF LatestFresh, LatestAnswer, FirstCursor, NothingNew
<1>6. CASE LatestStale
  BY <1>6 DEF LatestStale, LatestAnswer, FirstCursor, NothingNew
<1>7. CASE FindAnswer
  BY <1>7 DEF FindAnswer
<1>8. ASSUME NEW c \in batch, SkipKnown(c) PROVE CursorsOrdered'
  BY <1>8 DEF SkipKnown
<1>9. ASSUME NEW c \in batch, ClaimAndAnalyze(c) PROVE CursorsOrdered'
  BY <1>9 DEF ClaimAndAnalyze, AddContract, HasContract
<1>10. CASE StoreScan
  BY <1>10 DEF StoreScan, UpsertScan
<1>11. CASE SendAlert
  BY <1>11 DEF SendAlert, NotifyScan
<1>12. CASE AdvanceCursor
  BY <1>12 DEF AdvanceCursor
<1>13. ASSUME NEW retryable \in BOOLEAN, StepRaises(retryable) PROVE CursorsOrdered'
  BY <1>13 DEF StepRaises, HandleError
<1>14. CASE FirstCursorNotStored
  BY <1>14 DEF FirstCursorNotStored, HandleError, FirstCursor
<1>15. CASE CursorNotStored
  BY <1>15 DEF CursorNotStored, HandleError
<1>16. ASSUME NEW r \in Request, NEW a \in Address, StartRescan(r, a) PROVE CursorsOrdered'
  BY <1>16 DEF StartRescan, AddContract
<1>17. ASSUME NEW r \in Request, StoreRescan(r) PROVE CursorsOrdered'
  BY <1>17 DEF StoreRescan, UpsertScan
<1>18. ASSUME NEW r \in Request, AlertRescan(r) PROVE CursorsOrdered'
  BY <1>18 DEF AlertRescan, NotifyScan
<1>19. ASSUME NEW r \in Request, RescanFails(r) PROVE CursorsOrdered'
  BY <1>19 DEF RescanFails
<1>20. CASE Crash
  BY <1>20 DEF Crash, LoseMemory
<1>21. CASE Shutdown
  BY <1>21 DEF Shutdown
<1>22. CASE Exit
  BY <1>22 DEF Exit, LoseMemory
<1>23. CASE UNCHANGED vars
  BY <1>23 DEF vars
<1>. QED
  BY <1>1, <1>2, <1>3, <1>4, <1>5, <1>6, <1>7, <1>8, <1>9, <1>10, <1>11, <1>12,
     <1>13, <1>14, <1>15, <1>16, <1>17, <1>18, <1>19, <1>20, <1>21, <1>22, <1>23
  DEF Next, ScannerStep, RequestStep, Fault

LEMMA ErrorsStep ==
  ASSUME TypeOK, ErrorsBounded, [Next]_vars
  PROVE  ErrorsBounded'
<1>. USE FloatAssumption DEF TypeOK, ErrorsBounded
<1>1. CASE Mine
  BY <1>1 DEF Mine
<1>2. CASE Boot
  BY <1>2 DEF Boot, LoopTop
<1>3. CASE BootFails
  BY <1>3 DEF BootFails
<1>4. CASE Wake
  BY <1>4 DEF Wake, LoopTop
<1>5. CASE LatestFresh
  BY <1>5 DEF LatestFresh, LatestAnswer, FirstCursor, NothingNew
<1>6. CASE LatestStale
  BY <1>6 DEF LatestStale, LatestAnswer, FirstCursor, NothingNew
<1>7. CASE FindAnswer
  BY <1>7 DEF FindAnswer
<1>8. ASSUME NEW c \in batch, SkipKnown(c) PROVE ErrorsBounded'
  BY <1>8 DEF SkipKnown
<1>9. ASSUME NEW c \in batch, ClaimAndAnalyze(c) PROVE ErrorsBounded'
  BY <1>9 DEF ClaimAndAnalyze, AddContract, HasContract
<1>10. CASE StoreScan
  BY <1>10 DEF StoreScan, UpsertScan
<1>11. CASE SendAlert
  BY <1>11 DEF SendAlert, NotifyScan
<1>12. CASE AdvanceCursor
  BY <1>12 DEF AdvanceCursor
<1>13. ASSUME NEW retryable \in BOOLEAN, StepRaises(retryable) PROVE ErrorsBounded'
  BY <1>13 DEF StepRaises, HandleError, DelayOverflows
<1>14. CASE FirstCursorNotStored
  BY <1>14 DEF FirstCursorNotStored, HandleError, FirstCursor, DelayOverflows
<1>15. CASE CursorNotStored
  BY <1>15 DEF CursorNotStored, HandleError, DelayOverflows
<1>16. ASSUME NEW r \in Request, NEW a \in Address, StartRescan(r, a) PROVE ErrorsBounded'
  BY <1>16 DEF StartRescan, AddContract
<1>17. ASSUME NEW r \in Request, StoreRescan(r) PROVE ErrorsBounded'
  BY <1>17 DEF StoreRescan, UpsertScan
<1>18. ASSUME NEW r \in Request, AlertRescan(r) PROVE ErrorsBounded'
  BY <1>18 DEF AlertRescan, NotifyScan
<1>19. ASSUME NEW r \in Request, RescanFails(r) PROVE ErrorsBounded'
  BY <1>19 DEF RescanFails
<1>20. CASE Crash
  BY <1>20 DEF Crash, LoseMemory
<1>21. CASE Shutdown
  BY <1>21 DEF Shutdown
<1>22. CASE Exit
  BY <1>22 DEF Exit, LoseMemory
<1>23. CASE UNCHANGED vars
  BY <1>23 DEF vars
<1>. QED
  BY <1>1, <1>2, <1>3, <1>4, <1>5, <1>6, <1>7, <1>8, <1>9, <1>10, <1>11, <1>12,
     <1>13, <1>14, <1>15, <1>16, <1>17, <1>18, <1>19, <1>20, <1>21, <1>22, <1>23
  DEF Next, ScannerStep, RequestStep, Fault

LEMMA AnalysesStep ==
  ASSUME TypeOK, AnalysesClaimed, [Next]_vars
  PROVE  AnalysesClaimed'
<1>. USE NoneAssumption, BlockInt DEF TypeOK, AnalysesClaimed, Contract
<1>1. CASE Mine
  BY <1>1 DEF Mine
<1>2. CASE Boot
  BY <1>2 DEF Boot, LoopTop
<1>3. CASE BootFails
  BY <1>3 DEF BootFails
<1>4. CASE Wake
  BY <1>4 DEF Wake, LoopTop
<1>5. CASE LatestFresh
  BY <1>5 DEF LatestFresh, LatestAnswer, FirstCursor, NothingNew
<1>6. CASE LatestStale
  BY <1>6 DEF LatestStale, LatestAnswer, FirstCursor, NothingNew
<1>7. CASE FindAnswer
  BY <1>7 DEF FindAnswer
<1>8. ASSUME NEW c \in batch, SkipKnown(c) PROVE AnalysesClaimed'
  BY <1>8 DEF SkipKnown
<1>9. ASSUME NEW c \in batch, ClaimAndAnalyze(c) PROVE AnalysesClaimed'
  <2>1. c \in Contract /\ c.address \in Address /\ c.block # None /\ c # None
    OBVIOUS
  <2>2. /\ contracts' = [contracts EXCEPT ![c.address] = c.block]
        /\ analyses' = [analyses EXCEPT ![c.address] = @ + 1]
        /\ current' = c
        /\ UNCHANGED <<reqPc, reqAddr>>
    BY <1>9, <2>1 DEF ClaimAndAnalyze, AddContract, HasContract
  <2>3. \A a \in Address : analyses'[a] > 0 => contracts'[a] # None
    BY <2>1, <2>2
  <2>4. current' # None /\ contracts'[current'.address] # None
    BY <2>1, <2>2
  <2>5. \A r \in Request : reqPc'[r] \in {"analyzing", "notify"} =>
          reqAddr'[r] # None /\ contracts'[reqAddr'[r]] # None
    BY <2>1, <2>2
  <2>. QED
    BY <2>3, <2>4, <2>5
<1>10. CASE StoreScan
  BY <1>10 DEF StoreScan, UpsertScan
<1>11. CASE SendAlert
  BY <1>11 DEF SendAlert, NotifyScan
<1>12. CASE AdvanceCursor
  BY <1>12 DEF AdvanceCursor
<1>13. ASSUME NEW retryable \in BOOLEAN, StepRaises(retryable) PROVE AnalysesClaimed'
  BY <1>13 DEF StepRaises, HandleError
<1>14. CASE FirstCursorNotStored
  BY <1>14 DEF FirstCursorNotStored, HandleError, FirstCursor
<1>15. CASE CursorNotStored
  BY <1>15 DEF CursorNotStored, HandleError
<1>16. ASSUME NEW r \in Request, NEW a \in Address, StartRescan(r, a) PROVE AnalysesClaimed'
  BY <1>16 DEF StartRescan, AddContract
<1>17. ASSUME NEW r \in Request, StoreRescan(r) PROVE AnalysesClaimed'
  BY <1>17 DEF StoreRescan, UpsertScan
<1>18. ASSUME NEW r \in Request, AlertRescan(r) PROVE AnalysesClaimed'
  BY <1>18 DEF AlertRescan, NotifyScan
<1>19. ASSUME NEW r \in Request, RescanFails(r) PROVE AnalysesClaimed'
  BY <1>19 DEF RescanFails
<1>20. CASE Crash
  BY <1>20 DEF Crash, LoseMemory
<1>21. CASE Shutdown
  BY <1>21 DEF Shutdown
<1>22. CASE Exit
  BY <1>22 DEF Exit, LoseMemory
<1>23. CASE UNCHANGED vars
  BY <1>23 DEF vars
<1>. QED
  BY <1>1, <1>2, <1>3, <1>4, <1>5, <1>6, <1>7, <1>8, <1>9, <1>10, <1>11, <1>12,
     <1>13, <1>14, <1>15, <1>16, <1>17, <1>18, <1>19, <1>20, <1>21, <1>22, <1>23
  DEF Next, ScannerStep, RequestStep, Fault

LEMMA OnceStep ==
  ASSUME TypeOK, AnalysesClaimed, AnalysedAtMostOnce, [Next]_vars
  PROVE  AnalysedAtMostOnce'
<1>. USE DEF TypeOK, AnalysedAtMostOnce
<1>1. CASE Mine
  BY <1>1 DEF Mine
<1>2. CASE Boot
  BY <1>2 DEF Boot, LoopTop
<1>3. CASE BootFails
  BY <1>3 DEF BootFails
<1>4. CASE Wake
  BY <1>4 DEF Wake, LoopTop
<1>5. CASE LatestFresh
  BY <1>5 DEF LatestFresh, LatestAnswer, FirstCursor, NothingNew
<1>6. CASE LatestStale
  BY <1>6 DEF LatestStale, LatestAnswer, FirstCursor, NothingNew
<1>7. CASE FindAnswer
  BY <1>7 DEF FindAnswer
<1>8. ASSUME NEW c \in batch, SkipKnown(c) PROVE AnalysedAtMostOnce'
  BY <1>8 DEF SkipKnown
<1>9. ASSUME NEW c \in batch, ClaimAndAnalyze(c) PROVE AnalysedAtMostOnce'
  BY <1>9 DEF ClaimAndAnalyze, AddContract, HasContract, AnalysesClaimed, Contract
<1>10. CASE StoreScan
  BY <1>10 DEF StoreScan, UpsertScan
<1>11. CASE SendAlert
  BY <1>11 DEF SendAlert, NotifyScan
<1>12. CASE AdvanceCursor
  BY <1>12 DEF AdvanceCursor
<1>13. ASSUME NEW retryable \in BOOLEAN, StepRaises(retryable) PROVE AnalysedAtMostOnce'
  BY <1>13 DEF StepRaises, HandleError
<1>14. CASE FirstCursorNotStored
  BY <1>14 DEF FirstCursorNotStored, HandleError, FirstCursor
<1>15. CASE CursorNotStored
  BY <1>15 DEF CursorNotStored, HandleError
<1>16. ASSUME NEW r \in Request, NEW a \in Address, StartRescan(r, a) PROVE AnalysedAtMostOnce'
  BY <1>16 DEF StartRescan, AddContract
<1>17. ASSUME NEW r \in Request, StoreRescan(r) PROVE AnalysedAtMostOnce'
  BY <1>17 DEF StoreRescan, UpsertScan
<1>18. ASSUME NEW r \in Request, AlertRescan(r) PROVE AnalysedAtMostOnce'
  BY <1>18 DEF AlertRescan, NotifyScan
<1>19. ASSUME NEW r \in Request, RescanFails(r) PROVE AnalysedAtMostOnce'
  BY <1>19 DEF RescanFails
<1>20. CASE Crash
  BY <1>20 DEF Crash, LoseMemory
<1>21. CASE Shutdown
  BY <1>21 DEF Shutdown
<1>22. CASE Exit
  BY <1>22 DEF Exit, LoseMemory
<1>23. CASE UNCHANGED vars
  BY <1>23 DEF vars
<1>. QED
  BY <1>1, <1>2, <1>3, <1>4, <1>5, <1>6, <1>7, <1>8, <1>9, <1>10, <1>11, <1>12,
     <1>13, <1>14, <1>15, <1>16, <1>17, <1>18, <1>19, <1>20, <1>21, <1>22, <1>23
  DEF Next, ScannerStep, RequestStep, Fault

LEMMA ScanStep ==
  ASSUME TypeOK, AnalysesClaimed, ScanHasContract, [Next]_vars
  PROVE  ScanHasContract'
<1>. USE NoneAssumption, BlockInt DEF TypeOK, ScanHasContract, Contract
<1>1. CASE Mine
  BY <1>1 DEF Mine
<1>2. CASE Boot
  BY <1>2 DEF Boot, LoopTop
<1>3. CASE BootFails
  BY <1>3 DEF BootFails
<1>4. CASE Wake
  BY <1>4 DEF Wake, LoopTop
<1>5. CASE LatestFresh
  BY <1>5 DEF LatestFresh, LatestAnswer, FirstCursor, NothingNew
<1>6. CASE LatestStale
  BY <1>6 DEF LatestStale, LatestAnswer, FirstCursor, NothingNew
<1>7. CASE FindAnswer
  BY <1>7 DEF FindAnswer
<1>8. ASSUME NEW c \in batch, SkipKnown(c) PROVE ScanHasContract'
  BY <1>8 DEF SkipKnown
<1>9. ASSUME NEW c \in batch, ClaimAndAnalyze(c) PROVE ScanHasContract'
  BY <1>9 DEF ClaimAndAnalyze, AddContract, HasContract
<1>10. CASE StoreScan
  BY <1>10 DEF StoreScan, UpsertScan, AnalysesClaimed
<1>11. CASE SendAlert
  BY <1>11 DEF SendAlert, NotifyScan
<1>12. CASE AdvanceCursor
  BY <1>12 DEF AdvanceCursor
<1>13. ASSUME NEW retryable \in BOOLEAN, StepRaises(retryable) PROVE ScanHasContract'
  BY <1>13 DEF StepRaises, HandleError
<1>14. CASE FirstCursorNotStored
  BY <1>14 DEF FirstCursorNotStored, HandleError, FirstCursor
<1>15. CASE CursorNotStored
  BY <1>15 DEF CursorNotStored, HandleError
<1>16. ASSUME NEW r \in Request, NEW a \in Address, StartRescan(r, a) PROVE ScanHasContract'
  BY <1>16 DEF StartRescan, AddContract
<1>17. ASSUME NEW r \in Request, StoreRescan(r) PROVE ScanHasContract'
  BY <1>17 DEF StoreRescan, UpsertScan, AnalysesClaimed
<1>18. ASSUME NEW r \in Request, AlertRescan(r) PROVE ScanHasContract'
  BY <1>18 DEF AlertRescan, NotifyScan
<1>19. ASSUME NEW r \in Request, RescanFails(r) PROVE ScanHasContract'
  BY <1>19 DEF RescanFails
<1>20. CASE Crash
  BY <1>20 DEF Crash, LoseMemory
<1>21. CASE Shutdown
  BY <1>21 DEF Shutdown
<1>22. CASE Exit
  BY <1>22 DEF Exit, LoseMemory
<1>23. CASE UNCHANGED vars
  BY <1>23 DEF vars
<1>. QED
  BY <1>1, <1>2, <1>3, <1>4, <1>5, <1>6, <1>7, <1>8, <1>9, <1>10, <1>11, <1>12,
     <1>13, <1>14, <1>15, <1>16, <1>17, <1>18, <1>19, <1>20, <1>21, <1>22, <1>23
  DEF Next, ScannerStep, RequestStep, Fault

LEMMA QuietStep ==
  ASSUME TypeOK, StoppedIsQuiet, [Next]_vars
  PROVE  StoppedIsQuiet'
<1>. USE DEF TypeOK, StoppedIsQuiet, EventLoopFree, ScannerHoldsLoop, RequestHoldsLoop
<1>1. CASE Mine
  BY <1>1 DEF Mine
<1>2. CASE Boot
  BY <1>2 DEF Boot, LoopTop
<1>3. CASE BootFails
  BY <1>3 DEF BootFails
<1>4. CASE Wake
  BY <1>4 DEF Wake, LoopTop
<1>5. CASE LatestFresh
  BY <1>5 DEF LatestFresh, LatestAnswer, FirstCursor, NothingNew
<1>6. CASE LatestStale
  BY <1>6 DEF LatestStale, LatestAnswer, FirstCursor, NothingNew
<1>7. CASE FindAnswer
  BY <1>7 DEF FindAnswer
<1>8. ASSUME NEW c \in batch, SkipKnown(c) PROVE StoppedIsQuiet'
  BY <1>8 DEF SkipKnown
<1>9. ASSUME NEW c \in batch, ClaimAndAnalyze(c) PROVE StoppedIsQuiet'
  BY <1>9 DEF ClaimAndAnalyze, AddContract, HasContract
<1>10. CASE StoreScan
  BY <1>10 DEF StoreScan, UpsertScan
<1>11. CASE SendAlert
  BY <1>11 DEF SendAlert, NotifyScan
<1>12. CASE AdvanceCursor
  BY <1>12 DEF AdvanceCursor
<1>13. ASSUME NEW retryable \in BOOLEAN, StepRaises(retryable) PROVE StoppedIsQuiet'
  BY <1>13 DEF StepRaises, HandleError
<1>14. CASE FirstCursorNotStored
  BY <1>14 DEF FirstCursorNotStored, HandleError, FirstCursor
<1>15. CASE CursorNotStored
  BY <1>15 DEF CursorNotStored, HandleError
<1>16. ASSUME NEW r \in Request, NEW a \in Address, StartRescan(r, a) PROVE StoppedIsQuiet'
  BY <1>16 DEF StartRescan, AddContract
<1>17. ASSUME NEW r \in Request, StoreRescan(r) PROVE StoppedIsQuiet'
  BY <1>17 DEF StoreRescan, UpsertScan
<1>18. ASSUME NEW r \in Request, AlertRescan(r) PROVE StoppedIsQuiet'
  BY <1>18 DEF AlertRescan, NotifyScan
<1>19. ASSUME NEW r \in Request, RescanFails(r) PROVE StoppedIsQuiet'
  BY <1>19 DEF RescanFails
<1>20. CASE Crash
  BY <1>20 DEF Crash, LoseMemory
<1>21. CASE Shutdown
  BY <1>21 DEF Shutdown
<1>22. CASE Exit
  BY <1>22 DEF Exit, LoseMemory
<1>23. CASE UNCHANGED vars
  BY <1>23 DEF vars
<1>. QED
  BY <1>1, <1>2, <1>3, <1>4, <1>5, <1>6, <1>7, <1>8, <1>9, <1>10, <1>11, <1>12,
     <1>13, <1>14, <1>15, <1>16, <1>17, <1>18, <1>19, <1>20, <1>21, <1>22, <1>23
  DEF Next, ScannerStep, RequestStep, Fault

LEMMA AlertsStep ==
  ASSUME TypeOK, OneRunning, StoppedIsQuiet, AlertAccounting, [Next]_vars
  PROVE  AlertAccounting'
<1>. USE DEF TypeOK, OneRunning, AlertAccounting, AlertsPending, EventLoopFree, ScannerHoldsLoop, RequestHoldsLoop
<1>1. CASE Mine
  BY <1>1 DEF Mine
<1>2. CASE Boot
  BY <1>2 DEF Boot, LoopTop
<1>3. CASE BootFails
  BY <1>3 DEF BootFails
<1>4. CASE Wake
  BY <1>4 DEF Wake, LoopTop
<1>5. CASE LatestFresh
  BY <1>5 DEF LatestFresh, LatestAnswer, FirstCursor, NothingNew
<1>6. CASE LatestStale
  BY <1>6 DEF LatestStale, LatestAnswer, FirstCursor, NothingNew
<1>7. CASE FindAnswer
  BY <1>7 DEF FindAnswer
<1>8. ASSUME NEW c \in batch, SkipKnown(c) PROVE AlertAccounting'
  BY <1>8 DEF SkipKnown
<1>9. ASSUME NEW c \in batch, ClaimAndAnalyze(c) PROVE AlertAccounting'
  BY <1>9 DEF ClaimAndAnalyze, AddContract, HasContract
<1>10. CASE StoreScan
  BY <1>10 DEF StoreScan, UpsertScan
<1>11. CASE SendAlert
  BY <1>11 DEF SendAlert, NotifyScan
<1>12. CASE AdvanceCursor
  BY <1>12 DEF AdvanceCursor
<1>13. ASSUME NEW retryable \in BOOLEAN, StepRaises(retryable) PROVE AlertAccounting'
  BY <1>13 DEF StepRaises, HandleError
<1>14. CASE FirstCursorNotStored
  BY <1>14 DEF FirstCursorNotStored, HandleError, FirstCursor
<1>15. CASE CursorNotStored
  BY <1>15 DEF CursorNotStored, HandleError
<1>16. ASSUME NEW r \in Request, NEW a \in Address, StartRescan(r, a) PROVE AlertAccounting'
  BY <1>16 DEF StartRescan, AddContract
<1>17. ASSUME NEW r \in Request, StoreRescan(r) PROVE AlertAccounting'
  BY <1>17 DEF StoreRescan, UpsertScan
<1>18. ASSUME NEW r \in Request, AlertRescan(r) PROVE AlertAccounting'
  BY <1>18 DEF AlertRescan, NotifyScan
<1>19. ASSUME NEW r \in Request, RescanFails(r) PROVE AlertAccounting'
  BY <1>19 DEF RescanFails
<1>20. CASE Crash
  BY <1>20 DEF Crash, LoseMemory
<1>21. CASE Shutdown
  BY <1>21 DEF Shutdown
<1>22. CASE Exit
  BY <1>22 DEF Exit, LoseMemory, StoppedIsQuiet
<1>23. CASE UNCHANGED vars
  BY <1>23 DEF vars
<1>. QED
  BY <1>1, <1>2, <1>3, <1>4, <1>5, <1>6, <1>7, <1>8, <1>9, <1>10, <1>11, <1>12,
     <1>13, <1>14, <1>15, <1>16, <1>17, <1>18, <1>19, <1>20, <1>21, <1>22, <1>23
  DEF Next, ScannerStep, RequestStep, Fault

\* The rows of the table contracts never go away, so what is covered stays so.
LEMMA CoveredStays ==
  ASSUME NEW first, NEW last, Covered(first, last),
         \A a \in Address : contracts[a] # None => contracts'[a] # None
  PROVE  Covered(first, last)'
  BY DeployedAddresses DEF Covered, Deployed

LEMMA RowsStay ==
  ASSUME TypeOK, [Next]_vars
  PROVE  \A a \in Address : contracts[a] # None => contracts'[a] # None
<1>. USE NoneAssumption, BlockInt DEF TypeOK
<1>1. ASSUME NEW c \in batch, ClaimAndAnalyze(c)
      PROVE  \A a \in Address : contracts[a] # None => contracts'[a] # None
  BY <1>1 DEF ClaimAndAnalyze, AddContract, Contract
<1>2. ASSUME NEW r \in Request, NEW a \in Address, StartRescan(r, a)
      PROVE  \A x \in Address : contracts[x] # None => contracts'[x] # None
  BY <1>2 DEF StartRescan, AddContract
<1>3. ASSUME UNCHANGED contracts
      PROVE  \A a \in Address : contracts[a] # None => contracts'[a] # None
  BY <1>3
<1>. QED
  BY <1>1, <1>2, <1>3
  DEF Next, ScannerStep, RequestStep, Fault, vars, Mine, Boot, BootFails, Wake, LatestFresh,
      LatestStale, LatestAnswer, FindAnswer, SkipKnown, StoreScan, SendAlert,
      AdvanceCursor, StepRaises, FirstCursorNotStored, CursorNotStored, StoreRescan,
      AlertRescan, RescanFails, Crash, Shutdown, Exit, UpsertScan

LEMMA BatchStays ==
  ASSUME BatchComplete, UNCHANGED <<lastProcessed, latest, batch>>,
         pc' \in {"batch", "analyzing", "notify"} => pc \in {"batch", "analyzing", "notify"},
         \A a \in Address : contracts[a] # None => contracts'[a] # None
  PROVE  BatchComplete'
  BY DeployedAddresses DEF BatchComplete, Deployed

\* A step that leaves the cursors alone keeps WorkCovered if it keeps the batch
\* complete.
LEMMA CursorsStay ==
  ASSUME WorkCovered, UNCHANGED <<origin, lastDisk>>, BatchComplete',
         lastProcessed' \in {lastProcessed, None},
         \A a \in Address : contracts[a] # None => contracts'[a] # None
  PROVE  WorkCovered'
<1>1. NoContractMissed'
  BY CoveredStays DEF WorkCovered, NoContractMissed, Covered
<1>2. lastProcessed' # None => Covered(origin, lastProcessed)'
  BY CoveredStays DEF WorkCovered, Covered
<1>. QED
  BY <1>1, <1>2 DEF WorkCovered

\* A first cursor has nothing to cover.
LEMMA NothingToCover ==
  ASSUME NEW n \in Int
  PROVE  Covered(n, n)'
  BY BlockInt DEF Covered

LEMMA LatestAnswerWork ==
  ASSUME TypeOK, CursorsOrdered, WorkCovered, NEW n \in Block, LatestAnswer(n)
  PROVE  WorkCovered'
<1>1. BatchComplete'
  BY DEF LatestAnswer, BatchComplete
<1>2. \A a \in Address : contracts[a] # None => contracts'[a] # None
  BY DEF LatestAnswer
<1>3. CASE lastProcessed = None
  <2>1. FirstCursor(n) \in Int
    BY BlockInt DEF FirstCursor
  <2>2. /\ lastProcessed' = FirstCursor(n)
        /\ lastDisk' = FirstCursor(n)
        /\ origin' = FirstCursor(n)
    BY <1>3 DEF LatestAnswer
  <2>. QED
    BY <1>1, <2>1, <2>2, NothingToCover DEF WorkCovered, NoContractMissed, Covered
<1>4. CASE lastProcessed # None
  <2>1. UNCHANGED <<origin, lastDisk, lastProcessed>>
    BY <1>4 DEF LatestAnswer
  <2>. QED
    BY <1>1, <1>2, <2>1, CursorsStay
<1>. QED
  BY <1>3, <1>4

LEMMA BootWork ==
  ASSUME TypeOK, CursorsOrdered, WorkCovered, Boot
  PROVE  WorkCovered'
<1>1. BatchComplete'
  BY DEF Boot, LoopTop, BatchComplete
<1>2. UNCHANGED contracts
  BY DEF Boot
<1>3. PICK startBlock \in StartBlock :
        IF lastDisk = None /\ startBlock # None
          THEN lastProcessed' = startBlock /\ lastDisk' = startBlock /\ origin' = startBlock
          ELSE lastProcessed' = lastDisk /\ UNCHANGED <<lastDisk, origin>>
  BY DEF Boot
<1>4. CASE lastDisk = None /\ startBlock # None
  BY <1>1, <1>3, <1>4, NothingToCover, StartAssumption
  DEF WorkCovered, NoContractMissed, Covered
<1>5. CASE ~(lastDisk = None /\ startBlock # None)
  <2>1. lastProcessed' = lastDisk /\ UNCHANGED <<origin, lastDisk>>
    BY <1>3, <1>5
  <2>. QED
    BY <1>1, <1>2, <2>1 DEF WorkCovered, NoContractMissed, Covered, Deployed
<1>. QED
  BY <1>4, <1>5

\* The batch is done: everything up to latest is covered.
LEMMA BatchDone ==
  ASSUME TypeOK, CursorsOrdered, WorkCovered, pc = "batch", batch = {}
  PROVE  Covered(origin, latest)
<1>1. /\ latest \in Int /\ lastProcessed \in Int /\ origin \in Int
      /\ Covered(origin, lastProcessed)
  BY BlockInt, MaxHeightAssumption, StartAssumption
  DEF TypeOK, CursorsOrdered, WorkCovered, Cursor, Height
<1>2. ASSUME NEW b \in Block, origin < b, b <= latest, NEW a \in Deployed(b)
      PROVE  contracts[a] # None
  <2>1. CASE b <= lastProcessed
    BY <1>1, <1>2, <2>1 DEF Covered
  <2>2. CASE lastProcessed < b
    BY <1>2, <2>2 DEF WorkCovered, BatchComplete
  <2>. QED
    BY <1>1, <2>1, <2>2, BlockInt
<1>. QED
  BY <1>2 DEF Covered

LEMMA FindWork ==
  ASSUME TypeOK, CursorsOrdered, WorkCovered, FindAnswer
  PROVE  BatchComplete'
<1>1. lastProcessed \in Int /\ latest \in Int
  BY BlockInt, MaxHeightAssumption, StartAssumption
  DEF TypeOK, CursorsOrdered, FindAnswer, Cursor, Height
<1>2. ASSUME NEW b \in Block, lastProcessed < b, b <= latest, NEW a \in Deployed(b)
      PROVE  [address |-> a, block |-> b] \in batch'
  <2>1. [address |-> a, block |-> b] \in Contract
    BY <1>2, DeployedAddresses DEF Contract
  <2>2. lastProcessed + 1 <= b
    BY <1>1, <1>2, BlockInt
  <2>. QED
    BY <1>2, <2>1, <2>2 DEF FindAnswer, FindContractCreations
<1>3. UNCHANGED <<lastProcessed, latest>>
  BY DEF FindAnswer
<1>. QED
  BY <1>2, <1>3 DEF BatchComplete, Deployed

\* A contract leaves the batch only with its row in the table.
LEMMA VisitWork ==
  ASSUME TypeOK, WorkCovered, NEW c \in batch, SkipKnown(c) \/ ClaimAndAnalyze(c)
  PROVE  BatchComplete'
<1>1. /\ pc = "batch" /\ batch' = batch \ {c}
      /\ UNCHANGED <<lastProcessed, latest>>
  BY DEF SkipKnown, ClaimAndAnalyze
<1>2. c \in Contract /\ c.address \in Address /\ c.block \in Block
  BY DEF TypeOK, Contract
<1>3. contracts'[c.address] # None
  BY <1>2, NoneAssumption, BlockInt
  DEF TypeOK, SkipKnown, ClaimAndAnalyze, HasContract, AddContract
<1>4. \A a \in Address : contracts[a] # None => contracts'[a] # None
  BY <1>2, NoneAssumption, BlockInt DEF TypeOK, SkipKnown, ClaimAndAnalyze, AddContract
<1>5. ASSUME NEW b \in Block, lastProcessed < b, b <= latest, NEW a \in Deployed(b)
      PROVE  contracts'[a] # None \/ [address |-> a, block |-> b] \in batch'
  <2>1. contracts[a] # None \/ [address |-> a, block |-> b] \in batch
    BY <1>1, <1>5 DEF WorkCovered, BatchComplete
  <2>2. a \in Address
    BY DeployedAddresses
  <2>3. [address |-> a, block |-> b] = c => a = c.address
    OBVIOUS
  <2>. QED
    BY <1>1, <1>3, <1>4, <2>1, <2>2, <2>3
<1>. QED
  BY <1>1, <1>5 DEF BatchComplete, Deployed

LEMMA WorkStep ==
  ASSUME TypeOK, CursorsOrdered, WorkCovered, [Next]_vars
  PROVE  WorkCovered'
<1>rows. \A a \in Address : contracts[a] # None => contracts'[a] # None
  BY RowsStay
<1>batch. ASSUME UNCHANGED <<lastProcessed, latest, batch, origin, lastDisk>>,
                 pc' \in {"batch", "analyzing", "notify"}
                   => pc \in {"batch", "analyzing", "notify"}
          PROVE  WorkCovered'
  BY <1>rows, <1>batch, BatchStays, CursorsStay DEF WorkCovered
<1>error. ASSUME UNCHANGED <<origin, lastDisk>>, lastProcessed' \in {lastProcessed, None},
                 pc' \notin {"batch", "analyzing", "notify"}
          PROVE  WorkCovered'
  <2>1. BatchComplete'
    BY <1>error DEF BatchComplete
  <2>. QED
    BY <1>rows, <1>error, <2>1, CursorsStay
<1>1. CASE Mine
  BY <1>1, <1>batch DEF Mine
<1>2. CASE Boot
  BY <1>2, BootWork
<1>3. CASE BootFails
  BY <1>3, <1>batch DEF BootFails
<1>4. CASE Wake
  BY <1>4, <1>error DEF Wake, LoopTop
<1>5. CASE LatestFresh
  BY <1>5, LatestAnswerWork DEF LatestFresh, TypeOK
<1>6. CASE LatestStale
  BY <1>6, LatestAnswerWork DEF LatestStale
<1>7. CASE FindAnswer
  BY <1>7, <1>rows, FindWork, CursorsStay DEF FindAnswer
<1>8. ASSUME NEW c \in batch, SkipKnown(c) \/ ClaimAndAnalyze(c) PROVE WorkCovered'
  <2>1. UNCHANGED <<origin, lastDisk, lastProcessed>>
    BY <1>8 DEF SkipKnown, ClaimAndAnalyze
  <2>. QED
    BY <1>rows, <1>8, <2>1, VisitWork, CursorsStay
<1>9. CASE StoreScan
  BY <1>9, <1>batch DEF StoreScan
<1>10. CASE SendAlert
  BY <1>10, <1>batch DEF SendAlert
<1>11. CASE AdvanceCursor
  <2>1. Covered(origin, latest)
    BY <1>11, BatchDone DEF AdvanceCursor
  <2>2. /\ lastProcessed' = latest /\ lastDisk' = latest /\ pc' = "sleep"
        /\ UNCHANGED <<origin, contracts>>
    BY <1>11 DEF AdvanceCursor
  <2>. QED
    BY <2>1, <2>2 DEF WorkCovered, NoContractMissed, Covered, Deployed, BatchComplete
<1>12. ASSUME NEW retryable \in BOOLEAN, StepRaises(retryable) PROVE WorkCovered'
  BY <1>12, <1>error DEF StepRaises, HandleError
<1>13. CASE FirstCursorNotStored
  <2>1. lastDisk' = None /\ pc' = "sleep"
    BY <1>13 DEF FirstCursorNotStored, HandleError, CursorsOrdered
  <2>2. FirstCursor(height) \in Int
    BY BlockInt DEF TypeOK, FirstCursor
  <2>3. lastProcessed' = FirstCursor(height) /\ origin' = FirstCursor(height)
    BY <1>13 DEF FirstCursorNotStored
  <2>. QED
    BY <2>1, <2>2, <2>3, NothingToCover
    DEF WorkCovered, NoContractMissed, Covered, BatchComplete
<1>14. CASE CursorNotStored
  <2>1. Covered(origin, latest)
    BY <1>14, BatchDone DEF CursorNotStored
  <2>2. /\ lastProcessed' = latest /\ pc' = "sleep"
        /\ UNCHANGED <<origin, contracts, lastDisk>>
    BY <1>14 DEF CursorNotStored, HandleError
  <2>. QED
    BY <2>1, <2>2 DEF WorkCovered, NoContractMissed, Covered, Deployed, BatchComplete
<1>15. ASSUME NEW r \in Request, NEW a \in Address, StartRescan(r, a) PROVE WorkCovered'
  BY <1>15, <1>batch DEF StartRescan
<1>16. ASSUME NEW r \in Request, RequestStep(r) \/ RescanFails(r) PROVE WorkCovered'
  BY <1>16, <1>batch DEF RequestStep, StoreRescan, AlertRescan, RescanFails
<1>17. CASE Crash
  BY <1>17, <1>error DEF Crash, LoseMemory
<1>18. CASE Shutdown
  BY <1>18, <1>batch DEF Shutdown
<1>19. CASE Exit
  BY <1>19, <1>error DEF Exit, LoseMemory
<1>20. CASE UNCHANGED vars
  BY <1>20, <1>batch DEF vars
<1>. QED
  BY <1>1, <1>2, <1>3, <1>4, <1>5, <1>6, <1>7, <1>8, <1>9, <1>10, <1>11, <1>12,
     <1>13, <1>14, <1>15, <1>16, <1>17, <1>18, <1>19, <1>20
  DEF Next, ScannerStep, Fault

------------------------------------------------------------------------------
LEMMA Initially == ASSUME Init PROVE IInv
<1>1. TypeOK
  BY TypeInit
<1>2. OneRunning /\ StoppedIsQuiet
  BY DEF Init, OneRunning, ScannerHoldsLoop, RequestHoldsLoop, StoppedIsQuiet
<1>3. CursorsOrdered
  BY DEF Init, CursorsOrdered
<1>4. WorkCovered
  BY DEF Init, WorkCovered, NoContractMissed, BatchComplete
<1>5. AnalysesClaimed /\ AnalysedAtMostOnce /\ ScanHasContract
  BY DEF Init, AnalysesClaimed, AnalysedAtMostOnce, ScanHasContract
<1>6. ErrorsBounded
  BY FloatAssumption DEF Init, ErrorsBounded
<1>7. AlertAccounting
  BY DEF Init, AlertAccounting, AlertsPending, RequestHoldsLoop
<1>. QED
  BY <1>1, <1>2, <1>3, <1>4, <1>5, <1>6, <1>7 DEF IInv

LEMMA Inductive == ASSUME IInv, [Next]_vars PROVE IInv'
<1>. USE DEF IInv
<1>1. TypeOK'
  BY TypeStep
<1>2. OneRunning' /\ StoppedIsQuiet'
  BY RunningStep, QuietStep
<1>3. CursorsOrdered' /\ WorkCovered'
  BY CursorsStep, WorkStep
<1>4. AnalysesClaimed' /\ ErrorsBounded'
  BY AnalysesStep, ErrorsStep
<1>5. AnalysedAtMostOnce' /\ ScanHasContract'
  BY OnceStep, ScanStep
<1>6. AlertAccounting'
  BY AlertsStep
<1>. QED
  BY <1>1, <1>2, <1>3, <1>4, <1>5, <1>6

\* The inductive invariant holds in every state of every behaviour.
THEOREM Invariance == Spec => []IInv
<1>1. Init => IInv
  BY Initially
<1>2. IInv /\ [Next]_vars => IInv'
  BY Inductive
<1>. QED
  BY <1>1, <1>2, PTL DEF Spec

\* Every variable keeps its type, whatever the size of the instance.
THEOREM TypeCorrect == Spec => []TypeOK
<1>1. IInv => TypeOK
  BY DEF IInv
<1>. QED
  BY <1>1, Invariance, PTL

\* scanner_loop misses no contract: for every chain, every set of rescans and
\* any number of failures, crashes and restarts, the stored cursor has only
\* passed blocks whose contracts are in the table.
THEOREM NothingMissed == Spec => []NoContractMissed
<1>1. IInv => NoContractMissed
  BY DEF IInv, WorkCovered
<1>. QED
  BY <1>1, Invariance, PTL

\* The duplicate filter: the scanner never analyses a contract a second time.
THEOREM NoSecondAnalysis == Spec => []AnalysedAtMostOnce
<1>1. IInv => AnalysedAtMostOnce
  BY DEF IInv
<1>. QED
  BY <1>1, Invariance, PTL

\* The join of list_recent_scans hides no scan.
THEOREM JoinHidesNothing == Spec => []ScanHasContract
<1>1. IInv => ScanHasContract
  BY DEF IInv
<1>. QED
  BY <1>1, Invariance, PTL

\* A scan is alerted at most once, and at most one alert is lost per crash.
THEOREM AlertsAccountedFor == Spec => []AlertAccounting
<1>1. IInv => AlertAccounting
  BY DEF IInv
<1>. QED
  BY <1>1, Invariance, PTL

------------------------------------------------------------------------------
\* Steps.

LEMMA WrittenOnceStep ==
  ASSUME TypeOK, [Next]_vars
  PROVE  \A a \in Address : contracts[a] # None => contracts'[a] = contracts[a]
<1>. USE DEF TypeOK
<1>1. ASSUME NEW c \in batch, ClaimAndAnalyze(c)
      PROVE  \A a \in Address : contracts[a] # None => contracts'[a] = contracts[a]
  BY <1>1 DEF ClaimAndAnalyze, AddContract, Contract
<1>2. ASSUME NEW r \in Request, NEW a \in Address, StartRescan(r, a)
      PROVE  \A x \in Address : contracts[x] # None => contracts'[x] = contracts[x]
  BY <1>2 DEF StartRescan, AddContract
<1>3. ASSUME UNCHANGED contracts
      PROVE  \A a \in Address : contracts[a] # None => contracts'[a] = contracts[a]
  BY <1>3
<1>. QED
  BY <1>1, <1>2, <1>3
  DEF Next, ScannerStep, RequestStep, Fault, vars, Mine, Boot, BootFails, Wake, LatestFresh,
      LatestStale, LatestAnswer, FindAnswer, SkipKnown, StoreScan, SendAlert,
      AdvanceCursor, StepRaises, FirstCursorNotStored, CursorNotStored, StoreRescan,
      AlertRescan, RescanFails, Crash, Shutdown, Exit, UpsertScan

\* INSERT OR IGNORE: no step of the scanner or of a rescan changes a row of
\* the table contracts.
THEOREM WrittenOnce == Spec => DiscoveryWrittenOnce
<1>1. IInv /\ [Next]_vars =>
        [\A a \in Address : contracts[a] # None => contracts'[a] = contracts[a]]_vars
  BY WrittenOnceStep DEF IInv
<1>. QED
  BY <1>1, Invariance, PTL DEF Spec, DiscoveryWrittenOnce

\* The ways the stored cursor changes: it is set when there was none, or it
\* moves to the block that closes a complete batch.
LEMMA CursorStep ==
  ASSUME TypeOK, CursorsOrdered, WorkCovered, [Next]_vars
  PROVE  \/ UNCHANGED lastDisk
         \/ lastDisk = None /\ lastDisk' \in Int /\ UNCHANGED <<contracts, scans>>
         \/ /\ lastDisk \in Int /\ lastDisk' \in Int /\ lastDisk < lastDisk'
            /\ Covered(lastDisk, lastDisk')
            /\ UNCHANGED <<contracts, scans>>
<1>1. CASE Boot
  BY <1>1, StartAssumption DEF Boot
<1>2. ASSUME NEW n \in Block, LatestAnswer(n)
      PROVE  \/ UNCHANGED lastDisk
             \/ lastDisk = None /\ lastDisk' \in Int /\ UNCHANGED <<contracts, scans>>
  <2>1. CASE lastProcessed = None
    <3>1. lastDisk = None
      BY <1>2, <2>1 DEF LatestAnswer, CursorsOrdered
    <3>. QED
      BY <1>2, <2>1, <3>1, BlockInt DEF LatestAnswer, FirstCursor
  <2>. QED
    BY <1>2, <2>1 DEF LatestAnswer
<1>3. CASE AdvanceCursor
  <2>1. /\ Covered(origin, latest)
        /\ lastDisk' = latest /\ UNCHANGED <<contracts, scans>>
    BY <1>3, BatchDone DEF AdvanceCursor
  <2>2. latest \in Int /\ lastProcessed \in Int /\ lastProcessed < latest
    BY <1>3, BlockInt, MaxHeightAssumption, StartAssumption
    DEF AdvanceCursor, TypeOK, CursorsOrdered, Cursor, Height
  <2>3. CASE lastDisk = None
    BY <2>1, <2>2, <2>3
  <2>4. CASE lastDisk # None
    <3>1. lastDisk \in Int /\ origin \in Int /\ origin <= lastDisk /\ lastDisk <= lastProcessed
      BY <2>2, <2>4, BlockInt, MaxHeightAssumption, StartAssumption, NoneAssumption
      DEF TypeOK, CursorsOrdered, Cursor, Height
    <3>2. Covered(lastDisk, latest)
      BY <2>1, <3>1, BlockInt DEF Covered
    <3>. QED
      BY <2>1, <2>2, <3>1, <3>2
  <2>. QED
    BY <2>3, <2>4
<1>. QED
  BY <1>1, <1>2, <1>3
  DEF Next, ScannerStep, RequestStep, Fault, vars, Mine, BootFails, Wake, LatestFresh,
      LatestStale, TypeOK, FindAnswer, SkipKnown, ClaimAndAnalyze, StoreScan, SendAlert,
      StepRaises, FirstCursorNotStored, CursorNotStored, StartRescan, StoreRescan,
      AlertRescan, RescanFails, Crash, Shutdown, Exit

\* The stored cursor never goes back and is never lost, whatever RPC nodes say.
THEOREM CursorMonotone == Spec => CursorNeverBack
<1>1. IInv /\ [Next]_vars =>
        [lastDisk # None => lastDisk' # None /\ lastDisk' >= lastDisk]_vars
  <2>. SUFFICES ASSUME IInv, [Next]_vars, lastDisk # None
                PROVE  lastDisk' # None /\ lastDisk' >= lastDisk
    OBVIOUS
  <2>1. lastDisk \in Int
    BY BlockInt, MaxHeightAssumption, StartAssumption DEF IInv, TypeOK, Cursor, Height
  <2>. QED
    BY <2>1, CursorStep, NoneAssumption DEF IInv
<1>. QED
  BY <1>1, Invariance, PTL DEF Spec, CursorNeverBack

------------------------------------------------------------------------------
\* What failures strand.

\* A set that gained at most one element, and one that gained at most those of
\* a second set.
LEMMA OneMore ==
  ASSUME NEW S, IsFiniteSet(S), NEW x, NEW T, T \subseteq S \cup {x}
  PROVE  IsFiniteSet(T) /\ Cardinality(T) <= Cardinality(S) + 1
<1>0. Cardinality(S) \in Nat
  BY FS_CardinalityType
<1>1. /\ IsFiniteSet(S \cup {x})
      /\ Cardinality(S \cup {x}) = IF x \in S THEN Cardinality(S) ELSE Cardinality(S) + 1
  BY FS_AddElement
<1>2. /\ IsFiniteSet(T) /\ Cardinality(T) <= Cardinality(S \cup {x})
      /\ Cardinality(T) \in Nat /\ Cardinality(S \cup {x}) \in Nat
  BY <1>1, FS_Subset, FS_CardinalityType
<1>. QED
  BY <1>0, <1>1, <1>2

LEMMA SetMore ==
  ASSUME NEW S, IsFiniteSet(S), NEW R, IsFiniteSet(R), NEW T, T \subseteq S \cup R
  PROVE  IsFiniteSet(T) /\ Cardinality(T) <= Cardinality(S) + Cardinality(R)
<1>1. /\ IsFiniteSet(S \cup R) /\ IsFiniteSet(S \cap R)
      /\ Cardinality(S \cup R) = Cardinality(S) + Cardinality(R) - Cardinality(S \cap R)
  BY FS_Union, FS_Intersection
<1>2. /\ IsFiniteSet(T) /\ Cardinality(T) <= Cardinality(S \cup R)
      /\ Cardinality(T) \in Nat /\ Cardinality(S \cup R) \in Nat
      /\ Cardinality(S) \in Nat /\ Cardinality(R) \in Nat /\ Cardinality(S \cap R) \in Nat
  BY <1>1, FS_Subset, FS_CardinalityType
<1>. QED
  BY <1>1, <1>2

\* The requests have no more addresses than there are requests.
LEMMA RequestAddresses ==
  ASSUME TypeOK
  PROVE  /\ IsFiniteSet({reqAddr[r] : r \in Request})
         /\ Cardinality({reqAddr[r] : r \in Request}) <= Cardinality(Request)
<1>1. reqAddr \in Surjection(Request, {reqAddr[r] : r \in Request})
  BY DEF TypeOK, Surjection
<1>. QED
  BY <1>1, FS_Surjection, RequestAssumption

\* The contracts a step strands.
Newly == {a \in Address : a \in Stranded' /\ a \notin Stranded}

\* A row that is there was not written by a step that leaves the row of a alone,
\* and an address stays under analysis as long as its analysis does.
LEMMA StrandedStays ==
  ASSUME UNCHANGED <<contracts, scans, reqPc, reqAddr>>,
         pc = "analyzing" => pc' = "analyzing" /\ current' = current
  PROVE  Newly = {}
  BY DEF Newly, Stranded, UnderAnalysis

\* A scan of x was stored: x is not stranded, and what else was under analysis
\* still is.
LEMMA StrandedRecord ==
  ASSUME TypeOK, NEW x \in Address, NEW block \in Block, UpsertScan(x, block),
         UNCHANGED <<contracts, reqAddr>>,
         \A a \in Address \ {x} : UnderAnalysis(a) => UnderAnalysis(a)'
  PROVE  Newly = {}
<1>1. scans'[x] # None
  BY BlockInt DEF UpsertScan, TypeOK
<1>2. \A a \in Address \ {x} : scans'[a] = scans[a]
  BY DEF UpsertScan, TypeOK
<1>. QED
  BY <1>1, <1>2 DEF Newly, Stranded

\* Who is claimed is under analysis from then on.
LEMMA StrandedClaim ==
  ASSUME TypeOK, NEW x \in Address, NEW block \in Block, AddContract(x, block),
         UNCHANGED scans, UnderAnalysis(x)',
         \A a \in Address : UnderAnalysis(a) => UnderAnalysis(a)'
  PROVE  Newly = {}
<1>1. \A a \in Address \ {x} : contracts'[a] = contracts[a]
  BY DEF AddContract, TypeOK
<1>. QED
  BY <1>1 DEF Newly, Stranded

\* The three kinds of steps: most strand nothing; an error strands the contract
\* whose analysis it ended; a crash strands those of all analyses.
LEMMA StrandedStep ==
  ASSUME TypeOK, OneRunning, StoppedIsQuiet, AnalysesClaimed, [Next]_vars
  PROVE  \/ Newly = {} /\ faults' \in {faults, faults + 1} /\ UNCHANGED crashes
         \/ \E x : Newly \subseteq {x} /\ faults' = faults + 1 /\ UNCHANGED crashes
         \/ /\ Newly \subseteq {current.address} \cup {reqAddr[r] : r \in Request}
            /\ UNCHANGED faults /\ crashes' = crashes + 1
<1>. DEFINE Quiet == Newly = {} /\ faults' \in {faults, faults + 1} /\ UNCHANGED crashes
            Fails == \E x : Newly \subseteq {x} /\ faults' = faults + 1 /\ UNCHANGED crashes
            Ends  == /\ Newly \subseteq {current.address} \cup {reqAddr[r] : r \in Request}
                     /\ UNCHANGED faults /\ crashes' = crashes + 1
<1>1. CASE Mine
  BY <1>1, StrandedStays DEF Mine
<1>2. CASE Boot
  BY <1>2, StrandedStays DEF Boot
<1>3. CASE BootFails
  BY <1>3, StrandedStays DEF BootFails
<1>4. CASE Wake
  BY <1>4, StrandedStays DEF Wake
<1>5. CASE LatestFresh
  BY <1>5, StrandedStays DEF LatestFresh, LatestAnswer
<1>6. CASE LatestStale
  BY <1>6, StrandedStays DEF LatestStale, LatestAnswer
<1>7. CASE FindAnswer
  BY <1>7, StrandedStays DEF FindAnswer
<1>8. ASSUME NEW c \in batch, SkipKnown(c) PROVE Quiet
  BY <1>8, StrandedStays DEF SkipKnown
<1>9. ASSUME NEW c \in batch, ClaimAndAnalyze(c) PROVE Quiet
  <2>1. c.address \in Address /\ c.block \in Block
    BY DEF TypeOK, Contract
  <2>2. UnderAnalysis(c.address)' /\ \A a \in Address : UnderAnalysis(a) => UnderAnalysis(a)'
    BY <1>9 DEF ClaimAndAnalyze, UnderAnalysis
  <2>. QED
    BY <1>9, <2>1, <2>2, StrandedClaim DEF ClaimAndAnalyze
<1>10. CASE StoreScan
  <2>1. current.address \in Address /\ current.block \in Block
    BY <1>10 DEF StoreScan, TypeOK, Contract, AnalysesClaimed
  <2>2. \A a \in Address \ {current.address} : UnderAnalysis(a) => UnderAnalysis(a)'
    BY <1>10 DEF StoreScan, UnderAnalysis
  <2>. QED
    BY <1>10, <2>1, <2>2, StrandedRecord DEF StoreScan
<1>11. CASE SendAlert
  BY <1>11, StrandedStays DEF SendAlert
<1>12. CASE AdvanceCursor
  BY <1>12, StrandedStays DEF AdvanceCursor
<1>13. ASSUME NEW retryable \in BOOLEAN, StepRaises(retryable) PROVE Fails
  <2>1. Newly \subseteq {current.address}
    BY <1>13 DEF StepRaises, Newly, Stranded, UnderAnalysis
  <2>. QED
    BY <1>13, <2>1 DEF StepRaises, HandleError
<1>14. CASE FirstCursorNotStored
  BY <1>14, StrandedStays DEF FirstCursorNotStored, HandleError
<1>15. CASE CursorNotStored
  BY <1>15, StrandedStays DEF CursorNotStored, HandleError
<1>16. ASSUME NEW r \in Request, NEW a \in Address, StartRescan(r, a) PROVE Quiet
  <2>1. UnderAnalysis(a)'
    BY <1>16 DEF StartRescan, UnderAnalysis, TypeOK
  <2>2. \A b \in Address : UnderAnalysis(b) => UnderAnalysis(b)'
    BY <1>16 DEF StartRescan, UnderAnalysis, TypeOK
  <2>3. 0 \in Block
    BY MaxHeightAssumption DEF Block
  <2>. QED
    BY <1>16, <2>1, <2>2, <2>3, StrandedClaim DEF StartRescan
<1>17. ASSUME NEW r \in Request, StoreRescan(r) PROVE Quiet
  <2>1. reqAddr[r] \in Address /\ 0 \in Block
    BY <1>17, MaxHeightAssumption DEF StoreRescan, TypeOK, AnalysesClaimed, Block
  <2>2. \A a \in Address \ {reqAddr[r]} : UnderAnalysis(a) => UnderAnalysis(a)'
    BY <1>17 DEF StoreRescan, UnderAnalysis, TypeOK
  <2>. QED
    BY <1>17, <2>1, <2>2, StrandedRecord DEF StoreRescan
<1>18. ASSUME NEW r \in Request, AlertRescan(r) PROVE Quiet
  BY <1>18 DEF AlertRescan, Newly, Stranded, UnderAnalysis, TypeOK
<1>19. ASSUME NEW r \in Request, RescanFails(r) PROVE Fails
  <2>1. Newly \subseteq {reqAddr[r]}
    BY <1>19 DEF RescanFails, Newly, Stranded, UnderAnalysis, TypeOK
  <2>. QED
    BY <1>19, <2>1 DEF RescanFails
<1>20. CASE Crash
  <2>1. Newly \subseteq {current.address} \cup {reqAddr[r] : r \in Request}
    BY <1>20 DEF Crash, Newly, Stranded, UnderAnalysis
  <2>. QED
    BY <1>20, <2>1 DEF Crash
<1>21. CASE Shutdown
  BY <1>21, StrandedStays DEF Shutdown
<1>22. CASE Exit
  <2>1. pc # "analyzing" /\ \A r \in Request : reqPc[r] # "analyzing"
    BY <1>22 DEF Exit, StoppedIsQuiet, TypeOK
  <2>2. Newly = {}
    BY <1>22, <2>1 DEF Exit, Newly, Stranded, UnderAnalysis
  <2>. QED
    BY <1>22, <2>2 DEF Exit
<1>23. CASE UNCHANGED vars
  BY <1>23, StrandedStays DEF vars
<1>. QED
  BY <1>1, <1>2, <1>3, <1>4, <1>5, <1>6, <1>7, <1>8, <1>9, <1>10, <1>11, <1>12,
     <1>13, <1>14, <1>15, <1>16, <1>17, <1>18, <1>19, <1>20, <1>21, <1>22, <1>23
  DEF Next, ScannerStep, RequestStep, Fault

\* Inductive, beside IInv.
StrandedBounded == IsFiniteSet(Stranded) /\ OnlyFailuresStrand

LEMMA StrandedBoundedStep ==
  ASSUME IInv, StrandedBounded, [Next]_vars
  PROVE  StrandedBounded'
<1>. DEFINE S == Stranded
            k == 1 + Cardinality(Request)
            R == {reqAddr[r] : r \in Request}
<1>1. /\ IsFiniteSet(S) /\ Cardinality(S) \in Nat
      /\ Cardinality(S) <= faults + crashes * k
      /\ k \in Nat /\ faults \in Nat /\ crashes \in Nat
  BY FS_CardinalityType, RequestAssumption DEF IInv, TypeOK, StrandedBounded, OnlyFailuresStrand
<1>2. S' \subseteq S \cup Newly
  BY DEF Newly, Stranded
<1>3. SUFFICES IsFiniteSet(S') /\ Cardinality(S') <= faults' + crashes' * k
  BY DEF StrandedBounded, OnlyFailuresStrand
<1>4. CASE /\ \E x : Newly \subseteq {x}
           /\ faults' = faults + 1 /\ UNCHANGED crashes
  <2>1. PICK x : S' \subseteq S \cup {x}
    BY <1>2, <1>4
  <2>2. IsFiniteSet(S') /\ Cardinality(S') <= Cardinality(S) + 1
    BY <1>1, <2>1, OneMore
  <2>3. Cardinality(S') \in Nat
    BY <2>2, FS_CardinalityType
  <2>4. \A p \in Int : Cardinality(S) <= faults + p => Cardinality(S') <= faults' + p
    BY <1>1, <1>4, <2>2, <2>3
  <2>5. crashes * k \in Int
    BY <1>1
  <2>. QED
    BY <1>1, <1>4, <2>2, <2>4, <2>5
<1>5. CASE Newly = {} /\ faults' \in {faults, faults + 1} /\ UNCHANGED crashes
  <2>1. IsFiniteSet(S') /\ Cardinality(S') <= Cardinality(S)
    BY <1>1, <1>2, <1>5, FS_Subset
  <2>2. Cardinality(S') \in Nat
    BY <2>1, FS_CardinalityType
  <2>3. \A p \in Int : Cardinality(S) <= faults + p => Cardinality(S') <= faults' + p
    BY <1>1, <1>5, <2>1, <2>2
  <2>4. crashes * k \in Int
    BY <1>1
  <2>. QED
    BY <1>1, <1>5, <2>1, <2>3, <2>4
<1>6. CASE /\ Newly \subseteq {current.address} \cup R
           /\ UNCHANGED faults /\ crashes' = crashes + 1
  <2>1. /\ IsFiniteSet(R) /\ Cardinality(R) \in Nat
        /\ Cardinality(R) <= Cardinality(Request) /\ Cardinality(Request) \in Nat
    BY RequestAddresses, FS_CardinalityType, RequestAssumption DEF IInv
  <2>2. /\ IsFiniteSet(R \cup {current.address})
        /\ Cardinality(R \cup {current.address}) <= Cardinality(R) + 1
    BY <2>1, OneMore
  <2>3. S' \subseteq S \cup (R \cup {current.address})
    BY <1>2, <1>6
  <2>4. /\ IsFiniteSet(S')
        /\ Cardinality(S') <= Cardinality(S) + Cardinality(R \cup {current.address})
    BY <1>1, <2>2, <2>3, SetMore
  <2>5. Cardinality(S') \in Nat /\ Cardinality(R \cup {current.address}) \in Nat
    BY <2>2, <2>4, FS_CardinalityType
  <2>6. Cardinality(S') <= Cardinality(S) + k
    BY <1>1, <2>1, <2>2, <2>4, <2>5
  <2>7. crashes * k \in Int /\ crashes' * k = crashes * k + k
    BY <1>1, <1>6
  <2>8. \A p \in Int : Cardinality(S) <= faults + p => Cardinality(S') <= faults' + (p + k)
    BY <1>1, <1>6, <2>5, <2>6
  <2>. QED
    BY <1>1, <2>4, <2>7, <2>8
<1>. QED
  BY <1>4, <1>5, <1>6, StrandedStep DEF IInv

LEMMA StrandedInvariant == Spec => []StrandedBounded
<1>1. Init => StrandedBounded
  <2>. SUFFICES ASSUME Init PROVE StrandedBounded
    OBVIOUS
  <2>1. Stranded = {} /\ faults = 0 /\ crashes = 0
    BY DEF Init, Stranded
  <2>2. Cardinality(Request) \in Nat
    BY FS_CardinalityType, RequestAssumption
  <2>. QED
    BY <2>1, <2>2, FS_EmptySet DEF StrandedBounded, OnlyFailuresStrand
<1>2. IInv /\ StrandedBounded /\ [Next]_vars => StrandedBounded'
  BY StrandedBoundedStep
<1>. QED
  BY <1>1, <1>2, Invariance, PTL DEF Spec

\* Claiming a contract before it is analysed costs at most one contract per
\* error, and per crash at most those that were under analysis: for any number
\* of requests, errors, crashes and restarts.
THEOREM StrandedByFailures == Spec => []OnlyFailuresStrand
<1>1. StrandedBounded => OnlyFailuresStrand
  BY DEF StrandedBounded
<1>. QED
  BY <1>1, StrandedInvariant, PTL

\* When the documentation is right (README.md:7, see EveryContractScanned): as
\* long as no error and no crash has occurred, every contract the stored cursor
\* has passed has its scan, or a rescan of it is going on.
THEOREM ScannedUnlessFailure ==
  Spec => [](faults = 0 /\ crashes = 0 =>
               \A b \in Block : lastDisk # None /\ origin < b /\ b <= lastDisk =>
                 \A a \in Deployed(b) : scans[a] # None \/ UnderAnalysis(a))
<1>. DEFINE Scanned == faults = 0 /\ crashes = 0 =>
               \A b \in Block : lastDisk # None /\ origin < b /\ b <= lastDisk =>
                 \A a \in Deployed(b) : scans[a] # None \/ UnderAnalysis(a)
<1>1. ASSUME IInv, StrandedBounded, faults = 0, crashes = 0,
             NEW b \in Block, lastDisk # None, origin < b, b <= lastDisk, NEW a \in Deployed(b)
      PROVE  scans[a] # None \/ UnderAnalysis(a)
  <2>1. a \in Address /\ contracts[a] # None
    BY <1>1, DeployedAddresses DEF IInv, WorkCovered, NoContractMissed, Covered
  <2>2. Cardinality(Stranded) \in Nat /\ Cardinality(Request) \in Nat
    BY <1>1, FS_CardinalityType, RequestAssumption DEF StrandedBounded
  <2>3. Cardinality(Stranded) = 0
    BY <1>1, <2>2 DEF StrandedBounded, OnlyFailuresStrand
  <2>4. Stranded = {}
    BY <1>1, <2>3, FS_EmptySet DEF StrandedBounded
  <2>. QED
    BY <2>1, <2>4 DEF Stranded
<1>2. IInv /\ StrandedBounded => Scanned
  BY <1>1
<1>. QED
  BY <1>2, Invariance, StrandedInvariant, PTL

------------------------------------------------------------------------------
\* How many errors the task survives.

\* The count of errors in a row is at most that of all faults.
ErrorsCounted == rpcErrors <= faults

LEMMA CountedStep ==
  ASSUME TypeOK, ErrorsCounted, [Next]_vars
  PROVE  ErrorsCounted'
<1>. USE FloatAssumption DEF TypeOK, ErrorsCounted
<1>1. ASSUME NEW retryable \in BOOLEAN, HandleError(retryable) PROVE ErrorsCounted'
  BY <1>1 DEF HandleError
<1>2. ASSUME rpcErrors' \in {rpcErrors, 0}, faults' \in {faults, faults + 1} PROVE ErrorsCounted'
  BY <1>2
<1>. QED
  BY <1>1, <1>2
  DEF Next, ScannerStep, RequestStep, Fault, vars, Mine, Boot, BootFails, Wake, LatestFresh,
      LatestStale, LatestAnswer, FindAnswer, SkipKnown, ClaimAndAnalyze, StoreScan, SendAlert,
      AdvanceCursor, StepRaises, FirstCursorNotStored, CursorNotStored, StartRescan,
      StoreRescan, AlertRescan, RescanFails, Crash, LoseMemory, Shutdown, Exit

\* When the comment is right (main.py:172-173, see ErrorsAreSurvived): before
\* FloatMaxExp faults have occurred, no error inside the loop ends the task.
THEOREM FewErrorsSurvived ==
  Spec => [][pc # "down" /\ faults < FloatMaxExp => (pc' = "dead" => pc = "dead")]_vars
<1>1. Init => ErrorsCounted
  BY DEF Init, ErrorsCounted
<1>2. IInv /\ ErrorsCounted /\ [Next]_vars => ErrorsCounted'
  BY CountedStep DEF IInv
<1>3. IInv /\ ErrorsCounted /\ [Next]_vars =>
        [pc # "down" /\ faults < FloatMaxExp => (pc' = "dead" => pc = "dead")]_vars
  <2>. SUFFICES ASSUME IInv, ErrorsCounted, Next, pc # "down", faults < FloatMaxExp, pc # "dead"
                PROVE  pc' # "dead"
    OBVIOUS
  <2>1. ~DelayOverflows(rpcErrors)
    BY FloatAssumption DEF IInv, TypeOK, ErrorsCounted, DelayOverflows
  <2>2. ASSUME NEW retryable \in BOOLEAN, HandleError(retryable) PROVE pc' # "dead"
    BY <2>1, <2>2 DEF HandleError
  <2>. QED
    BY <2>2
    DEF Next, ScannerStep, RequestStep, Fault, Mine, Boot, BootFails, Wake, LoopTop, LatestFresh,
        LatestStale, LatestAnswer, FindAnswer, SkipKnown, ClaimAndAnalyze, StoreScan, SendAlert,
        AdvanceCursor, StepRaises, FirstCursorNotStored, CursorNotStored, StartRescan,
        StoreRescan, AlertRescan, RescanFails, Crash, LoseMemory, Shutdown, Exit
<1>. QED
  BY <1>1, <1>2, <1>3, Invariance, PTL DEF Spec

------------------------------------------------------------------------------
\* The scanner implements the ledger.

LEMMA ClaimImplements ==
  ASSUME TypeOK, NEW a \in Address, NEW b \in Block, AddContract(a, b),
         UNCHANGED <<scans, lastDisk>>
  PROVE  Ledger!Claim(a)
<1>1. \A x \in Address : contracts'[x] # None <=> contracts[x] # None \/ x = a
  BY NoneAssumption, BlockInt DEF TypeOK, AddContract
<1>2. {x \in Address : contracts'[x] # None} = {x \in Address : contracts[x] # None} \cup {a}
  BY <1>1
<1>. QED
  BY <1>2 DEF Ledger!Claim

LEMMA RecordImplements ==
  ASSUME TypeOK, NEW a \in Address, NEW b \in Block, UpsertScan(a, b),
         contracts[a] # None, UNCHANGED <<contracts, lastDisk>>
  PROVE  Ledger!Record(a)
<1>1. \A x \in Address : scans'[x] # None <=> scans[x] # None \/ x = a
  BY NoneAssumption, BlockInt DEF TypeOK, UpsertScan
<1>2. {x \in Address : scans'[x] # None} = {x \in Address : scans[x] # None} \cup {a}
  BY <1>1
<1>. QED
  BY <1>2 DEF Ledger!Record

LEMMA CursorImplements ==
  ASSUME IInv, [Next]_vars, UNCHANGED <<contracts, scans>>
  PROVE  [Ledger!Next]_(Ledger!vars)
<1>1. CASE UNCHANGED lastDisk
  BY <1>1 DEF Ledger!vars
<1>2. CASE lastDisk = None /\ lastDisk' \in Int
  BY <1>2 DEF Ledger!Next, Ledger!Start
<1>3. CASE /\ lastDisk \in Int /\ lastDisk' \in Int /\ lastDisk < lastDisk'
           /\ Covered(lastDisk, lastDisk')
  <2>1. ASSUME NEW b \in 0 .. MaxHeight, lastDisk < b, b <= lastDisk'
        PROVE  [x \in Block |-> Deployed(x)][b] \subseteq {a \in Address : contracts[a] # None}
    <3>1. b \in Block /\ [x \in Block |-> Deployed(x)][b] = Deployed(b)
      BY DEF Block
    <3>. QED
      BY <1>3, <2>1, <3>1, DeployedAddresses DEF Covered
  <2>2. lastDisk # None /\ lastDisk' > lastDisk
    BY <1>3, NoneAssumption
  <2>3. Ledger!Advance
    BY <1>3, <2>1, <2>2 DEF Ledger!Advance
  <2>. QED
    BY <2>3 DEF Ledger!Next
<1>. QED
  BY <1>1, <1>2, <1>3, CursorStep DEF IInv

LEMMA LedgerStep ==
  ASSUME IInv, [Next]_vars
  PROVE  [Ledger!Next]_(Ledger!vars)
<1>. USE DEF IInv
<1>1. ASSUME NEW c \in batch, ClaimAndAnalyze(c) PROVE Ledger!Next
  <2>1. c.address \in Address /\ c.block \in Block
    BY DEF TypeOK, Contract
  <2>. QED
    BY <1>1, <2>1, ClaimImplements DEF ClaimAndAnalyze, Ledger!Next
<1>2. ASSUME NEW r \in Request, NEW a \in Address, StartRescan(r, a) PROVE Ledger!Next
  <2>1. 0 \in Block
    BY MaxHeightAssumption DEF Block
  <2>. QED
    BY <1>2, <2>1, ClaimImplements DEF StartRescan, Ledger!Next
<1>3. CASE StoreScan
  <2>1. /\ current.address \in Address /\ current.block \in Block
        /\ contracts[current.address] # None
    BY <1>3 DEF StoreScan, AnalysesClaimed, TypeOK, Contract
  <2>. QED
    BY <1>3, <2>1, RecordImplements DEF StoreScan, Ledger!Next
<1>4. ASSUME NEW r \in Request, StoreRescan(r) PROVE Ledger!Next
  <2>1. reqAddr[r] \in Address /\ contracts[reqAddr[r]] # None /\ 0 \in Block
    BY <1>4, MaxHeightAssumption DEF StoreRescan, AnalysesClaimed, TypeOK, Block
  <2>. QED
    BY <1>4, <2>1, RecordImplements DEF StoreRescan, Ledger!Next
<1>5. ASSUME UNCHANGED <<contracts, scans>> PROVE [Ledger!Next]_(Ledger!vars)
  BY <1>5, CursorImplements
<1>. QED
  BY <1>1, <1>2, <1>3, <1>4, <1>5
  DEF Next, ScannerStep, RequestStep, Fault, vars, Mine, Boot, BootFails, Wake, LatestFresh,
      LatestStale, LatestAnswer, FindAnswer, SkipKnown, SendAlert, AdvanceCursor,
      StepRaises, FirstCursorNotStored, CursorNotStored, AlertRescan, RescanFails,
      Crash, Shutdown, Exit

\* The refinement: with the stored cursor, the rows of the table contracts and
\* those of the table scans for its state, the scanner is a discovery ledger.
THEOREM ImplementsLedger == Spec => LedgerSpec
<1>1. Init => Ledger!Init
  BY DEF Init, Ledger!Init
<1>2. IInv /\ [Next]_vars => [Ledger!Next]_(Ledger!vars)
  BY LedgerStep
<1>. QED
  BY <1>1, <1>2, Invariance, PTL DEF Spec, LedgerSpec, Ledger!Spec
==============================================================================
