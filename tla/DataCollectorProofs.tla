------------------------- MODULE DataCollectorProofs -------------------------
(***************************************************************************)
(* Proofs about DataCollector.  A job takes its tickers in their order, so *)
(* that those of the open transaction come before those left, and a cycle  *)
(* of two waiting jobs would need a ticker before itself.                  *)
(***************************************************************************)
EXTENDS DataCollector, FiniteSetTheorems, TLAPS

Ordered == \A j \in PriceJobs : \A t \in batch[j], u \in todo[j] : t < u

(* A ticker that was read is left, in the open batch, lost or stored; a    *)
(* job that is not at its prices has no ticker left.                       *)
Accounted ==
    \A j \in PriceJobs :
        /\ pc[j] # "prices" => todo[j] = {} /\ batch[j] = {}
        /\ pc[j] \in {"prices", "funds"} =>
             \A t \in asked[j] \ missing[j] :
                 t \in todo[j] \/ t \in batch[j] \/ Bars(j, t) \subseteq stored

Finite == \A j \in PriceJobs : IsFiniteSet(batch[j])

Inv == TypeOK /\ Finite /\ Ordered /\ Accounted

LEMMA JobsFacts == PriceJobs \subseteq Jobs /\ Load # Daily /\ Daily # List /\ Load # List
BY DEF PriceJobs, Jobs, Load, Daily, List

LEMMA InitInv == Init => Inv
<1> SUFFICES ASSUME Init PROVE Inv
  OBVIOUS
<1>1. TypeOK /\ Finite
  BY CollectorAssumption, FS_EmptySet, JobsFacts
     DEF Init, TypeOK, Places, Finite, Jobs, PriceJobs, Days
<1>2. Ordered /\ Accounted
  BY JobsFacts DEF Init, Ordered, Accounted
<1> QED BY <1>1, <1>2 DEF Inv

(* Steps that leave the transactions and the tickers left alone. *)
LEMMA QuietStep ==
    ASSUME Inv,
           UNCHANGED <<stored, todo, batch>>,
           \A j \in PriceJobs : pc[j] = "prices" => pc'[j] = "prices",
           \A j \in PriceJobs :
               pc'[j] \in {"prices", "funds"} =>
                 /\ pc[j] \in {"prices", "funds"}
                 /\ asked'[j] = asked[j] /\ missing'[j] = missing[j] /\ today'[j] = today[j]
    PROVE  (Finite /\ Ordered /\ Accounted)'
<1>1. (Finite /\ Ordered)'
  BY DEF Inv, Finite, Ordered
<1>2. Accounted'
  BY DEF Inv, Accounted, Bars
<1> QED BY <1>1, <1>2

(* The next ticker of a batch is taken, and the tickers in L are lost. *)
LEMMA TurnStep ==
    ASSUME Inv, NEW j \in PriceJobs, NEW t \in Tickers, Turn(j, t),
           NEW L \in SUBSET Tickers, missing' = [missing EXCEPT ![j] = @ \cup L],
           poisoned' \in [PriceJobs -> BOOLEAN], failures' \in 0..MaxFailures
    PROVE  Inv'
<1> USE DEF Turn, IsNext, Inv, tables
<1>1. Finite'
  <2>1. IsFiniteSet(batch[j] \cup {t})
    BY FS_AddElement DEF Finite
  <2> QED BY <2>1 DEF Finite, TypeOK
<1>2. Cardinality(batch[j] \cup {t}) <= BatchSize
  <2>1. IsFiniteSet(batch[j]) /\ Cardinality(batch[j]) \in Nat
    BY FS_CardinalityType DEF Finite
  <2>2. Cardinality(batch[j] \cup {t}) \in {Cardinality(batch[j]), Cardinality(batch[j]) + 1}
    BY <2>1, FS_AddElement
  <2> QED BY <2>1, <2>2, CollectorAssumption
<1>3. TypeOK'
  BY <1>2 DEF TypeOK
<1>4. Ordered'
  <2> SUFFICES ASSUME NEW k \in PriceJobs, NEW v \in batch'[k], NEW u \in todo'[k]
               PROVE  v < u
    BY DEF Ordered
  <2> v \in Tickers /\ u \in Tickers /\ v \in Int /\ u \in Int /\ t \in Int
    BY <1>3, CollectorAssumption DEF TypeOK
  <2> QED BY DEF Ordered, TypeOK
<1>5. Accounted'
  <2> SUFFICES ASSUME NEW k \in PriceJobs
               PROVE  /\ pc'[k] # "prices" => todo'[k] = {} /\ batch'[k] = {}
                      /\ pc'[k] \in {"prices", "funds"} =>
                           \A v \in asked'[k] \ missing'[k] :
                             \/ v \in todo'[k] \/ v \in batch'[k]
                             \/ Bars(k, v)' \subseteq stored'
    BY DEF Accounted
  <2>1. CASE k = j
    BY <2>1 DEF Accounted, TypeOK, Bars
  <2>2. CASE k # j
    BY <2>2 DEF Accounted, TypeOK, Bars
  <2> QED BY <2>1, <2>2
<1> QED BY <1>1, <1>3, <1>4, <1>5

LEMMA CommitStep ==
    ASSUME Inv, NEW j \in PriceJobs, CommitBatch(j)
    PROVE  Inv'
<1> USE DEF CommitBatch, Inv
<1>1. TypeOK' /\ Finite'
  <2>1. Locked(j) \subseteq Tickers \X (0..LastDay)
    <3>1. today[j] \in 0..LastDay
      BY JobsFacts DEF TypeOK
    <3> QED BY <3>1, CollectorAssumption DEF Locked, Bars, TypeOK
  <2>2. \A k \in PriceJobs : batch'[k] = batch[k] \/ batch'[k] = {}
    BY DEF TypeOK
  <2>3. Finite' /\ \A k \in PriceJobs : Cardinality(batch'[k]) <= BatchSize
    BY <2>2, FS_EmptySet, CollectorAssumption DEF TypeOK, Finite
  <2> QED BY <2>1, <2>3 DEF TypeOK
<1>2. Ordered'
  BY DEF Ordered, TypeOK
<1>3. Accounted'
  <2>1. \A t \in batch[j] \ missing[j] : Bars(j, t) \subseteq stored'
    BY DEF Locked
  <2> QED BY <2>1 DEF Accounted, Bars, TypeOK
<1> QED BY <1>1, <1>2, <1>3

(* The jobs in J are over, and neither asks for a price any more. *)
LEMMA DropStep ==
    ASSUME Inv, NEW J \in SUBSET Jobs, Drop(J),
           \A j \in Jobs : j \notin J => pc'[j] = pc[j],
           \A j \in J : pc'[j] \in {"idle", "check"},
           pc' \in [Jobs -> Places],
           pc'[Daily] \notin {"check", "stocks", "market"}
    PROVE  Inv'
<1> USE DEF Drop, Dropped, Inv, tables
<1>1. TypeOK'
  BY FS_EmptySet, CollectorAssumption, JobsFacts DEF TypeOK
<1>2. Finite' /\ Ordered'
  BY FS_EmptySet DEF Finite, Ordered
<1>3. Accounted'
  BY JobsFacts DEF Accounted, Bars
<1> QED BY <1>1, <1>2, <1>3

LEMMA FailStep ==
    ASSUME Inv, NEW j \in Jobs, Fail(j)
    PROVE  Inv'
<1>1. {j} \in SUBSET Jobs /\ Drop({j})
  BY DEF Fail
<1>2. /\ \A k \in Jobs : k \notin {j} => pc'[k] = pc[k]
      /\ \A k \in {j} : pc'[k] \in {"idle", "check"}
      /\ pc' \in [Jobs -> Places]
      /\ pc'[Daily] \notin {"check", "stocks", "market"}
  BY JobsFacts DEF Fail, Inv, TypeOK, Places, PriceJobs, Jobs
<1> QED BY <1>1, <1>2, DropStep

LEMMA RestartStep ==
    ASSUME Inv, Restart
    PROVE  Inv'
<1>1. Jobs \in SUBSET Jobs /\ Drop(Jobs)
  BY DEF Restart
<1>2. /\ \A k \in Jobs : k \notin Jobs => pc'[k] = pc[k]
      /\ \A k \in Jobs : pc'[k] \in {"idle", "check"}
      /\ pc' \in [Jobs -> Places]
      /\ pc'[Daily] \notin {"check", "stocks", "market"}
  BY JobsFacts DEF Restart, Places, Jobs
<1> QED BY <1>1, <1>2, DropStep

LEMMA NextInv == Inv /\ [Next]_vars => Inv'
<1> SUFFICES ASSUME Inv, [Next]_vars PROVE Inv'
  OBVIOUS
<1> USE DEF Inv
<1>1. CASE CheckEmpty
  <2>1. TypeOK'
       BY <1>1, JobsFacts, CollectorAssumption
          DEF CheckEmpty, TypeOK, Places, tables, PriceJobs, Jobs, Days
  <2> QED BY <1>1, <2>1, QuietStep, JobsFacts DEF CheckEmpty, TypeOK, tables, PriceJobs
<1>2. CASE StartDaily
  <2>1. TypeOK'
       BY <1>2, JobsFacts, CollectorAssumption
          DEF Jobs, PriceJobs, Days, Places, StartDaily, TypeOK, tables
  <2> QED BY <1>2, <2>1, QuietStep, JobsFacts DEF StartDaily, TypeOK, tables, Running
<1>3. CASE StartList
  <2>1. TypeOK'
       BY <1>3, JobsFacts, CollectorAssumption
          DEF Jobs, PriceJobs, Days, Places, StartList, TypeOK, tables
  <2> QED BY <1>3, <2>1, QuietStep, JobsFacts
          DEF StartList, TypeOK, tables, PriceJobs
<1>4. ASSUME NEW j \in Jobs, (\E m \in Markets : OpenMarket(j, m)) \/ SaveMarket(j)
      PROVE  Inv'
  <2>1. TypeOK'
    <3>1. CASE SaveMarket(j)
      BY <3>1, JobsFacts, CollectorAssumption
         DEF SaveMarket, TypeOK, Places, locals, Jobs, Days
    <3>2. ASSUME NEW m \in Markets, OpenMarket(j, m) PROVE TypeOK'
      <4>1. {t \in Listed[day] : MarketOf[t] = m} \in SUBSET Tickers
        BY CollectorAssumption DEF TypeOK, Days
      <4>2. pc' \in [Jobs -> Places] /\ j # Daily /\ marketsLeft' \in [Jobs -> SUBSET Markets]
        BY <3>2 DEF OpenMarket, NextMarket, TypeOK, Places
      <4>3. listing' \in [Jobs -> SUBSET Tickers]
        BY <3>2, <4>1 DEF OpenMarket, TypeOK
      <4>4. QED
        BY <3>2, <4>2, <4>3 DEF OpenMarket, TypeOK, tables, locals
    <3> QED BY <1>4, <3>1, <3>2
  <2> QED BY <1>4, <2>1, QuietStep, JobsFacts
          DEF OpenMarket, SaveMarket, TypeOK, tables, locals, PriceJobs
<1>5. ASSUME NEW j \in PriceJobs, ReadTickers(j) PROVE Inv'
  <2> USE <1>5 DEF ReadTickers
  <2>1. TypeOK' /\ Finite'
    BY FS_EmptySet, CollectorAssumption, JobsFacts DEF TypeOK, Places, Finite, tables
  <2>2. Ordered'
    BY DEF TypeOK, Ordered
  <2>3. Accounted'
    BY JobsFacts DEF TypeOK, Accounted, Bars, tables
  <2> QED BY <2>1, <2>2, <2>3
<1>6. ASSUME NEW j \in PriceJobs, NEW t \in Tickers, Write(j, t) PROVE Inv'
  <2>1. missing' = [missing EXCEPT ![j] = @ \cup {}]
    BY <1>6 DEF Write, TypeOK
  <2>2. Turn(j, t) /\ poisoned' \in [PriceJobs -> BOOLEAN] /\ failures' \in 0..MaxFailures
    BY <1>6 DEF Write, TypeOK
  <2>3. {t} \in SUBSET Tickers /\ {} \in SUBSET Tickers
    OBVIOUS
  <2> QED BY <2>1, <2>2, <2>3, TurnStep
<1>7. ASSUME NEW j \in PriceJobs, NEW t \in Tickers, Skip(j, t) PROVE Inv'
  <2>1. Turn(j, t) /\ missing' = [missing EXCEPT ![j] = @ \cup {t}]
    BY <1>7 DEF Skip
  <2>2. poisoned' \in [PriceJobs -> BOOLEAN] /\ failures' \in 0..MaxFailures
    BY <1>7 DEF Skip, TypeOK
  <2>3. {t} \in SUBSET Tickers /\ {} \in SUBSET Tickers
    OBVIOUS
  <2> QED BY <2>1, <2>2, <2>3, TurnStep
<1>8. ASSUME NEW j \in PriceJobs, NEW t \in Tickers, Poison(j, t) PROVE Inv'
  <2>1. missing' = [missing EXCEPT ![j] = @ \cup (batch[j] \cup {t})]
    BY <1>8 DEF Poison, TypeOK
  <2>2. batch[j] \cup {t} \in SUBSET Tickers
    BY DEF TypeOK
  <2>3. poisoned' \in [PriceJobs -> BOOLEAN] /\ failures' \in 0..MaxFailures
    BY <1>8, CollectorAssumption DEF Poison, TypeOK
  <2>4. Turn(j, t)
    BY <1>8 DEF Poison
  <2> QED BY <2>1, <2>2, <2>3, <2>4, TurnStep
<1>9. ASSUME NEW j \in PriceJobs, StartFundamentals(j) PROVE Inv'
  <2> USE <1>9 DEF StartFundamentals, BatchEnds, locals, tables
  <2>1. TypeOK' /\ Finite' /\ Ordered'
    BY JobsFacts DEF TypeOK, Places, Finite, Ordered
  <2>2. Accounted'
    BY JobsFacts DEF TypeOK, Accounted, Bars
  <2> QED BY <2>1, <2>2
<1>10. CASE NextDay
  <2>1. TypeOK' BY <1>10, CollectorAssumption DEF NextDay, TypeOK, tables, locals, Days
  <2> QED BY <1>10, <2>1, QuietStep DEF NextDay, tables, locals
<1>11. CASE UNCHANGED vars
  BY <1>11 DEF vars, tables, locals, TypeOK, Finite, Ordered, Accounted, Bars
<1>12. ASSUME NEW j \in PriceJobs, SaveFundamentals(j) PROVE Inv'
  <2>1. TypeOK'
    BY <1>12, JobsFacts DEF SaveFundamentals, TypeOK, Places, tables, Jobs
  <2> QED BY <1>12, <2>1, QuietStep, JobsFacts DEF SaveFundamentals, TypeOK, tables
<1>13. ASSUME NEW j \in Jobs, Step(j) PROVE Inv'
  BY <1>1, <1>4, <1>5, <1>6, <1>7, <1>8, <1>9, <1>12, <1>13, CommitStep DEF Step, Collect
<1> QED
  BY <1>2, <1>3, <1>10, <1>11, <1>13, FailStep, RestartStep DEF Next

(* The invariant holds in every behaviour. *)
THEOREM InvAlways == Spec => []Inv
BY InitInv, NextInv, PTL DEF Spec

(* Every variable keeps its type, and no transaction has more tickers than *)
(* a batch (batch_size).                                                   *)
THEOREM TypeCorrect == Spec => []TypeOK
BY InvAlways, PTL DEF Inv

(* After its prices a job has a bar stored for every day and ticker it was *)
(* to collect, but for the tickers that KRX or a failed transaction lost.  *)
THEOREM RunCompleteAlways == Spec => []RunComplete
<1>1. Inv => RunComplete
  BY DEF Inv, Accounted, RunComplete
<1> QED BY <1>1, InvAlways, PTL

(* The upserts of the bulk load and of the daily run do not deadlock. *)
THEOREM NoLockCycleAlways == Spec => []NoLockCycle
<1>1. Inv => NoLockCycle
  <2> SUFFICES ASSUME Inv, WaitsFor(Load, Daily), WaitsFor(Daily, Load) PROVE FALSE
    BY DEF NoLockCycle
  <2>0. Load \in PriceJobs /\ Daily \in PriceJobs
    BY DEF PriceJobs
  <2>1. PICK t \in todo[Load] : MustWait(Load, Daily, t)
    BY DEF WaitsFor
  <2>2. PICK u \in todo[Daily] : MustWait(Daily, Load, u)
    BY DEF WaitsFor
  <2>3. t \in batch[Daily] /\ u \in batch[Load]
    BY <2>1, <2>2 DEF MustWait, Locked, Bars
  <2>4. t < u /\ u < t
    BY <2>0, <2>3 DEF Inv, Ordered
  <2>5. t \in Int /\ u \in Int
    BY <2>0, CollectorAssumption DEF Inv, TypeOK
  <2> QED BY <2>4, <2>5
<1> QED BY <1>1, InvAlways, PTL
=============================================================================
