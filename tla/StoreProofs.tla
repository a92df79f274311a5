----------------------------- MODULE StoreProofs -----------------------------
(***************************************************************************)
(* Theorems about Store, for any number of migrations, keys and requests.  *)
(***************************************************************************)
EXTENDS Store, TLAPS

\* A release embeds a prefix of the migrations.
LEMMA ReleasePrefix ==
  ASSUME NEW R \in Releases, NEW v \in R
  PROVE  R \subseteq Versions /\ 1..v \subseteq R
  BY StoreAssumption DEF StoreAssumption, Releases, Versions

(***************************************************************************)
(* The schema.                                                             *)
(***************************************************************************)
SchemaInv == SchemaTypeOK /\ MigrationInv /\ BodyOncePerRecord /\ NoMigrationSkipped

\* The first start finds an empty file.
LEMMA SchemaInit == Init => SchemaInv
  BY StoreAssumption
     DEF StoreAssumption, Init, NoTx, SchemaInv, SchemaTypeOK, MigrationInv, BodyOncePerRecord,
         NoMigrationSkipped, Versions

\* Every step keeps the schema's invariant; requests do not touch the schema.
LEMMA SchemaStep == SchemaInv /\ [Next]_vars => SchemaInv'
<1> SUFFICES ASSUME SchemaInv, [Next]_vars PROVE SchemaInv'
  OBVIOUS
<1> USE StoreAssumption
    DEF StoreAssumption, fileVars, processVars, requestVars, countVars, NoTx, SchemaInv,
        SchemaTypeOK, MigrationInv, BodyOncePerRecord, NoMigrationSkipped
<1>1. CASE Start
  BY <1>1 DEF Start
<1>2. CASE Crash \/ RefuseNewer
  BY <1>2 DEF Crash, RefuseNewer, Gone
<1>3. CASE QueryApplied
  BY <1>3 DEF QueryApplied
<1>4. CASE ReadApplied
  BY <1>4 DEF ReadApplied, Unknown
<1>5. CASE BeginTx
  <2>1. SchemaTypeOK'
    <3>1. PICK v \in todo : tx' = [version |-> v, stage |-> "begun"]
      BY <1>5 DEF BeginTx, NextVersion
    <3>2. v \in Versions
      BY <3>1, ReleasePrefix
    <3> QED BY <1>5, <3>1, <3>2 DEF BeginTx
  <2>2. MigrationInv'
    BY <1>5 DEF BeginTx, NextVersion
  <2>3. BodyOncePerRecord' /\ NoMigrationSkipped'
    BY <1>5 DEF BeginTx, NextVersion
  <2> QED BY <2>1, <2>2, <2>3
<1>6. CASE ExecBody
  BY <1>6 DEF ExecBody, NextVersion
<1>7. CASE InsertVersion
  BY <1>7 DEF InsertVersion, NextVersion
<1>8. CASE Commit
  <2>1. SchemaTypeOK'
    BY <1>8, ReleasePrefix DEF Commit, NextVersion
  <2>2. MigrationInv'
    BY <1>8, ReleasePrefix DEF Commit, NextVersion
  <2>3. BodyOncePerRecord'
    BY <1>8 DEF Commit, NextVersion
  <2>4. NoMigrationSkipped'
    <3> DEFINE v == tx.version
    <3>1. /\ v \in todo /\ \A u \in todo : v <= u
          /\ v \in known /\ known \in Releases /\ todo = known \ recorded
          /\ recorded' = recorded \cup {v}
      BY <1>8 DEF Commit, NextVersion
    <3>2. 1..v \subseteq known /\ known \subseteq Versions
      BY <3>1, ReleasePrefix
    <3>3. v \in Nat
      BY <3>1, <3>2 DEF Versions
    <3>4. ASSUME NEW u \in 1..v PROVE u \in recorded \cup {v}
      BY <3>1, <3>2, <3>3
    <3> HIDE DEF v
    <3> QED BY <3>1, <3>3, <3>4
  <2> QED BY <2>1, <2>2, <2>3, <2>4
<1>9. CASE Serve
  BY <1>9 DEF Serve
<1>10. ASSUME NEW c \in Clients,
              Ask(c) \/ Acquire(c) \/ SetConfig(c) \/ SetConfigFails(c) \/ ListConfig(c) \/ GiveUp(c)
       PROVE  UNCHANGED <<recorded, bodies, pc, known, todo, tx>>
  BY <1>10 DEF Ask, Acquire, SetConfig, SetConfigFails, ListConfig, GiveUp
<1>11. CASE UNCHANGED <<recorded, bodies, pc, known, todo, tx>>
  BY <1>11 DEF NextVersion
<1> QED
  BY <1>1, <1>2, <1>3, <1>4, <1>5, <1>6, <1>7, <1>8, <1>9, <1>10, <1>11
     DEF Next, Migrate, Use, vars

\* The schema's invariant holds in every reachable state.
THEOREM SchemaInvariance == Spec => []SchemaInv
<1>1. Init => SchemaInv
  BY SchemaInit
<1>2. SchemaInv /\ [Next]_vars => SchemaInv'
  BY SchemaStep
<1> QED BY <1>1, <1>2, PTL DEF Spec

\* A body has run exactly once for each recorded version, however the process was
\* interrupted.
THEOREM BodyOncePerRecordHolds == Spec => []BodyOncePerRecord
<1>1. SchemaInv => BodyOncePerRecord
  BY DEF SchemaInv
<1> QED BY <1>1, SchemaInvariance, PTL

\* The process serves exactly its own schema.
THEOREM ServesOwnSchemaHolds == Spec => []ServesOwnSchema
<1>1. SchemaInv => ServesOwnSchema
  BY DEF SchemaInv, MigrationInv, ServesOwnSchema
<1> QED BY <1>1, SchemaInvariance, PTL

\* No migration is ever recorded before one that sorts earlier.
THEOREM NoMigrationSkippedHolds == Spec => []NoMigrationSkipped
<1>1. SchemaInv => NoMigrationSkipped
  BY DEF SchemaInv
<1> QED BY <1>1, SchemaInvariance, PTL

(***************************************************************************)
(* The settings.                                                           *)
(***************************************************************************)
SettingsAll == RequestTypeOK /\ SettingsInv /\ ReportedSettingsSurvive

\* Nothing has been written or reported yet.
LEMMA SettingsInit == Init => SettingsAll
  BY StoreAssumption
     DEF StoreAssumption, Init, SettingsAll, RequestTypeOK, SettingsInv, ReportedSettingsSurvive

\* What commits is a version the file does not have, before anything is served.
LEMMA CommitIsNew ==
  ASSUME SchemaInv, Commit
  PROVE  pc = "migrating" /\ tx.version \notin recorded
  BY DEF SchemaInv, MigrationInv, Commit, NextVersion

\* Steps of the process: none of them runs while a request is under way, except a
\* crash, which ends them all.
LEMMA ProcessKeepsSettings ==
  ASSUME SchemaInv, SettingsAll, Start \/ Crash \/ Migrate
  PROVE  SettingsAll'
<1> USE DEF fileVars, processVars, requestVars, countVars
<1>0. /\ MaxStarts \in Nat /\ writes \in Nat /\ 0 \in 0..writes
      /\ RequestTypeOK
  <2>1. MaxStarts \in Nat /\ MaxWrites \in Nat
    BY StoreAssumption DEF StoreAssumption
  <2>2. RequestTypeOK
    BY DEF SettingsAll
  <2>3. writes \in 0..MaxWrites
    BY <2>2 DEF RequestTypeOK
  <2> QED BY <2>1, <2>2, <2>3
<1>1. CASE Crash \/ RefuseNewer
  <2>1. /\ UNCHANGED <<recorded, config, target, starts, writes, acked>>
        /\ conn' = "free" /\ op' = [c \in Clients |-> "idle"] /\ own' = [c \in Clients |-> 0]
    BY <1>1 DEF Crash, RefuseNewer, Gone
  <2>2. RequestTypeOK'
    <3>1. op' \in [Clients -> {"idle", "api put", "page put", "list"}]
      BY <2>1
    <3>2. own' \in [Clients -> 0..writes]
      BY <1>0, <2>1
    <3> QED BY <1>0, <2>1, <3>1, <3>2 DEF RequestTypeOK
  <2>3. SettingsInv' /\ ReportedSettingsSurvive'
    BY <2>1 DEF SettingsAll, SettingsInv, ReportedSettingsSurvive
  <2> QED BY <2>2, <2>3 DEF SettingsAll
<1>2. CASE Start
  <2>1. RequestTypeOK'
    <3>1. starts' \in 0..MaxStarts
      <4>1. starts \in 0..MaxStarts
        BY <1>0 DEF RequestTypeOK
      <4>2. starts < MaxStarts /\ starts' = starts + 1
        BY <1>2 DEF Start
      <4> QED BY <1>0, <4>1, <4>2
    <3>2. /\ config' = config /\ conn' = conn /\ op' = op /\ target' = target /\ own' = own
          /\ writes' = writes /\ acked' = acked
      BY <1>2 DEF Start
    <3> QED BY <1>0, <3>1, <3>2, Zenon DEF RequestTypeOK
  <2>2. SettingsInv' /\ ReportedSettingsSurvive'
    BY <1>2 DEF Start, SettingsAll, SettingsInv, ReportedSettingsSurvive
  <2> QED BY <2>1, <2>2 DEF SettingsAll
<1>3. CASE QueryApplied \/ ReadApplied \/ BeginTx \/ ExecBody \/ InsertVersion \/ Serve
  <2>1. /\ UNCHANGED <<recorded, config, requestVars, countVars>>
        /\ conn' \in {conn, "free", "rows", "tx"}
        /\ pc # "serving"
    BY <1>3 DEF QueryApplied, ReadApplied, AfterRows, BeginTx, ExecBody, InsertVersion, Serve,
                SchemaInv, MigrationInv
  <2>2. RequestTypeOK'
    BY <2>1 DEF SettingsAll, RequestTypeOK
  <2>3. SettingsInv' /\ ReportedSettingsSurvive'
    BY <2>1 DEF SettingsAll, SettingsInv, ReportedSettingsSurvive
  <2> QED BY <2>2, <2>3 DEF SettingsAll
<1>4. CASE Commit
  <2>1. /\ recorded' = recorded \cup {tx.version}
        /\ config' = IF tx.version = 1 THEN [k \in Keys |-> 0] ELSE config
        /\ conn' = "free"
        /\ UNCHANGED <<pc, requestVars, countVars>>
    BY <1>4 DEF Commit
  <2>2. tx.version = 1 => \A k \in Keys : acked[k] = 0
    BY <1>4, CommitIsNew DEF SettingsAll, SettingsInv
  <2>3. \A c \in Clients : op[c] = "idle"
    BY <1>4, CommitIsNew DEF SettingsAll, SettingsInv
  <2>4. RequestTypeOK'
    <3>1. [k \in Keys |-> 0] \in [Keys -> 0..writes]
      BY <1>0
    <3>2. config' \in [Keys -> 0..writes]
      BY <1>0, <2>1, <3>1 DEF RequestTypeOK
    <3> QED BY <1>0, <2>1, <3>2 DEF RequestTypeOK
  <2>5. SettingsInv'
    BY <2>1, <2>3 DEF SettingsAll, SettingsInv
  <2>6. ReportedSettingsSurvive'
    BY <2>1, <2>2 DEF SettingsAll, ReportedSettingsSurvive
  <2> QED BY <2>4, <2>5, <2>6 DEF SettingsAll
<1> QED BY <1>1, <1>2, <1>3, <1>4 DEF Migrate

\* Requests run only when the first migration is recorded.
LEMMA ServingIsSeeded ==
  ASSUME SchemaInv, pc = "serving"
  PROVE  1 \in recorded
<1>1. known \in Releases /\ known \subseteq recorded
  BY DEF SchemaInv, SchemaTypeOK, MigrationInv
<1>2. 1 \in known
  BY <1>1, StoreAssumption DEF StoreAssumption, Releases, Versions
<1> QED BY <1>1, <1>2

\* Steps of the requests: each reports its own write, which is no later than the
\* one its key shows.
LEMMA RequestsKeepSettings ==
  ASSUME SchemaInv, SettingsAll, NEW c \in Clients,
         Ask(c) \/ Acquire(c) \/ Use(c) \/ GiveUp(c)
  PROVE  SettingsAll'
<1> USE DEF fileVars, processVars, requestVars, countVars
<1>0. /\ MaxWrites \in Nat /\ writes \in Nat /\ 0 \in 0..writes
      /\ RequestTypeOK
  <2>1. MaxWrites \in Nat
    BY StoreAssumption DEF StoreAssumption
  <2>2. RequestTypeOK
    BY DEF SettingsAll
  <2>3. writes \in 0..MaxWrites
    BY <2>2 DEF RequestTypeOK
  <2> QED BY <2>1, <2>2, <2>3
<1>1. ASSUME op[c] # "idle" \/ Ask(c) PROVE 1 \in recorded /\ pc = "serving"
  BY <1>1, ServingIsSeeded DEF SettingsAll, SettingsInv, Ask
<1>2. CASE Ask(c) \/ Acquire(c) \/ SetConfigFails(c) \/ GiveUp(c)
  <2>1. /\ UNCHANGED <<recorded, config, starts, writes, acked, pc>>
        /\ conn' \in {conn, "free", c}
        /\ own' = own \/ own' = [own EXCEPT ![c] = 0]
        /\ target' = target \/ \E k \in Keys : target' = [target EXCEPT ![c] = k]
        /\ \E o \in {"idle", "api put", "page put", "list", op[c]} : op' = [op EXCEPT ![c] = o]
    <3>1. CASE Ask(c)
      BY <3>1 DEF Ask
    <3>2. CASE Acquire(c)
      BY <1>0, <3>2 DEF Acquire, RequestTypeOK
    <3>3. CASE SetConfigFails(c)
      BY <3>3 DEF SetConfigFails, AnswerError
    <3>4. CASE GiveUp(c)
      BY <3>4 DEF GiveUp
    <3> QED BY <1>2, <3>1, <3>2, <3>3, <3>4
  <2>2. RequestTypeOK'
    <3>1. op' \in [Clients -> {"idle", "api put", "page put", "list"}]
      BY <1>0, <2>1 DEF RequestTypeOK
    <3>2. own' \in [Clients -> 0..writes] /\ target' \in [Clients -> Keys]
      BY <1>0, <2>1 DEF RequestTypeOK
    <3>3. conn' \in {"free", "rows", "tx"} \cup Clients
      BY <1>0, <2>1 DEF RequestTypeOK
    <3> QED BY <1>0, <2>1, <3>1, <3>2, <3>3 DEF RequestTypeOK
  <2>3. pc = "serving"
    BY <1>1, <1>2 DEF Acquire, SetConfigFails, GiveUp
  <2>4. ASSUME NEW d \in Clients, op'[d] = "list"
        PROVE  own'[d] <= config'[target'[d]]
    <3>1. config \in [Keys -> 0..writes] /\ target \in [Clients -> Keys]
      BY <1>0 DEF RequestTypeOK
    <3>2. CASE d = c /\ Ask(c)
      <4>1. own'[c] = 0 /\ target'[c] \in Keys /\ config' = config
        BY <1>0, <3>2 DEF Ask, RequestTypeOK
      <4>2. config[target'[c]] \in 0..writes
        BY <3>1, <4>1
      <4> QED BY <1>0, <3>2, <4>1, <4>2
    <3>3. CASE d # c \/ ~Ask(c)
      <4>1. op[d] = "list" /\ own'[d] = own[d] /\ target'[d] = target[d] /\ config' = config
        BY <1>0, <1>2, <2>4, <3>3
           DEF Ask, Acquire, SetConfigFails, AnswerError, GiveUp, RequestTypeOK
      <4> QED BY <4>1 DEF SettingsAll, SettingsInv
    <3> QED BY <3>2, <3>3
  <2>5. SettingsInv' /\ ReportedSettingsSurvive'
    BY <2>1, <2>3, <2>4 DEF SettingsAll, SettingsInv, ReportedSettingsSurvive
  <2> QED BY <2>2, <2>5 DEF SettingsAll
<1>3. CASE SetConfig(c)
  <2> DEFINE w == writes + 1
             k == target[c]
  <2>1. /\ writes' = w /\ w \in 0..MaxWrites /\ w \in Nat
        /\ k \in Keys
        /\ config' = [config EXCEPT ![k] = w]
        /\ UNCHANGED <<recorded, pc, target, starts>>
        /\ conn' = "free"
    <3>1. writes' = w /\ writes < MaxWrites /\ target[c] \in Keys
          /\ UNCHANGED <<recorded, pc, target, starts>> /\ conn' = "free"
          /\ config' = [config EXCEPT ![k] = w]
      BY <1>0, <1>3 DEF SetConfig, RequestTypeOK
    <3> QED BY <1>0, <3>1
  <2>2. config \in [Keys -> 0..w] /\ own \in [Clients -> 0..w] /\ acked \in [Keys -> 0..w]
    <3>1. 0..writes \subseteq 0..w
      BY <1>0
    <3>2. config \in [Keys -> 0..writes] /\ own \in [Clients -> 0..writes] /\ acked \in [Keys -> 0..writes]
      BY <1>0 DEF RequestTypeOK
    <3> HIDE DEF w
    <3> QED BY <3>1, <3>2
  <2>3. own' \in [Clients -> 0..w] /\ acked' \in [Keys -> 0..w]
    <3>1. own' = own \/ own' = [own EXCEPT ![c] = w]
      BY <1>3 DEF SetConfig
    <3>2. acked' = acked \/ acked' = [acked EXCEPT ![k] = IF w > @ THEN w ELSE @]
      BY <1>3 DEF SetConfig, Report
    <3> QED BY <2>1, <2>2, <3>1, <3>2
  <2>4. config' \in [Keys -> 0..w]
    BY <2>1, <2>2
  <2>5. \/ op' = [op EXCEPT ![c] = "idle"]
        \/ op' = [op EXCEPT ![c] = "list"] /\ own' = [own EXCEPT ![c] = w]
    <3>1. CASE op[c] = "api put"
      BY <1>3, <3>1 DEF SetConfig
    <3>2. CASE op[c] = "page put"
      BY <1>3, <3>2 DEF SetConfig
    <3> QED BY <1>3, <3>1, <3>2 DEF SetConfig
  <2>6. RequestTypeOK'
    <3>1. op' \in [Clients -> {"idle", "api put", "page put", "list"}]
      BY <1>0, <2>5 DEF RequestTypeOK
    <3> QED BY <1>0, <2>1, <2>3, <2>4, <3>1 DEF RequestTypeOK
  <2>7. ASSUME NEW j \in Keys PROVE config[j] <= config'[j] /\ config[j] \in Nat /\ config'[j] \in Nat
    <3>1. config[j] \in 0..w /\ config'[j] \in 0..w
      BY <2>2, <2>4
    <3> QED BY <1>0, <2>1, <2>2, <3>1
  <2>8. ReportedSettingsSurvive'
    <3> SUFFICES ASSUME NEW j \in Keys PROVE acked'[j] <= config'[j]
      BY DEF ReportedSettingsSurvive
    <3>1. acked'[j] = acked[j] \/ acked'[j] = config'[j]
      BY <1>3, <2>1, <2>2 DEF SetConfig, Report
    <3>2. acked[j] <= config[j] /\ acked[j] \in Nat
      BY <2>1, <2>2 DEF SettingsAll, ReportedSettingsSurvive
    <3> QED BY <2>7, <3>1, <3>2
  <2>9. SettingsInv'
    <3>1. pc = "serving" /\ 1 \in recorded
      BY <1>1, <1>3 DEF SetConfig
    <3>2. ASSUME NEW d \in Clients, op'[d] = "list" PROVE own'[d] <= config'[target[d]]
      <4>1. CASE d = c
        <5>1. own'[c] = w
          BY <1>0, <2>2, <2>5, <3>2, <4>1 DEF RequestTypeOK
        <5>2. config'[k] = w
          BY <2>1, <2>2
        <5> QED BY <2>1, <4>1, <5>1, <5>2
      <4>2. CASE d # c
        <5>1. op[d] = "list" /\ own'[d] = own[d] /\ target[d] \in Keys
          BY <1>0, <1>3, <3>2, <4>2 DEF SetConfig, RequestTypeOK
        <5>2. own[d] <= config[target[d]] /\ own[d] \in Nat
          BY <2>1, <2>2, <5>1 DEF SettingsAll, SettingsInv
        <5> QED BY <2>7, <5>1, <5>2
      <4> QED BY <4>1, <4>2
    <3> QED BY <2>1, <3>1, <3>2 DEF SettingsInv
  <2> QED BY <2>6, <2>8, <2>9 DEF SettingsAll
<1>4. CASE ListConfig(c)
  <2> DEFINE k == target[c]
  <2>1. /\ UNCHANGED <<recorded, config, pc, target, own, starts, writes>>
        /\ op' = [op EXCEPT ![c] = "idle"] /\ conn' = "free" /\ op[c] = "list"
        /\ acked' = [acked EXCEPT ![k] = IF own[c] > @ THEN own[c] ELSE @]
    BY <1>4 DEF ListConfig, AfterList, Report
  <2>2. /\ config \in [Keys -> 0..writes] /\ own \in [Clients -> 0..writes]
        /\ acked \in [Keys -> 0..writes] /\ k \in Keys /\ own[c] \in 0..writes
    BY <1>0 DEF RequestTypeOK
  <2>3. own[c] <= config[k]
    BY <2>1 DEF SettingsAll, SettingsInv
  <2>4. RequestTypeOK'
    <3>1. op' \in [Clients -> {"idle", "api put", "page put", "list"}]
      BY <1>0, <2>1 DEF RequestTypeOK
    <3>2. acked' \in [Keys -> 0..writes]
      BY <2>1, <2>2
    <3> QED BY <1>0, <2>1, <3>1, <3>2 DEF RequestTypeOK
  <2>5. ReportedSettingsSurvive'
    BY <2>1, <2>2, <2>3 DEF SettingsAll, ReportedSettingsSurvive
  <2>6. SettingsInv'
    <3>1. pc = "serving" /\ 1 \in recorded
      BY <1>1, <2>1
    <3>2. \A d \in Clients : op'[d] = "list" => op[d] = "list"
      BY <1>0, <2>1 DEF RequestTypeOK
    <3> QED BY <2>1, <3>1, <3>2 DEF SettingsAll, SettingsInv
  <2> QED BY <2>4, <2>5, <2>6 DEF SettingsAll
<1> QED BY <1>2, <1>3, <1>4 DEF Use

\* The settings' invariant holds in every reachable state.
THEOREM SettingsInvariance == Spec => []SettingsAll
<1>1. Init => SettingsAll
  BY SettingsInit
<1>2. SchemaInv /\ SettingsAll /\ [Next]_vars => SettingsAll'
  <2> SUFFICES ASSUME SchemaInv, SettingsAll, [Next]_vars PROVE SettingsAll'
    OBVIOUS
  <2>1. CASE UNCHANGED vars
    BY <2>1 DEF vars, fileVars, processVars, requestVars, countVars, SettingsAll,
               RequestTypeOK, SettingsInv, ReportedSettingsSurvive
  <2> QED BY <2>1, ProcessKeepsSettings, RequestsKeepSettings DEF Next
<1> QED BY <1>1, <1>2, SchemaInvariance, PTL DEF Spec

\* Every variable keeps its type.
THEOREM TypeCorrect == Spec => []TypeOK
<1>1. SchemaInv /\ SettingsAll => TypeOK
  BY DEF SchemaInv, SettingsAll, TypeOK
<1> QED BY <1>1, SchemaInvariance, SettingsInvariance, PTL

\* No setting that a client was told is stored is lost, whatever crashes, restarts,
\* upgrades and other writers come after.
THEOREM ReportedSettingsSurviveHolds == Spec => []ReportedSettingsSurvive
<1>1. SettingsAll => ReportedSettingsSurvive
  BY DEF SettingsAll
<1> QED BY <1>1, SettingsInvariance, PTL
=============================================================================
