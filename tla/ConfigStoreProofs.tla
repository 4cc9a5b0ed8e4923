--------------------------- MODULE ConfigStoreProofs ---------------------------
(***************************************************************************)
(* Proofs about ConfigStore, for every set of administrators, thresholds   *)
(* and patterns, every bound and every fault.                              *)
(*                                                                         *)
(* The properties are about the stored value, what a panel shows and the   *)
(* version a save would get; the strengthening says what a PUT carries     *)
(* between its round trips: content that was validated, a current version  *)
(* that is the one in force unless the PUT is stale, and, once saved, the  *)
(* configuration in force unless something else happened.                  *)
(***************************************************************************)
EXTENDS ConfigStore, TLAPS

Serving(a) == pc[a] \in {"load", "save", "publish"}

CarriesValid == \A a \in Admins : Serving(a) => IsValid(incoming[a].content)

SnapshotIsValid == snapshot # NoConfig => IsValid(snapshot.content)

CurrentIsInForce ==
    \A a \in Admins :
        pc[a] = "save" /\ ~stale[a] => current[a] = InForce.version

AnswersInForce ==
    \A a \in Admins :
        pc[a] = "publish" /\ ~stale[a] => incoming[a] = InForce

IInv ==
    /\ TypeOK
    /\ StoredIsValid
    /\ SnapshotIsValid
    /\ CarriesValid
    /\ CurrentIsInForce
    /\ AnswersInForce
    /\ PanelIsCurrent

-------------------------------------------------------------------------------
(* The environment's configuration and whatever is in force are            *)
(* configurations.                                                         *)
LEMMA InForceType ==
    ASSUME TypeOK
    PROVE  InForce \in Config /\ Defaults \in Config
<1>1. Defaults \in Config
    BY ConfigAssumption DEF Defaults, Config
<1> QED
    BY <1>1 DEF InForce, TypeOK

(* Whatever load returns is a configuration with the version in force, and *)
(* exactly the configuration in force on a host that is not slow.          *)
LEMMA LoadsType ==
    ASSUME TypeOK, NEW cfg \in Loads
    PROVE  /\ cfg \in Config
           /\ ~slow => cfg = InForce
<1>1. CASE slow /\ stored # NoConfig
    <2>1. stored \in Config
        BY <1>1 DEF TypeOK
    <2>2. PICK ps \in SUBSET stored.content.patterns :
             cfg = [stored EXCEPT !.content.patterns = ps]
        BY <1>1 DEF Loads
    <2> QED
        BY <2>1, <2>2, <1>1 DEF Config, Content
<1>2. CASE ~(slow /\ stored # NoConfig)
    BY <1>2, InForceType DEF Loads
<1> QED
    BY <1>1, <1>2

(* What a PUT saves is a configuration with the content it was sent.       *)
LEMMA SavedType ==
    ASSUME TypeOK, NEW a \in Admins
    PROVE  /\ Saved(a) \in Config
           /\ Saved(a).content = incoming[a].content
<1>1. incoming[a] \in Config /\ current[a] \in Int
    BY DEF TypeOK
<1>2. NextVersion(a) \in Int
    BY <1>1 DEF NextVersion, Larger, Config
<1> QED
    BY <1>1, <1>2 DEF Saved, Config

(* The initial state satisfies the strengthening.                          *)
LEMMA InitInv == Init => IInv
<1> SUFFICES ASSUME Init PROVE IInv
    OBVIOUS
<1>1. Defaults \in Config
    BY ConfigAssumption DEF Defaults, Config
<1>2. TypeOK
    BY <1>1, ConfigAssumption DEF Init, TypeOK
<1> QED
    BY <1>2 DEF Init, IInv, StoredIsValid, SnapshotIsValid, CarriesValid,
        Serving, CurrentIsInForce, AnswersInForce, PanelIsCurrent

-------------------------------------------------------------------------------
(* GET /config.                                                            *)
LEMMA FetchInv ==
    ASSUME IInv, NEW a \in Admins, Fetch(a)
    PROVE  IInv'
<1> USE DEF Fetch, IInv
<1>1. PICK cfg \in Loads :
         /\ shown' = [shown EXCEPT ![a] = cfg]
         /\ draft' = [draft EXCEPT ![a] = cfg]
    OBVIOUS
<1>2. cfg \in Config /\ (~slow => cfg = InForce)
    BY LoadsType
<1>3. InForce' = InForce
    BY DEF InForce
<1>4. TypeOK'
    BY <1>1, <1>2 DEF TypeOK
<1>5. PanelIsCurrent'
    BY <1>1, <1>2, <1>3 DEF PanelIsCurrent, TypeOK
<1>6. CarriesValid' /\ CurrentIsInForce' /\ AnswersInForce'
    BY <1>3 DEF TypeOK, CarriesValid, Serving, CurrentIsInForce,
        AnswersInForce
<1> QED
    BY <1>4, <1>5, <1>6 DEF StoredIsValid, SnapshotIsValid

(* An edit changes drafts only.                                            *)
LEMMA EditInv ==
    ASSUME IInv, NEW a \in Admins, Edit(a)
    PROVE  IInv'
<1> USE DEF Edit, IInv
<1>1. PICK content \in Content, v \in {1, draft[a].version} :
         draft' = [draft EXCEPT ![a] = [version |-> v, content |-> content]]
    OBVIOUS
<1>2. [version |-> v, content |-> content] \in Config
    BY DEF TypeOK, Config
<1>3. TypeOK'
    BY <1>1, <1>2 DEF TypeOK
<1> QED
    BY <1>3 DEF StoredIsValid, SnapshotIsValid, CarriesValid, Serving,
        CurrentIsInForce, AnswersInForce, PanelIsCurrent, InForce

(* A PUT is taken only if its content is valid.                            *)
LEMMA PutInv ==
    ASSUME IInv, NEW a \in Admins, Put(a)
    PROVE  IInv'
<1> USE DEF Put, IInv
<1>1. TypeOK'
    BY DEF TypeOK
<1>2. CarriesValid'
    BY DEF TypeOK, CarriesValid, Serving
<1>3. InForce' = InForce
    BY DEF InForce
<1>4. CurrentIsInForce' /\ AnswersInForce' /\ PanelIsCurrent'
    BY <1>3 DEF TypeOK, CurrentIsInForce, AnswersInForce, PanelIsCurrent
<1> QED
    BY <1>1, <1>2, <1>4 DEF StoredIsValid, SnapshotIsValid

(* The PUT's load sets the current version.                                *)
LEMMA PutLoadInv ==
    ASSUME IInv, NEW a \in Admins, PutLoad(a)
    PROVE  IInv'
<1> USE DEF PutLoad, IInv
<1>1. InForce.version \in Int
    BY InForceType DEF Config
<1>2. TypeOK'
    BY <1>1 DEF TypeOK
<1>3. CarriesValid'
    BY DEF TypeOK, CarriesValid, Serving
<1>4. InForce' = InForce
    BY DEF InForce
<1>5. CurrentIsInForce' /\ AnswersInForce' /\ PanelIsCurrent'
    BY <1>4 DEF TypeOK, CurrentIsInForce, AnswersInForce, PanelIsCurrent
<1> QED
    BY <1>2, <1>3, <1>5 DEF StoredIsValid, SnapshotIsValid

(* The PUT's save: everyone else is stale now.                             *)
LEMMA PutSaveInv ==
    ASSUME IInv, NEW a \in Admins, PutSave(a)
    PROVE  IInv'
<1> USE DEF PutSave, IInv
<1>1. Saved(a) \in Config /\ Saved(a).content = incoming[a].content
    BY SavedType
<1>2. IsValid(incoming[a].content)
    BY DEF CarriesValid, Serving
<1>3. TypeOK'
    BY <1>1 DEF TypeOK
<1>4. StoredIsValid' /\ SnapshotIsValid'
    BY <1>1, <1>2 DEF StoredIsValid, SnapshotIsValid
<1>5. CarriesValid'
    BY <1>1, <1>2 DEF TypeOK, CarriesValid, Serving
<1>6. Saved(a) # NoConfig
    BY <1>1, ConfigAssumption
<1>7. AnswersInForce'
    BY <1>6 DEF TypeOK, AnswersInForce, InForce
<1>8. CurrentIsInForce' /\ PanelIsCurrent'
    BY DEF TypeOK, CurrentIsInForce, PanelIsCurrent
<1> QED
    BY <1>3, <1>4, <1>5, <1>7, <1>8

(* The PUT's answer is what the panel shows.                               *)
LEMMA PutPublishInv ==
    ASSUME IInv, NEW a \in Admins, PutPublish(a)
    PROVE  IInv'
<1> USE DEF PutPublish, Answered, IInv
<1>1. TypeOK'
    BY InForceType DEF TypeOK
<1>2. InForce' = InForce
    BY DEF InForce
<1>3. CarriesValid'
    BY DEF TypeOK, CarriesValid, Serving
<1>4. CurrentIsInForce' /\ AnswersInForce'
    BY <1>2 DEF TypeOK, CurrentIsInForce, AnswersInForce
<1>5. PanelIsCurrent'
    BY <1>2 DEF TypeOK, PanelIsCurrent, AnswersInForce
<1> QED
    BY <1>1, <1>3, <1>4, <1>5 DEF StoredIsValid, SnapshotIsValid

(* A PUT that fails before, or without, or after its save.                 *)
LEMMA PutFailsInv ==
    ASSUME IInv, NEW a \in Admins, PutFails(a)
    PROVE  IInv'
<1> USE DEF PutFails, Answered, Fault, IInv
<1>0. faults' \in 0..MaxFaults
    BY ConfigAssumption DEF TypeOK
<1>1. CASE stale' = [stale EXCEPT ![a] = TRUE] /\ UNCHANGED stored
    <2>1. TypeOK'
        BY <1>0, <1>1, InForceType DEF TypeOK
    <2>2. InForce' = InForce
        BY <1>1 DEF InForce
    <2>3. CarriesValid'
        BY <1>1 DEF TypeOK, CarriesValid, Serving
    <2>4. CurrentIsInForce' /\ AnswersInForce' /\ PanelIsCurrent'
        BY <1>1, <2>2 DEF TypeOK, CurrentIsInForce, AnswersInForce,
            PanelIsCurrent
    <2> QED
        BY <1>1, <2>1, <2>3, <2>4 DEF StoredIsValid, SnapshotIsValid
<1>2. CASE /\ pc[a] = "save"
           /\ stored' = Saved(a)
           /\ stale' = [b \in Admins |-> TRUE]
    <2>1. Saved(a) \in Config /\ Saved(a).content = incoming[a].content
        BY SavedType
    <2>2. TypeOK'
        BY <1>0, <1>2, <2>1, InForceType DEF TypeOK
    <2>3. StoredIsValid' /\ SnapshotIsValid'
        BY <1>2, <2>1 DEF StoredIsValid, SnapshotIsValid, CarriesValid, Serving
    <2>4. CarriesValid'
        BY <1>2 DEF TypeOK, CarriesValid, Serving
    <2>5. CurrentIsInForce' /\ AnswersInForce' /\ PanelIsCurrent'
        BY <1>2 DEF TypeOK, CurrentIsInForce, AnswersInForce, PanelIsCurrent
    <2> QED
        BY <2>2, <2>3, <2>4, <2>5
<1> QED
    BY <1>1, <1>2

(* A snapshot is of what is stored.                                        *)
LEMMA RedisSavesInv ==
    ASSUME IInv, RedisSaves
    PROVE  IInv'
<1> USE DEF RedisSaves, IInv
<1>1. TypeOK'
    BY DEF TypeOK
<1>2. StoredIsValid' /\ SnapshotIsValid'
    BY DEF StoredIsValid, SnapshotIsValid
<1>3. CarriesValid'
    BY DEF CarriesValid, Serving
<1> QED
    BY <1>1, <1>2, <1>3 DEF CurrentIsInForce, AnswersInForce, PanelIsCurrent,
        InForce

(* A restart of Redis puts the last snapshot or the environment's          *)
(* configuration in force.                                                 *)
LEMMA RedisRestartsInv ==
    ASSUME IInv, RedisRestarts
    PROVE  IInv'
<1> USE DEF RedisRestarts, Fault, IInv
<1>1. TypeOK'
    BY ConfigAssumption DEF TypeOK
<1>2. StoredIsValid' /\ SnapshotIsValid'
    BY DEF StoredIsValid, SnapshotIsValid
<1>3. CarriesValid'
    BY DEF CarriesValid, Serving
<1> QED
    BY <1>1, <1>2, <1>3 DEF CurrentIsInForce, AnswersInForce, PanelIsCurrent

(* Every step preserves the strengthening.                                 *)
LEMMA StepInv == IInv /\ [Next]_vars => IInv'
<1> SUFFICES ASSUME IInv, [Next]_vars PROVE IInv'
    OBVIOUS
<1>1. ASSUME NEW a \in Admins, Fetch(a) PROVE IInv'
    BY <1>1, FetchInv
<1>2. ASSUME NEW a \in Admins, Edit(a) PROVE IInv'
    BY <1>2, EditInv
<1>3. ASSUME NEW a \in Admins, Put(a) PROVE IInv'
    BY <1>3, PutInv
<1>4. ASSUME NEW a \in Admins, PutLoad(a) PROVE IInv'
    BY <1>4, PutLoadInv
<1>5. ASSUME NEW a \in Admins, PutSave(a) PROVE IInv'
    BY <1>5, PutSaveInv
<1>6. ASSUME NEW a \in Admins, PutPublish(a) PROVE IInv'
    BY <1>6, PutPublishInv
<1>7. ASSUME NEW a \in Admins, PutFails(a) PROVE IInv'
    BY <1>7, PutFailsInv
<1>8. CASE RedisRestarts
    BY <1>8, RedisRestartsInv
<1>9. CASE RedisSaves
    BY <1>9, RedisSavesInv
<1>10. CASE UNCHANGED vars
    BY <1>10 DEF vars, IInv, TypeOK, StoredIsValid, SnapshotIsValid,
        CarriesValid, Serving, CurrentIsInForce, AnswersInForce,
        PanelIsCurrent, InForce
<1> QED
    BY <1>1, <1>2, <1>3, <1>4, <1>5, <1>6, <1>7, <1>8, <1>9, <1>10
        DEF Next, Serve

(* The strengthening is an invariant.                                      *)
THEOREM Invariance == Spec => []IInv
<1> QED
    BY InitInv, StepInv, PTL DEF Spec

-------------------------------------------------------------------------------
(* The store, the panels and the PUTs in progress always hold              *)
(* configurations (config_store.py, config.py, ConfigPanel.tsx).           *)
THEOREM TypeCorrect == Spec => []TypeOK
<1>1. IInv => TypeOK
    BY DEF IInv
<1> QED
    BY <1>1, Invariance, PTL

(* A stored configuration has ordered thresholds within 0..100             *)
(* (ConfigStore.validate before every save).                               *)
THEOREM StoredStaysValid == Spec => []StoredIsValid
<1>1. IInv => StoredIsValid
    BY DEF IInv
<1> QED
    BY <1>1, Invariance, PTL

(* incoming.version = max(current.version + 1, incoming.version) exceeds   *)
(* the version in force when nothing came between the load and the save.   *)
THEOREM SaveAdvances == Spec => []UndisturbedSaveAdvances
<1>1. ASSUME IInv, NEW a \in Admins, pc[a] = "save", ~stale[a]
      PROVE  NextVersion(a) > InForce.version
    <2>1. current[a] = InForce.version
        BY <1>1 DEF IInv, CurrentIsInForce
    <2>2. current[a] \in Int /\ incoming[a].version \in Int
        BY <1>1 DEF IInv, TypeOK, Config
    <2> QED
        BY <2>1, <2>2 DEF NextVersion, Larger
<1>2. IInv => UndisturbedSaveAdvances
    BY <1>1 DEF UndisturbedSaveAdvances
<1> QED
    BY <1>2, Invariance, PTL

(* A panel shows the configuration in force unless it changed behind the   *)
(* panel's back, its save failed or the host is slow.                      *)
THEOREM PanelShowsInForce == Spec => []PanelIsCurrent
<1>1. IInv => PanelIsCurrent
    BY DEF IInv
<1> QED
    BY <1>1, Invariance, PTL
===============================================================================
