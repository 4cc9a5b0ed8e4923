----------------------------- MODULE AtRestProofs -----------------------------
(***************************************************************************)
(* Proofs about AtRest, for any number of backends and restarts, any       *)
(* settings and keys and any values of earlier releases.                   *)
(***************************************************************************)
EXTENDS AtRest, TLAPS

(***************************************************************************)
(* Keys.                                                                   *)
(***************************************************************************)
\* A running process holds its settings' key, and they let it start.
Keyed ==
    \A b \in Backends : IsUp(b) =>
        /\ settings[b] \in Settings /\ Starts(settings[b])
        /\ \E n \in 1..MaxStarts : key[b] = KeyOf(settings[b], n)

\* What is stored was written by a release under its name.
Stored(values) ==
    \A n \in Names : values[n] # Nothing => Written(n, values[n])

LEMMA KeyOfType ==
    ASSUME NEW s \in Setting, Starts(s), NEW n \in 1..MaxStarts
    PROVE  KeyOf(s, n) \in Key /\ KeyOf(s, n) # Down
BY DEF Setting, Starts, KeyOf, Key, NoKey, Fresh, DataKey, NoDataKey, Malformed,
       Down

\* What a process seals has the type of a value and the form of this release.
LEMMA SealedType ==
    ASSUME TypeOK, Keyed, NEW b \in Backends, IsUp(b), NEW n \in Names,
           NEW content \in Content, n = "runtime_config" => content.items = {}
    PROVE  LET e == EncryptJson(key[b], n, content, Origin(b))
           IN  /\ e \in Envelope /\ e # Nothing /\ Written(n, e)
               /\ e.content = content
<1>1. PICK e : e = EncryptJson(key[b], n, content, Origin(b))
    OBVIOUS
<1>2. key[b] \in Key
    BY DEF TypeOK, IsUp
<1>3. settings[b] \in Setting /\ Starts(settings[b])
    BY AtRestAssumption DEF Keyed
<1>4. Origin(b) \in BOOLEAN \X Int
    <2>1. settings[b].encryption \in BOOLEAN
        BY <1>3 DEF Setting
    <2>2. settings[b].data \in Int
        <3>1. settings[b].data \in Keys \cup {NoDataKey, Malformed}
            BY <1>3 DEF Setting
        <3>2. Keys \subseteq Int /\ NoDataKey \in Int /\ Malformed \in Int
            BY AtRestAssumption DEF NoDataKey, Malformed
        <3> QED BY <3>1, <3>2
    <2>3. NoDataKey \in Int
        BY DEF NoDataKey
    <2>4. CASE settings[b].encryption
        BY <2>1, <2>2, <2>4 DEF Origin
    <2>5. CASE ~settings[b].encryption
        BY <2>1, <2>3, <2>5 DEF Origin
    <2> QED BY <2>4, <2>5
<1>5. e \in Envelope
    BY <1>1, <1>2, <1>4 DEF EncryptJson, Envelope, Algs, Labels
<1>6. e.content = content
    BY <1>1 DEF EncryptJson
<1>7. e # Nothing
    BY <1>1 DEF EncryptJson, Nothing
<1>8. Written(n, e)
    <2>1. PICK m \in 1..MaxStarts : key[b] = KeyOf(settings[b], m)
        BY DEF Keyed
    <2>2. CASE ~settings[b].encryption
        BY <1>1, <1>6, <2>1, <2>2, AtRestAssumption
        DEF EncryptJson, Written, KeyOf, Origin, NoKey
    <2>3. CASE settings[b].encryption
        <3>1. key[b] # NoKey
            BY <2>1, <2>3 DEF KeyOf, NoKey, Fresh, DataKey
        <3>2. /\ e.alg = "AES-256-GCM" /\ e.v = 3 /\ e.label = "aes-v3"
              /\ e.key = key[b] /\ e.aad = n
              /\ e.origin = <<settings[b].encryption, settings[b].data>>
            BY <1>1, <2>3, <3>1 DEF EncryptJson, Origin
        <3>3. \A k \in Keys : settings[b].data = k => key[b] = DataKey(k)
            BY <2>1, <2>3, AtRestAssumption DEF KeyOf, NoDataKey
        <3>4. <<e.alg, e.v, e.label>> \in Formats
            BY <3>2 DEF Formats
        <3>5. e.origin # <<FALSE, NoDataKey>>
            BY <2>3, <3>2
        <3>6. \A k \in Keys : e.origin = <<TRUE, k>> => settings[b].data = k
            BY <3>2
        <3> QED BY <1>6, <3>2, <3>3, <3>4, <3>5, <3>6 DEF Written
    <2> QED BY <1>3, <2>2, <2>3 DEF Setting
<1> QED BY <1>1, <1>5, <1>6, <1>7, <1>8

\* What a release wrote opens under the data key it was written with.
LEMMA WrittenOpens ==
    ASSUME NEW n \in Names, NEW e \in Envelope, Written(n, e),
           e.alg \in StoreEnvelopeAlgs,
           NEW k \in Keys, e.origin = <<TRUE, k>>
    PROVE  DecryptsJson(DataKey(k), e, n)
<1>1. /\ <<e.alg, e.v, e.label>> \in Formats
      /\ e.key = DataKey(k) /\ e.aad = n
    BY DEF Written, StoreEnvelopeAlgs
<1>2. e.alg # "none" /\ e.label = LabelFor(e)
    BY <1>1 DEF Formats, LabelFor
<1>3. DataKey(k) # NoKey
    BY DEF DataKey, NoKey
<1> QED BY <1>1, <1>2, <1>3 DEF DecryptsJson

\* A load gives content of the right type, or is refused.
LEMMA LoadType ==
    ASSUME TypeOK, NEW b \in Backends, NEW n \in Names
    PROVE  /\ Open(b, n) \in Content \cup {Refused}
           /\ Open(b, n) # Refused =>
                 /\ Open(b, n) \in Content
                 /\ Open(b, n) = IF redis[n] = Nothing THEN Defaults
                                 ELSE redis[n].content
<1>1. Defaults \in Content
    BY DEF Defaults, Content
<1>2. redis[n] # Nothing => redis[n].content \in Content
    BY DEF TypeOK, Value, Envelope
<1> QED BY <1>1, <1>2 DEF Open

-------------------------------------------------------------------------------
(***************************************************************************)
(* Types, keys and what is stored.                                         *)
(***************************************************************************)
Carries == \A b \in Backends : pc[b] \in {"merge", "announce"} => item[b] \in Items

Base == TypeOK /\ Keyed /\ Stored(redis) /\ Stored(snapshot) /\ Carries

LEMMA BaseInit == Init => Base
<1> SUFFICES ASSUME Init PROVE Base
    OBVIOUS
<1>1. TypeOK
    <2>1. redis \in [Names -> Value] /\ snapshot \in [Names -> Value]
        BY AtRestAssumption DEF Init, Value
    <2>2. \A b \in Backends : ~IsUp(b)
        BY DEF Init, IsUp
    <2>3. epoch \in 0..MaxEpoch /\ starts \in 0..MaxStarts
        BY AtRestAssumption DEF Init
    <2> QED BY <2>1, <2>2, <2>3 DEF Init, TypeOK
<1>2. Keyed
    BY DEF Init, Keyed, IsUp
<1>3. Stored(redis) /\ Stored(snapshot)
    BY AtRestAssumption DEF Init, Stored
<1>4. Carries
    BY DEF Init, Carries
<1> QED BY <1>1, <1>2, <1>3, <1>4 DEF Base

\* A save stores what a release writes, under one name.
LEMMA SaveType ==
    ASSUME Base, NEW b \in Backends, IsUp(b), NEW n \in Names,
           NEW content \in Content, n = "runtime_config" => content.items = {},
           Save(b, n, content)
    PROVE  /\ redis' \in [Names -> Value]
           /\ Stored(redis')
           /\ redis'[n] # Nothing /\ redis'[n].content = content
           /\ \A m \in Names : m # n => redis'[m] = redis[m]
<1>1. PICK e : e = EncryptJson(key[b], n, content, Origin(b))
    OBVIOUS
<1>2. e \in Envelope /\ e # Nothing /\ Written(n, e) /\ e.content = content
    BY <1>1, SealedType DEF Base
<1>3. redis' = [redis EXCEPT ![n] = e]
    BY <1>1 DEF Save
<1>4. redis \in [Names -> Value]
    BY DEF Base, TypeOK
<1> QED BY <1>2, <1>3, <1>4 DEF Base, Stored, Value

\* The request is over.
LEMMA OverType ==
    ASSUME TypeOK, NEW b \in Backends, Over(b)
    PROVE  /\ pc' \in [Backends -> {"idle", "put", "merge", "announce"}]
           /\ current' \in [Backends -> Nat]
           /\ item' \in [Backends -> Items \cup {NoItem}]
           /\ born' \in [Backends -> Nat]
           /\ pc'[b] = "idle" /\ \A c \in Backends : c # b =>
                 pc'[c] = pc[c] /\ current'[c] = current[c]
                 /\ item'[c] = item[c] /\ born'[c] = born[c]
BY DEF TypeOK, Over

\* What only requests of a running process change.
LEMMA KeptKeys ==
    ASSUME Base, UNCHANGED <<settings, key>>
    PROVE  /\ Keyed'
           /\ \A b \in Backends : IsUp(b) =>
                 \E n \in 1..MaxStarts : /\ key'[b] = KeyOf(settings'[b], n)
                                         /\ key'[b] = Fresh(n) => IsLocal(settings'[b])
           /\ \A b \in Backends : IsUp(b)' <=> IsUp(b)
<1>1. \A b \in Backends : IsUp(b)' <=> IsUp(b)
    BY DEF IsUp
<1> QED BY <1>1 DEF Base, TypeOK, Keyed

LEMMA BaseStart ==
    ASSUME Base, NEW b \in Backends, NEW s \in Settings, Start(b, s)
    PROVE  Base'
<1>1. s \in Setting /\ MaxStarts \in Nat
    BY AtRestAssumption
<1>2. starts' \in 1..MaxStarts
    BY <1>1 DEF Base, TypeOK, Start
<1>3. /\ settings' = [settings EXCEPT ![b] = IF Starts(s) THEN s ELSE NotRunning]
      /\ key' = [key EXCEPT ![b] = IF Starts(s) THEN KeyOf(s, starts') ELSE Down]
      /\ UNCHANGED <<redis, snapshot, announced, slow, epoch>>
      /\ raced' = [raced EXCEPT ![b] = FALSE]
      /\ Over(b)
    BY DEF Start
<1>4. Starts(s) => KeyOf(s, starts') \in Key /\ KeyOf(s, starts') # Down
    BY <1>1, <1>2, KeyOfType
<1>5. /\ settings' \in [Backends -> Settings \cup {NotRunning}]
      /\ key' \in [Backends -> Key \cup {Down}]
    BY <1>3, <1>4 DEF Base, TypeOK
<1>6. \A c \in Backends : c # b => key'[c] = key[c] /\ settings'[c] = settings[c]
    BY <1>3 DEF Base, TypeOK
<1>7. IsUp(b)' => /\ Starts(s) /\ settings'[b] = s
                  /\ key'[b] = KeyOf(s, starts')
    BY <1>3 DEF Base, TypeOK, IsUp
<1>8. Keyed'
    BY <1>2, <1>6, <1>7 DEF Base, Keyed, IsUp
<1>9. \A c \in Backends : IsUp(c)' =>
          \E n \in 1..MaxStarts : /\ key'[c] = KeyOf(settings'[c], n)
                                  /\ key'[c] = Fresh(n) => IsLocal(settings'[c])
    <2>1. Starts(s) /\ KeyOf(s, starts') = Fresh(starts') => IsLocal(s)
        BY <1>1 DEF Starts, KeyOf, NoKey, Fresh, DataKey, Setting
    <2>2. \A c \in Backends : c # b => (IsUp(c)' <=> IsUp(c))
        BY <1>6 DEF IsUp
    <2> QED BY <1>2, <1>6, <1>7, <2>1, <2>2 DEF Base, TypeOK
<1>10. \A c \in Backends : pc'[c] # "idle" => IsUp(c)'
    BY <1>3, <1>6, OverType DEF Base, TypeOK, IsUp
<1>11. TypeOK'
    BY <1>1, <1>2, <1>3, <1>5, <1>9, <1>10, OverType DEF Base, TypeOK
<1>12. Carries'
    BY <1>3, OverType DEF Base, Carries
<1> QED BY <1>3, <1>8, <1>11, <1>12 DEF Base, Stored

LEMMA BasePutLoad ==
    ASSUME Base, NEW b \in Backends, PutLoad(b)
    PROVE  Base'
<1>1. /\ UNCHANGED <<redis, snapshot, settings, key, item, announced, slow, born, epoch,
                     starts>>
      /\ pc' = [pc EXCEPT ![b] = "put"] /\ IsUp(b)
      /\ raced' = [raced EXCEPT ![b] = FALSE]
      /\ current' = [current EXCEPT ![b] = Open(b, "runtime_config").version]
    BY DEF PutLoad
<1>2. Open(b, "runtime_config").version \in Nat
    <2>1. "runtime_config" \in Names
        BY DEF Names
    <2>2. Open(b, "runtime_config") \in Content
        BY <2>1, LoadType DEF Base, PutLoad
    <2> QED BY <2>2 DEF Content
<1>3. current' \in [Backends -> Nat]
    BY <1>1, <1>2 DEF Base, TypeOK
<1>4. \A c \in Backends : pc'[c] # "idle" => IsUp(c)'
    BY <1>1, KeptKeys DEF Base, TypeOK
<1>5. TypeOK'
    BY <1>1, <1>3, <1>4, KeptKeys DEF Base, TypeOK
<1>6. Carries'
    BY <1>1 DEF Base, TypeOK, Carries
<1> QED BY <1>1, <1>5, <1>6, KeptKeys DEF Base, Stored

LEMMA BasePutSave ==
    ASSUME Base, NEW b \in Backends, PutSave(b)
    PROVE  Base'
<1> DEFINE content == [version |-> current[b] + 1, items |-> {}]
<1>1. /\ UNCHANGED <<snapshot, settings, key, announced, slow, epoch, starts>>
      /\ Save(b, "runtime_config", content) /\ Over(b) /\ IsUp(b)
      /\ raced' \in [Backends -> BOOLEAN]
    BY DEF PutSave, Base, TypeOK
<1>2. content \in Content /\ "runtime_config" \in Names /\ content.items = {}
    BY DEF Base, TypeOK, Content, Names
<1> HIDE DEF content
<1>3. redis' \in [Names -> Value] /\ Stored(redis')
    BY <1>1, <1>2, SaveType
<1>4. \A c \in Backends : pc'[c] # "idle" => IsUp(c)'
    BY <1>1, KeptKeys, OverType DEF Base, TypeOK
<1>5. TypeOK'
    BY <1>1, <1>3, <1>4, KeptKeys, OverType DEF Base, TypeOK
<1>6. Carries'
    BY <1>1, OverType DEF Base, Carries
<1> QED BY <1>1, <1>3, <1>5, <1>6, KeptKeys DEF Base, Stored

LEMMA BaseAnalyze ==
    ASSUME Base, NEW b \in Backends, Analyze(b)
    PROVE  Base'
<1>1. /\ UNCHANGED <<redis, snapshot, settings, key, current, announced, slow, raced,
                     born, epoch, starts>>
      /\ pc' = [pc EXCEPT ![b] = "merge"] /\ IsUp(b)
    BY DEF Analyze
<1>2. PICK i \in Items : item' = [item EXCEPT ![b] = i]
    BY DEF Analyze
<1>3. \A c \in Backends : pc'[c] # "idle" => IsUp(c)'
    BY <1>1, KeptKeys DEF Base, TypeOK
<1>4. TypeOK'
    BY <1>1, <1>2, <1>3, KeptKeys DEF Base, TypeOK
<1>5. Carries'
    BY <1>1, <1>2 DEF Base, TypeOK, Carries
<1> QED BY <1>1, <1>4, <1>5, KeptKeys DEF Base, Stored

\* What TrailInOrder of Pipeline and AnnouncedIsStored say of an announced
\* item: it is in the list, or the list is full, or hosts are slow.
Held(i, items) == i \in items \/ IsFull(items) \/ slow

\* A merge holds its item, keeps what was held and drops nothing in time.
LEMMA GrownHolds ==
    ASSUME NEW items, NEW kept \in Decoded(items), NEW i
    PROVE  /\ Held(i, Grown(kept, i))
           /\ \A j : Held(j, items) => Held(j, Grown(kept, i))
           /\ slow \/ items \subseteq Grown(kept, i)
<1>1. CASE slow
    BY <1>1 DEF Held
<1>2. CASE ~slow /\ IsFull(items)
    BY <1>2 DEF Held, Decoded, Grown
<1>3. CASE ~slow /\ ~IsFull(items)
    BY <1>3 DEF Held, Decoded, Grown
<1> QED BY <1>1, <1>2, <1>3

\* A merge stores the next version of what it loaded, with its item if there
\* is room.
LEMMA MergeType ==
    ASSUME Base, NEW b \in Backends, Merge(b),
           NEW kept \in Decoded(Open(b, "dynamic_rules").items)
    PROVE  /\ Open(b, "dynamic_rules") \in Content
           /\ [version |-> Open(b, "dynamic_rules").version + 1,
               items |-> Grown(kept, item[b])] \in Content
           /\ "dynamic_rules" \in Names /\ item[b] \in Items
           /\ IsUp(b)
<1>1. "dynamic_rules" \in Names
    BY DEF Names
<1>2. Open(b, "dynamic_rules") \in Content
    BY <1>1, LoadType DEF Base, Merge
<1>3. item[b] \in Items /\ IsUp(b)
    BY DEF Base, Carries, Merge, TypeOK
<1>4. Grown(kept, item[b]) \subseteq Items
    BY <1>2, <1>3 DEF Content, Decoded, Grown
<1> QED BY <1>1, <1>2, <1>3, <1>4 DEF Content

LEMMA BaseMerge ==
    ASSUME Base, NEW b \in Backends, Merge(b)
    PROVE  Base'
<1>1. PICK dyn : dyn = Open(b, "dynamic_rules")
    OBVIOUS
<1>0. PICK kept \in Decoded(dyn.items) :
         Save(b, "dynamic_rules", [version |-> dyn.version + 1,
                                   items |-> Grown(kept, item[b])])
    BY <1>1 DEF Merge
<1>2. PICK content : content = [version |-> dyn.version + 1,
                                items |-> Grown(kept, item[b])]
    OBVIOUS
<1>3. /\ UNCHANGED <<snapshot, settings, key, item, announced, slow, raced, epoch,
                     starts>>
      /\ Save(b, "dynamic_rules", content)
      /\ current' = [current EXCEPT ![b] = dyn.version + 1]
      /\ born' = [born EXCEPT ![b] = epoch]
      /\ pc[b] = "merge" /\ pc' = [pc EXCEPT ![b] = "announce"]
    BY <1>0, <1>1, <1>2 DEF Merge
<1>4. content \in Content /\ dyn.version \in Nat /\ "dynamic_rules" \in Names
      /\ IsUp(b)
    BY <1>0, <1>1, <1>2, MergeType DEF Content
<1>5. redis' \in [Names -> Value] /\ Stored(redis')
    BY <1>3, <1>4, SaveType
<1>6. \A c \in Backends : pc'[c] # "idle" => IsUp(c)'
    BY <1>3, KeptKeys DEF Base, TypeOK
<1>7. current' \in [Backends -> Nat] /\ born' \in [Backends -> Nat]
    BY <1>3, <1>4 DEF Base, TypeOK
<1>8. TypeOK'
    BY <1>3, <1>5, <1>6, <1>7, KeptKeys DEF Base, TypeOK
<1>9. Carries'
    BY <1>3 DEF Base, TypeOK, Carries
<1> QED BY <1>3, <1>5, <1>8, <1>9, KeptKeys DEF Base, Stored

\* The request ends, with its event or without.
LEMMA BaseEnds ==
    ASSUME Base, NEW b \in Backends, MergeEnds(b) \/ Announce(b)
    PROVE  Base'
<1>1. /\ UNCHANGED <<redis, snapshot, settings, key, slow, raced, epoch, starts>>
      /\ Over(b)
    BY DEF MergeEnds, Announce
<1>2. announced' \subseteq [version : Nat, item : Items, epoch : Nat]
    <2>1. CASE MergeEnds(b)
        BY <2>1 DEF MergeEnds, Base, TypeOK
    <2>2. CASE Announce(b)
        BY <2>2 DEF Announce, Base, TypeOK, Carries
    <2> QED BY <2>1, <2>2
<1>3. \A c \in Backends : pc'[c] # "idle" => IsUp(c)'
    BY <1>1, KeptKeys, OverType DEF Base, TypeOK
<1>4. TypeOK'
    BY <1>1, <1>2, <1>3, KeptKeys, OverType DEF Base, TypeOK
<1>5. Carries'
    BY <1>1, OverType DEF Base, Carries
<1> QED BY <1>1, <1>4, <1>5, KeptKeys DEF Base, Stored

LEMMA BaseScan ==
    ASSUME Base, NEW b \in Backends, Scan(b)
    PROVE  Base'
<1>1. /\ UNCHANGED <<snapshot, settings, key, pc, current, item, announced, slow, raced,
                     born, epoch, starts>>
      /\ Save(b, "kernel_status", Defaults) /\ IsUp(b)
    BY DEF Scan
<1>2. Defaults \in Content /\ "kernel_status" \in Names
    BY DEF Defaults, Content, Names
<1>3. redis' \in [Names -> Value] /\ Stored(redis')
    BY <1>1, <1>2, SaveType
<1>4. TypeOK'
    BY <1>1, <1>3, KeptKeys DEF Base, TypeOK
<1> QED BY <1>1, <1>3, <1>4, KeptKeys DEF Base, Stored, Carries

LEMMA BaseRedis ==
    ASSUME Base, RedisSaves \/ RedisRestarts
    PROVE  Base'
<1>1. UNCHANGED <<settings, key, pc, current, item, announced, slow, born,
                starts>>
    BY DEF RedisSaves, RedisRestarts
<1>2. /\ redis' \in [Names -> Value] /\ snapshot' \in [Names -> Value]
      /\ Stored(redis') /\ Stored(snapshot')
    <2>1. [n \in Names |-> Nothing] \in [Names -> Value]
          /\ Stored([n \in Names |-> Nothing])
        BY DEF Value, Stored
    <2> QED BY <2>1 DEF Base, TypeOK, RedisSaves, RedisRestarts
<1>3. raced' \in [Backends -> BOOLEAN] /\ epoch' \in 0..MaxEpoch
    <2>1. epoch \in 0..MaxEpoch /\ MaxEpoch \in Nat
        BY AtRestAssumption DEF Base, TypeOK
    <2>2. epoch' \in 0..MaxEpoch
        BY <2>1 DEF RedisSaves, RedisRestarts
    <2>3. raced' \in [Backends -> BOOLEAN]
        BY DEF Base, TypeOK, RedisSaves, RedisRestarts
    <2> QED BY <2>2, <2>3
<1>4. TypeOK'
    BY <1>1, <1>2, <1>3, KeptKeys DEF Base, TypeOK
<1> QED BY <1>1, <1>2, <1>4, KeptKeys DEF Base, Stored, Carries

LEMMA BaseNext == Base /\ [Next]_vars => Base'
<1> SUFFICES ASSUME Base, [Next]_vars PROVE Base'
    OBVIOUS
<1>1. ASSUME NEW b \in Backends, Serve(b) PROVE Base'
    BY <1>1, BasePutLoad, BasePutSave, BaseAnalyze, BaseMerge, BaseEnds, BaseScan
    DEF Serve
<1>2. CASE UNCHANGED vars
    <2>1. UNCHANGED <<settings, key>>
        BY <1>2 DEF vars
    <2>2. TypeOK'
        BY <1>2, <2>1, KeptKeys DEF Base, TypeOK, vars
    <2> QED BY <1>2, <2>1, <2>2, KeptKeys DEF Base, Stored, Carries, vars
<1> QED
    BY <1>1, <1>2, BaseStart, BaseRedis DEF Next

LEMMA BaseInvariant == Spec => []Base
BY BaseInit, BaseNext, PTL DEF Spec

(***************************************************************************)
(* The types, and the key a running process holds.                         *)
(***************************************************************************)
THEOREM TypeCorrect == Spec => []TypeOK
<1>1. Base => TypeOK
    BY DEF Base
<1> QED BY <1>1, BaseInvariant, PTL

(***************************************************************************)
(* Data outlives restarts: what a configuration wrote opens to every       *)
(* process of that configuration, but for a key that was made up locally.  *)
(***************************************************************************)
THEOREM KeyKeepsDataHolds == Spec => []KeyKeepsData
<1>1. ASSUME Base PROVE KeyKeepsData
    <2> SUFFICES ASSUME NEW b \in Backends, NEW n \in Names, IsUp(b),
                        redis[n] # Nothing, redis[n].origin = Origin(b),
                        IsLocal(settings[b]) =>
                            redis[n].origin # <<TRUE, NoDataKey>>
                 PROVE  Open(b, n) # Refused
        BY DEF KeyKeepsData
    <2>1. redis[n] \in Envelope /\ Written(n, redis[n])
        BY <1>1 DEF Base, TypeOK, Stored, Value
    <2>2. redis[n].content # Refused
        BY <2>1 DEF Envelope, Content, Refused
    <2>3. /\ settings[b] \in Setting /\ Starts(settings[b])
          /\ \E m \in 1..MaxStarts : key[b] = KeyOf(settings[b], m)
        BY <1>1, AtRestAssumption DEF Base, Keyed
    <2>4. CASE ~settings[b].encryption
        <3>1. redis[n].origin = <<FALSE, NoDataKey>> /\ key[b] = NoKey
            BY <2>3, <2>4 DEF Origin, KeyOf, Setting
        <3>2. redis[n].alg \in {"none", "absent"}
            BY <2>1, <3>1 DEF Written
        <3> QED BY <2>2, <3>1, <3>2 DEF Open, DecryptsJson, StoreEnvelopeAlgs
    <2>5. CASE settings[b].encryption
        <3>1. redis[n].origin = <<TRUE, settings[b].data>>
            BY <2>3, <2>5 DEF Origin, Setting
        <3>2. settings[b].data \in Keys
            BY <2>3, <2>5, <3>1 DEF Setting, Starts
        <3>3. key[b] = DataKey(settings[b].data)
            BY <2>3, <2>5, <3>2, AtRestAssumption DEF KeyOf, NoDataKey
        <3>4. redis[n].alg \in StoreEnvelopeAlgs =>
                  DecryptsJson(key[b], redis[n], n)
            BY <2>1, <3>1, <3>2, <3>3, WrittenOpens
        <3> QED BY <2>2, <3>4 DEF Open
    <2> QED BY <2>3, <2>4, <2>5 DEF Setting
<1> QED BY <1>1, BaseInvariant, PTL

-------------------------------------------------------------------------------
(***************************************************************************)
(* What a PUT loaded is still what is stored, unless it was overtaken.     *)
(***************************************************************************)
PutIsCurrent ==
    \A b \in Backends :
        (pc[b] = "put" /\ ~raced[b]) =>
            /\ Open(b, "runtime_config") # Refused
            /\ redis["runtime_config"] # Nothing =>
                  current[b] = redis["runtime_config"].content.version

LEMMA PutIsCurrentKept ==
    ASSUME PutIsCurrent, UNCHANGED <<key, pc, current, raced>>,
           redis'["runtime_config"] = redis["runtime_config"]
    PROVE  PutIsCurrent'
BY DEF PutIsCurrent, Open, DecryptsJson

LEMMA PutIsCurrentNext == Base /\ PutIsCurrent /\ [Next]_vars => PutIsCurrent'
<1> SUFFICES ASSUME Base, PutIsCurrent, [Next]_vars PROVE PutIsCurrent'
    OBVIOUS
<1>1. ASSUME NEW b \in Backends, NEW s \in Settings, Start(b, s)
      PROVE  PutIsCurrent'
    <2>1. pc'[b] = "idle" /\ redis' = redis
        BY <1>1, OverType DEF Start, Base
    <2>2. \A c \in Backends : c # b =>
              /\ pc'[c] = pc[c] /\ current'[c] = current[c] /\ key'[c] = key[c]
              /\ raced'[c] = raced[c]
        BY <1>1, OverType DEF Start, Base, TypeOK
    <2> QED BY <2>1, <2>2 DEF PutIsCurrent, Open, DecryptsJson
<1>2. ASSUME NEW b \in Backends, PutLoad(b) PROVE PutIsCurrent'
    <2>1. /\ redis' = redis /\ key' = key
          /\ Open(b, "runtime_config") # Refused
          /\ current'[b] = Open(b, "runtime_config").version
          /\ \A c \in Backends : c # b =>
                /\ pc'[c] = pc[c] /\ current'[c] = current[c]
                /\ raced'[c] = raced[c]
        BY <1>2 DEF PutLoad, Base, TypeOK
    <2>2. redis["runtime_config"] # Nothing =>
              current'[b] = redis["runtime_config"].content.version
        <3>1. "runtime_config" \in Names
            BY DEF Names
        <3> QED BY <2>1, <3>1, LoadType DEF Base
    <2> QED BY <2>1, <2>2 DEF PutIsCurrent, Open, DecryptsJson
<1>3. ASSUME NEW b \in Backends, PutSave(b) PROVE PutIsCurrent'
    <2>1. \A c \in Backends : pc'[c] = "put" => raced'[c]
        BY <1>3, OverType DEF PutSave, Base
    <2> QED BY <2>1 DEF PutIsCurrent
<1>4. ASSUME NEW b \in Backends, Analyze(b) PROVE PutIsCurrent'
    BY <1>4 DEF Analyze, PutIsCurrent, Base, TypeOK, Open, DecryptsJson
<1>5. ASSUME NEW b \in Backends, Merge(b) PROVE PutIsCurrent'
    <2>1. redis'["runtime_config"] = redis["runtime_config"]
        BY <1>5 DEF Merge, Save, Base, TypeOK, Names
    <2>2. key' = key /\ raced' = raced /\ pc'[b] = "announce"
          /\ \A c \in Backends : c # b =>
                pc'[c] = pc[c] /\ current'[c] = current[c]
        BY <1>5 DEF Merge, Base, TypeOK
    <2> QED BY <2>1, <2>2 DEF PutIsCurrent, Open, DecryptsJson
<1>6. ASSUME NEW b \in Backends, MergeEnds(b) \/ Announce(b)
      PROVE  PutIsCurrent'
    <2>1. /\ redis' = redis /\ key' = key /\ raced' = raced /\ Over(b)
        BY <1>6 DEF MergeEnds, Announce
    <2>2. pc'[b] = "idle" /\ \A c \in Backends : c # b =>
              pc'[c] = pc[c] /\ current'[c] = current[c]
        BY <2>1, OverType DEF Base
    <2> QED BY <2>1, <2>2 DEF PutIsCurrent, Open, DecryptsJson
<1>7. ASSUME NEW b \in Backends, Scan(b) PROVE PutIsCurrent'
    <2>1. redis'["runtime_config"] = redis["runtime_config"]
        BY <1>7 DEF Scan, Save, Base, TypeOK, Names
    <2> QED BY <1>7, <2>1, PutIsCurrentKept DEF Scan
<1>8. CASE RedisSaves \/ UNCHANGED vars
    BY <1>8, PutIsCurrentKept DEF RedisSaves, vars
<1>9. CASE RedisRestarts
    BY <1>9 DEF RedisRestarts, PutIsCurrent
<1> QED
    BY <1>1, <1>2, <1>3, <1>4, <1>5, <1>6, <1>7, <1>8, <1>9 DEF Next, Serve

LEMMA PutInvariant == Spec => [](Base /\ PutIsCurrent)
<1>1. Init => PutIsCurrent
    BY DEF Init, PutIsCurrent
<1> QED BY <1>1, BaseInit, BaseNext, PutIsCurrentNext, PTL DEF Spec

\* Only a save of a configuration or of rules changes them while Redis is up.
LEMMA WhoSaves ==
    ASSUME Base, [Next]_vars,
           NEW n \in {"runtime_config", "dynamic_rules"},
           redis'[n] # redis[n], epoch' = epoch
    PROVE  \E b \in Backends :
              /\ \A c \in Backends : c # b => pc'[c] = pc[c]
              /\ pc'[b] # pc[b]
              /\ \/ n = "runtime_config" /\ PutSave(b)
                 \/ n = "dynamic_rules" /\ Merge(b)
<1> DEFINE Goal == \E b \in Backends :
              /\ \A c \in Backends : c # b => pc'[c] = pc[c]
              /\ pc'[b] # pc[b]
              /\ \/ n = "runtime_config" /\ PutSave(b)
                 \/ n = "dynamic_rules" /\ Merge(b)
<1>1. ASSUME NEW b \in Backends, PutSave(b) PROVE Goal
    <2>1. redis'["dynamic_rules"] = redis["dynamic_rules"]
        BY <1>1 DEF PutSave, Save, Base, TypeOK, Names
    <2>2. pc[b] = "put" /\ pc'[b] = "idle"
          /\ \A c \in Backends : c # b => pc'[c] = pc[c]
        BY <1>1, OverType DEF PutSave, Base
    <2> QED BY <1>1, <2>1, <2>2
<1>2. ASSUME NEW b \in Backends, Merge(b) PROVE Goal
    <2>1. redis'["runtime_config"] = redis["runtime_config"]
        BY <1>2 DEF Merge, Save, Base, TypeOK, Names
    <2>2. pc[b] = "merge" /\ pc'[b] = "announce"
          /\ \A c \in Backends : c # b => pc'[c] = pc[c]
        BY <1>2 DEF Merge, Base, TypeOK
    <2> QED BY <1>2, <2>1, <2>2
<1>3. ASSUME NEW b \in Backends, Scan(b) PROVE Goal
    <2>1. redis'[n] = redis[n]
        BY <1>3 DEF Scan, Save, Base, TypeOK, Names
    <2> QED BY <2>1
<1>4. ASSUME \/ \E b \in Backends :
                    \/ PutLoad(b) \/ Analyze(b) \/ MergeEnds(b) \/ Announce(b)
                    \/ \E s \in Settings : Start(b, s)
             \/ RedisSaves \/ UNCHANGED vars
      PROVE  Goal
    BY <1>4 DEF PutLoad, Analyze, MergeEnds, Announce, Start, RedisSaves, vars
<1>5. CASE RedisRestarts
    BY <1>5 DEF RedisRestarts, Base, TypeOK
<1> QED
    BY <1>1, <1>2, <1>3, <1>4, <1>5 DEF Next, Serve

\* A save of a PUT that was not overtaken, and every merge, builds on what is
\* stored, which it could open.
LEMMA SavesBuild ==
    ASSUME Base, PutIsCurrent, NEW b \in Backends,
           NEW n \in {"runtime_config", "dynamic_rules"},
           \/ n = "runtime_config" /\ PutSave(b) /\ ~raced[b]
           \/ n = "dynamic_rules" /\ Merge(b)
    PROVE  /\ Open(b, n) # Refused
           /\ n = "dynamic_rules" \/ redis[n] = Nothing
                 \/ current[b] = redis[n].content.version
<1>1. CASE n = "runtime_config" /\ PutSave(b) /\ ~raced[b]
    BY <1>1 DEF PutIsCurrent, PutSave
<1>2. CASE n = "dynamic_rules" /\ Merge(b)
    BY <1>2 DEF Merge
<1> QED BY <1>1, <1>2

(***************************************************************************)
(* No request replaces what its process cannot open.                       *)
(***************************************************************************)
THEOREM UnreadableStays == Spec => UnreadableIsKept
<1>1. ASSUME Base, PutIsCurrent, [Next]_vars,
             NEW b \in Backends, NEW n \in {"runtime_config", "dynamic_rules"},
             pc'[b] # pc[b], redis'[n] # redis[n], Open(b, n) = Refused
      PROVE  n = "runtime_config" /\ raced[b]
    <2>1. epoch' = epoch
        <3>1. ~RedisRestarts
            BY <1>1 DEF RedisRestarts
        <3> QED BY <1>1, <3>1
            DEF Next, Serve, PutLoad, PutSave, Analyze, Merge, MergeEnds,
                Announce, Scan, Start, RedisSaves, vars
    <2>2. PICK c \in Backends :
             /\ \A a \in Backends : a # c => pc'[a] = pc[a]
             /\ \/ n = "runtime_config" /\ PutSave(c)
                \/ n = "dynamic_rules" /\ Merge(c)
        BY <1>1, <2>1, WhoSaves
    <2>3. c = b
        BY <1>1, <2>2
    <2> QED BY <1>1, <2>2, <2>3, SavesBuild
<1>2. Base /\ PutIsCurrent /\ [Next]_vars =>
          [\A b \in Backends, n \in {"runtime_config", "dynamic_rules"} :
              (pc'[b] # pc[b] /\ redis'[n] # redis[n] /\ Open(b, n) = Refused) =>
                  n = "runtime_config" /\ raced[b]]_vars
    BY <1>1
<1> QED BY <1>2, PutInvariant, PTL DEF Spec, UnreadableIsKept

\* What a save leaves: the next version of what it loaded, with all its items
\* unless a host was slow.
LEMMA SaveBuildsOn ==
    ASSUME Base, PutIsCurrent, NEW b \in Backends,
           NEW n \in {"runtime_config", "dynamic_rules"}, redis[n] # Nothing,
           \/ n = "runtime_config" /\ PutSave(b) /\ ~raced[b]
           \/ n = "dynamic_rules" /\ Merge(b)
    PROVE  BuildsOn(redis'[n], redis[n])
<1>1. n \in Names
    BY DEF Names
<1>2. redis[n].content \in Content
    BY <1>1 DEF Base, TypeOK, Value, Envelope
<1>3. redis[n].content.version \in Nat
    BY <1>2 DEF Content
<1>4. CASE n = "runtime_config" /\ PutSave(b) /\ ~raced[b]
    <2>0. redis[n].content.items = {}
        BY <1>1, <1>4 DEF Base, Stored, Written
    <2>1. PICK content : content = [version |-> current[b] + 1, items |-> {}]
        OBVIOUS
    <2>2. content \in Content /\ content.version = current[b] + 1
          /\ content.items = {}
        BY <2>1 DEF Base, TypeOK, Content
    <2>3. redis'[n] # Nothing /\ redis'[n].content = content
        BY <1>1, <1>4, <2>1, <2>2, SaveType DEF PutSave, Base, TypeOK
    <2>4. current[b] = redis[n].content.version
        BY <1>4, SavesBuild
    <2> QED BY <1>3, <1>4, <2>0, <2>2, <2>3, <2>4 DEF BuildsOn
<1>5. CASE n = "dynamic_rules" /\ Merge(b)
    <2>1. PICK dyn : dyn = Open(b, "dynamic_rules")
        OBVIOUS
    <2>2. dyn = redis[n].content
        BY <1>1, <1>5, <2>1, LoadType DEF Base, Merge
    <2>0. PICK kept \in Decoded(dyn.items) :
             Save(b, n, [version |-> dyn.version + 1,
                         items |-> Grown(kept, item[b])])
        BY <1>5, <2>1 DEF Merge
    <2>3. PICK content : content = [version |-> dyn.version + 1,
                                    items |-> Grown(kept, item[b])]
        OBVIOUS
    <2>4. content \in Content /\ IsUp(b) /\ Save(b, n, content)
        BY <1>5, <2>0, <2>1, <2>3, MergeType
    <2>5. redis'[n] # Nothing /\ redis'[n].content = content
        BY <1>1, <1>5, <2>4, SaveType
    <2>6. content.version = dyn.version + 1
          /\ content.items = Grown(kept, item[b])
        BY <2>3
    <2>7. slow \/ dyn.items \subseteq content.items
        BY <2>0, <2>6, GrownHolds
    <2> QED BY <1>3, <2>2, <2>5, <2>6, <2>7 DEF BuildsOn
<1> QED BY <1>4, <1>5

(***************************************************************************)
(* What is saved builds on what is stored, whichever keys the processes    *)
(* came up with, but for a PUT that was overtaken: and at the cap a merge  *)
(* drops its own regex, never a stored one, unless a host is slow.         *)
(***************************************************************************)
THEOREM SavesBuildHolds == Spec => SavesBuildOnStored
<1>1. ASSUME Base, PutIsCurrent, [Next]_vars,
             NEW n \in {"runtime_config", "dynamic_rules"},
             epoch' = epoch, redis[n] # Nothing, redis'[n] # redis[n]
      PROVE  \/ BuildsOn(redis'[n], redis[n])
             \/ /\ n = "runtime_config"
                /\ \E b \in Backends : raced[b] /\ pc[b] # pc'[b]
    <2>1. PICK b \in Backends :
             /\ pc'[b] # pc[b]
             /\ \/ n = "runtime_config" /\ PutSave(b)
                \/ n = "dynamic_rules" /\ Merge(b)
        BY <1>1, WhoSaves
    <2>2. CASE n = "runtime_config" /\ raced[b]
        BY <2>1, <2>2
    <2>3. CASE ~(n = "runtime_config" /\ raced[b])
        BY <1>1, <2>1, <2>3, SaveBuildsOn
    <2> QED BY <2>2, <2>3
<1>2. Base /\ PutIsCurrent /\ [Next]_vars =>
          [\A n \in {"runtime_config", "dynamic_rules"} :
              (epoch' = epoch /\ redis[n] # Nothing /\ redis'[n] # redis[n]) =>
                  \/ BuildsOn(redis'[n], redis[n])
                  \/ /\ n = "runtime_config"
                     /\ \E b \in Backends : raced[b] /\ pc[b] # pc'[b]]_vars
    BY <1>1
<1> QED BY <1>2, PutInvariant, PTL DEF Spec, SavesBuildOnStored

-------------------------------------------------------------------------------
(***************************************************************************)
(* The announced rules.  What a merge saved and what events spoke of, of   *)
(* this epoch, is stored, and no version is saved twice in an epoch.       *)
(***************************************************************************)
AnnouncesStored ==
    \A b \in Backends : pc[b] = "announce" =>
        /\ born[b] <= epoch
        /\ born[b] = epoch =>
              /\ redis["dynamic_rules"] # Nothing
              /\ current[b] <= redis["dynamic_rules"].content.version
              /\ Held(item[b], redis["dynamic_rules"].content.items)
        /\ \A c \in Backends :
              (pc[c] = "announce" /\ born[c] = born[b] /\ current[c] = current[b])
                  => c = b
        /\ \A a \in announced : ~(a.epoch = born[b] /\ a.version = current[b])

Announced ==
    /\ AnnouncedIsStored
    /\ AnnouncesStored
    /\ \A a \in announced : a.epoch <= epoch

\* Steps that leave the rules alone and announce nothing.
LEMMA AnnouncedKept ==
    ASSUME Announced, UNCHANGED <<announced, slow, epoch>>,
           redis'["dynamic_rules"] = redis["dynamic_rules"],
           \A b \in Backends :
              pc'[b] = "announce" =>
                 /\ pc[b] = "announce" /\ born'[b] = born[b]
                 /\ current'[b] = current[b] /\ item'[b] = item[b]
    PROVE  Announced'
BY DEF Announced, AnnouncedIsStored, AnnouncesStored, Held, IsFull

LEMMA AnnouncedMerge ==
    ASSUME Base, PutIsCurrent, Announced, NEW b \in Backends, Merge(b)
    PROVE  Announced'
<1>1. PICK dyn : dyn = Open(b, "dynamic_rules")
    OBVIOUS
<1>0. PICK kept \in Decoded(dyn.items) :
         Save(b, "dynamic_rules", [version |-> dyn.version + 1,
                                   items |-> Grown(kept, item[b])])
    BY <1>1 DEF Merge
<1>2. PICK content : content = [version |-> dyn.version + 1,
                                items |-> Grown(kept, item[b])]
    OBVIOUS
<1>3. /\ UNCHANGED <<item, announced, slow, epoch>>
      /\ Save(b, "dynamic_rules", content)
      /\ current'[b] = dyn.version + 1 /\ born'[b] = epoch
      /\ pc'[b] = "announce"
      /\ \A c \in Backends : c # b =>
            pc'[c] = pc[c] /\ current'[c] = current[c] /\ born'[c] = born[c]
    BY <1>0, <1>1, <1>2 DEF Merge, Base, TypeOK
<1>4. /\ content \in Content /\ IsUp(b) /\ "dynamic_rules" \in Names
      /\ content.version = dyn.version + 1
      /\ dyn \in Content
    BY <1>0, <1>1, <1>2, MergeType
<1>20. /\ Held(item[b], content.items)
       /\ \A i : Held(i, dyn.items) => Held(i, content.items)
    BY <1>0, <1>2, GrownHolds
<1>5. redis'["dynamic_rules"] # Nothing
      /\ redis'["dynamic_rules"].content = content
    BY <1>3, <1>4, SaveType
<1>6. dyn.version \in Nat /\ epoch \in Nat
    BY <1>4, AtRestAssumption DEF Content, Base, TypeOK
<1>7. redis["dynamic_rules"] # Nothing => dyn = redis["dynamic_rules"].content
    BY <1>1, <1>4, LoadType DEF Base, Merge
<1>8. /\ \A a \in announced : a.version \in Nat
      /\ \A c \in Backends : current[c] \in Nat
    BY DEF Base, TypeOK
<1>9. \A a \in announced : a.epoch = epoch =>
          a.version <= dyn.version /\ Held(a.item, dyn.items)
    BY <1>7 DEF Announced, AnnouncedIsStored, Held
<1>10. \A c \in Backends : pc[c] = "announce" /\ born[c] = epoch =>
          current[c] <= dyn.version /\ Held(item[c], dyn.items)
    BY <1>7 DEF Announced, AnnouncesStored
<1>11. AnnouncedIsStored'
    <2>1. \A a \in announced : a.epoch = epoch =>
              a.version <= content.version /\ Held(a.item, content.items)
        BY <1>4, <1>6, <1>8, <1>9, <1>20
    <2> QED BY <1>3, <1>5, <2>1 DEF Announced, AnnouncedIsStored, Held, IsFull
<1>12. AnnouncesStored'
    <2> SUFFICES ASSUME NEW c \in Backends, pc'[c] = "announce"
                 PROVE  /\ born'[c] <= epoch
                        /\ born'[c] = epoch =>
                              /\ current'[c] <= content.version
                              /\ Held(item[c], content.items)
                        /\ \A d \in Backends :
                              (/\ pc'[d] = "announce" /\ born'[d] = born'[c]
                               /\ current'[d] = current'[c]) => d = c
                        /\ \A a \in announced :
                              ~(a.epoch = born'[c] /\ a.version = current'[c])
        BY <1>3, <1>5 DEF AnnouncesStored, Held, IsFull
    <2>1. CASE c = b
        <3>1. \A d \in Backends :
                 (/\ pc'[d] = "announce" /\ born'[d] = born'[c]
                  /\ current'[d] = current'[c]) => d = c
            BY <1>3, <1>6, <1>8, <1>10, <2>1
        <3>2. \A a \in announced :
                 ~(a.epoch = born'[c] /\ a.version = current'[c])
            BY <1>3, <1>6, <1>8, <1>9, <2>1
        <3> QED BY <1>3, <1>4, <1>6, <1>20, <2>1, <3>1, <3>2
    <2>2. CASE c # b
        <3>1. /\ pc[c] = "announce" /\ current'[c] = current[c]
              /\ born'[c] = born[c]
            BY <1>3, <2>2
        <3>2. born[c] = epoch =>
                  current[c] <= dyn.version /\ Held(item[c], dyn.items)
            BY <1>10, <3>1
        <3>3. born[c] = epoch =>
                  current[c] <= content.version /\ Held(item[c], content.items)
            BY <1>4, <1>6, <1>8, <1>20, <3>2
        <3>4. \A d \in Backends :
                 (/\ pc'[d] = "announce" /\ born'[d] = born[c]
                  /\ current'[d] = current[c]) => d = c
            BY <1>3, <1>6, <1>8, <2>2, <3>1, <3>2
               DEF Announced, AnnouncesStored
        <3> QED BY <3>1, <3>3, <3>4 DEF Announced, AnnouncesStored
    <2> QED BY <2>1, <2>2
<1> QED BY <1>3, <1>11, <1>12 DEF Announced

LEMMA AnnouncedAnnounce ==
    ASSUME Base, Announced, NEW b \in Backends, Announce(b)
    PROVE  Announced'
<1>1. PICK new : new = [version |-> current[b], item |-> item[b],
                        epoch |-> born[b]]
    OBVIOUS
<1>2. /\ UNCHANGED <<redis, slow, epoch>> /\ pc[b] = "announce"
      /\ announced' = announced \cup {new}
      /\ new.version = current[b] /\ new.item = item[b] /\ new.epoch = born[b]
    BY <1>1 DEF Announce
<1>3. pc'[b] = "idle" /\ \A c \in Backends : c # b =>
          pc'[c] = pc[c] /\ current'[c] = current[c]
          /\ item'[c] = item[c] /\ born'[c] = born[c]
    BY OverType DEF Announce, Base
<1>4. AnnouncedIsStored'
    BY <1>2 DEF Announced, AnnouncedIsStored, AnnouncesStored, Held, IsFull
<1>5. AnnouncesStored'
    BY <1>2, <1>3 DEF Announced, AnnouncesStored, Held, IsFull
<1> QED BY <1>2, <1>4, <1>5 DEF Announced, AnnouncesStored

LEMMA AnnouncedNext ==
    Base /\ PutIsCurrent /\ Announced /\ [Next]_vars => Announced'
<1> SUFFICES ASSUME Base, PutIsCurrent, Announced, [Next]_vars PROVE Announced'
    OBVIOUS
<1>1. ASSUME NEW b \in Backends, NEW s \in Settings, Start(b, s)
      PROVE  Announced'
    BY <1>1, OverType, AnnouncedKept DEF Start, Base
<1>2. ASSUME NEW b \in Backends, PutLoad(b) \/ Analyze(b) PROVE Announced'
    <2>1. UNCHANGED <<redis, announced, slow, epoch>>
        BY <1>2 DEF PutLoad, Analyze
    <2>2. \A c \in Backends : pc'[c] = "announce" =>
              /\ pc[c] = "announce" /\ born'[c] = born[c]
              /\ current'[c] = current[c] /\ item'[c] = item[c]
        BY <1>2 DEF PutLoad, Analyze, Base, TypeOK
    <2> QED BY <2>1, <2>2, AnnouncedKept
<1>3. ASSUME NEW b \in Backends, PutSave(b) PROVE Announced'
    <2>1. redis'["dynamic_rules"] = redis["dynamic_rules"]
        BY <1>3 DEF PutSave, Save, Base, TypeOK, Names
    <2> QED BY <1>3, <2>1, OverType, AnnouncedKept DEF PutSave, Base
<1>4. ASSUME NEW b \in Backends, MergeEnds(b) PROVE Announced'
    BY <1>4, OverType, AnnouncedKept DEF MergeEnds, Base
<1>5. ASSUME NEW b \in Backends, Scan(b) PROVE Announced'
    <2>1. redis'["dynamic_rules"] = redis["dynamic_rules"]
        BY <1>5 DEF Scan, Save, Base, TypeOK, Names
    <2> QED BY <1>5, <2>1, AnnouncedKept DEF Scan
<1>6. CASE RedisSaves \/ UNCHANGED vars
    BY <1>6, AnnouncedKept DEF RedisSaves, vars
<1>7. CASE RedisRestarts
    <2>1. UNCHANGED <<pc, current, item, announced, born>>
          /\ epoch' = epoch + 1 /\ epoch \in Nat
        BY <1>7, AtRestAssumption DEF RedisRestarts, Base, TypeOK
    <2>2. /\ \A a \in announced : a.epoch \in Nat /\ a.epoch <= epoch
          /\ \A b \in Backends : born[b] \in Nat
        BY DEF Announced, Base, TypeOK
    <2>3. \A a \in announced : a.epoch # epoch' /\ a.epoch <= epoch'
        BY <2>1, <2>2
    <2>4. \A b \in Backends : pc[b] = "announce" =>
              born[b] # epoch' /\ born[b] <= epoch'
        BY <2>1, <2>2 DEF Announced, AnnouncesStored
    <2>5. AnnouncedIsStored'
        BY <2>1, <2>3 DEF Announced, AnnouncedIsStored
    <2>6. AnnouncesStored'
        BY <2>1, <2>4 DEF Announced, AnnouncesStored
    <2> QED BY <2>1, <2>3, <2>5, <2>6 DEF Announced
<1> QED
    BY <1>1, <1>2, <1>3, <1>4, <1>5, <1>6, <1>7, AnnouncedMerge,
       AnnouncedAnnounce
    DEF Next, Serve

(***************************************************************************)
(* The regex an event speaks of stays stored until Redis restarts, unless  *)
(* the list is full or hosts are slow, and no two events announce one      *)
(* version.                                                                *)
(***************************************************************************)
THEOREM AnnouncedStays == Spec => []AnnouncedIsStored
<1>1. Init => Announced
    BY DEF Init, Announced, AnnouncedIsStored, AnnouncesStored
<1>2. Announced => AnnouncedIsStored
    BY DEF Announced
<1> QED BY <1>1, <1>2, BaseInit, BaseNext, PutInvariant, AnnouncedNext, PTL
    DEF Spec
===============================================================================
