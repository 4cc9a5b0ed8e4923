-------------------------------- MODULE AtRest --------------------------------
(***************************************************************************)
(* What the backend keeps in Redis, encrypted, across restarts of either:  *)
(* CryptoManager (backend/app/core/crypto.py) as used by ConfigStore,      *)
(* RulesStore and the kernel routes, and the key a process comes up with   *)
(* (create_app and _enforce_runtime_secrets of backend/app/main.py).       *)
(*                                                                         *)
(* A backend is one process serving one request at a time; two requests of *)
(* a process at once are two backends of equal settings.  merge_update is  *)
(* one step, which SelfHeal shows it to amount to.  Of a configuration or  *)
(* of rules, the content is the version and the items of one of the two    *)
(* lists, which grow and are cut each by itself.                           *)
(***************************************************************************)
EXTENDS Integers, FiniteSets

CONSTANTS
    Backends,
    Settings,       \* settings a backend may be started with: SUBSET Setting
    Keys,           \* well-formed data keys
    Items,          \* regexes self-healing may come to add
    Legacy,         \* what Redis may hold from earlier releases
    MaxRuleGrowth,  \* settings.self_heal_max_rule_growth
    MaxVersion,     \* bound: no save beyond this version
    MaxStarts,      \* bound: starts of backends
    MaxEpoch        \* bound: restarts of Redis

NoDataKey == 0
Malformed == -1

Setting == [env : {"local", "shared", "production"}, api : BOOLEAN,
            hmac : {"unset", "empty", "short", "ok"}, encryption : BOOLEAN,
            data : Keys \cup {NoDataKey, Malformed},
            transport : {"unset", "malformed", "ok"}]

VARIABLES
    redis,          \* the three values
    snapshot,       \* the values of Redis's last snapshot
    settings,       \* settings[b]: what b runs with
    key,            \* key[b]: the data key b runs with
    pc,             \* pc[b]: the await b's request is at
    current,        \* current[b]: the version b's PUT loaded or merge saved
    item,           \* item[b]: the regex of b's incident
    announced,      \* the self_heal.applied events
    slow,           \* whether the hosts may miss a regex probe's deadline
    raced,          \* history: the configuration changed since b loaded it
    born,           \* history: the epoch of b's merge
    epoch,          \* restarts of Redis so far
    starts          \* starts of backends so far

vars == <<redis, snapshot, settings, key, pc, current, item, announced, slow,
          raced, born, epoch, starts>>

Names   == {"runtime_config", "dynamic_rules", "kernel_status"}
Content == [version : Nat \ {0}, items : SUBSET Items]

NoItem == "none"
NotRunning == [env |-> "none"]

\* CryptoManager(None); a process that is not running; a generated key.
NoKey    == <<"off", 0>>
Down     == <<"down", 0>>
Fresh(n) == <<"fresh", n>>
DataKey(k) == <<"data", k>>
Key == {NoKey} \cup {Fresh(n) : n \in 1..MaxStarts}
          \cup {DataKey(k) : k \in Keys}

-------------------------------------------------------------------------------
(***************************************************************************)
(* CryptoManager.  An envelope opens with the subkeys it was sealed with;  *)
(* "aad" is the name it was sealed for.  "origin" is history: the          *)
(* encryption setting and data key of its writer.                          *)
(***************************************************************************)
Algs   == {"AES-256-GCM", "AES-256-GCM-DOUBLE", "none", "absent"}
Labels == {"none", "master", "inner-outer-v2", "aes-v3"}

Envelope == [alg : Algs, v : 0..3, label : Labels, key : Key, aad : Names,
             content : Content, origin : BOOLEAN \X Int]

Nothing == [alg |-> "nothing"]
Value   == Envelope \cup {Nothing}

EncryptJson(k, aad, content, origin) ==
    [alg |-> IF k = NoKey THEN "none" ELSE "AES-256-GCM",
     v |-> IF k = NoKey THEN 1 ELSE 3,
     label |-> IF k = NoKey THEN "none" ELSE "aes-v3",
     key |-> k, aad |-> aad, content |-> content, origin |-> origin]

\* Mutant of LabelFor: the double-layer format is not known any more.
LabelForNoV2(e) == IF e.v = 3 THEN "aes-v3" ELSE "master"

\* The subkey decrypt_json tries.
LabelFor(e) == IF e.alg = "AES-256-GCM-DOUBLE" \/ e.v = 2 THEN "inner-outer-v2"
               ELSE IF e.v = 3 THEN "aes-v3" ELSE "master"

DecryptsJson(k, e, aad) ==
    IF e.alg = "none" THEN k = NoKey
    ELSE k # NoKey /\ e.label = LabelFor(e) /\ e.key = k /\ e.aad = aad

(***************************************************************************)
(* What this release and earlier ones write under a name: with encryption  *)
(* off nothing sealed, under a data key an envelope of their format; and   *)
(* only rules have items.                                                  *)
(***************************************************************************)
Formats == {<<"AES-256-GCM", 1, "master">>,
            <<"AES-256-GCM-DOUBLE", 2, "inner-outer-v2">>,
            <<"AES-256-GCM", 3, "aes-v3">>}

Written(name, e) ==
    /\ name = "runtime_config" => e.content.items = {}
    /\ e.origin = <<FALSE, NoDataKey>> => e.alg \in {"none", "absent"}
    /\ \A k \in Keys :
          e.origin = <<TRUE, k>> =>
              \/ e.alg = "absent"
              \/ /\ <<e.alg, e.v, e.label>> \in Formats
                 /\ e.key = DataKey(k) /\ e.aad = name

ASSUME AtRestAssumption ==
    /\ Settings \subseteq Setting
    /\ Keys \subseteq Nat \ {0}
    /\ MaxRuleGrowth \in Nat
    /\ MaxVersion \in Nat /\ MaxStarts \in Nat /\ MaxEpoch \in Nat
    /\ Legacy \subseteq [Names -> Value]
    /\ \A redis0 \in Legacy : \A n \in Names :
          redis0[n] = Nothing
            \/ /\ Written(n, redis0[n])
               /\ Cardinality(redis0[n].content.items) <= MaxRuleGrowth

StoreEnvelopeAlgs == {"AES-256-GCM", "AES-256-GCM-DOUBLE", "none"}

Defaults == [version |-> 1, items |-> {}]
Refused  == [version |-> 0, items |-> {}]

\* Mutant of Open: decrypt_json in place of decrypt_json_required.
LoadOrDefaults(b, name) ==
    LET e == redis[name]
    IN  IF e = Nothing THEN Defaults
        ELSE IF e.alg \notin StoreEnvelopeAlgs THEN e.content
        ELSE IF DecryptsJson(key[b], e, name) THEN e.content
        ELSE Defaults

(***************************************************************************)
(* The loads of ConfigStore and RulesStore, and kernel_status: defaults    *)
(* (or "not scanned") without a value, the content as it is without an     *)
(* envelope, else what decrypts or an error (or "unavailable").            *)
(***************************************************************************)
Open(b, name) ==
    LET e == redis[name]
    IN  IF e = Nothing THEN Defaults
        ELSE IF e.alg \notin StoreEnvelopeAlgs THEN e.content
        ELSE IF DecryptsJson(key[b], e, name) THEN e.content
        ELSE Refused

-------------------------------------------------------------------------------
(***************************************************************************)
(* Startup.                                                                *)
(***************************************************************************)
IsLocal(s) == s.env = "local"

\* _enforce_runtime_secrets
Starts(s) ==
    /\ IsLocal(s) \/ s.api
    /\ s.env = "production" => s.hmac \notin {"unset", "empty"}
    /\ ~IsLocal(s) /\ s.encryption => s.data # NoDataKey
    /\ s.encryption => s.data # Malformed
    /\ s.transport # "malformed"
    /\ s.hmac \notin {"empty", "short"}

\* create_app: locally, a missing key is made up.
KeyOf(s, n) == IF ~s.encryption THEN NoKey
               ELSE IF s.data = NoDataKey THEN Fresh(n)
               ELSE DataKey(s.data)

IsUp(b) == key[b] # Down

Origin(b) == <<settings[b].encryption,
               IF settings[b].encryption THEN settings[b].data ELSE NoDataKey>>

Init ==
    /\ redis \in Legacy
    /\ snapshot = [n \in Names |-> Nothing]
    /\ settings = [b \in Backends |-> NotRunning]
    /\ key = [b \in Backends |-> Down]
    /\ pc = [b \in Backends |-> "idle"]
    /\ current = [b \in Backends |-> 0]
    /\ item = [b \in Backends |-> NoItem]
    /\ announced = {} /\ slow \in BOOLEAN
    /\ raced = [b \in Backends |-> FALSE]
    /\ born = [b \in Backends |-> 0]
    /\ epoch = 0 /\ starts = 0

\* The request of b is over, and with it what it held.
Over(b) ==
    /\ pc' = [pc EXCEPT ![b] = "idle"]
    /\ current' = [current EXCEPT ![b] = 0]
    /\ item' = [item EXCEPT ![b] = NoItem]
    /\ born' = [born EXCEPT ![b] = 0]

(***************************************************************************)
(* A process starts, or is started again with other settings; requests it  *)
(* was serving are gone.                                                   *)
(***************************************************************************)
Start(b, s) ==
    /\ starts < MaxStarts /\ starts' = starts + 1
    /\ settings' = [settings EXCEPT ![b] = IF Starts(s) THEN s ELSE NotRunning]
    /\ key' = [key EXCEPT ![b] = IF Starts(s) THEN KeyOf(s, starts') ELSE Down]
    /\ raced' = [raced EXCEPT ![b] = FALSE]
    /\ Over(b)
    /\ UNCHANGED <<redis, snapshot, announced, slow, epoch>>

-------------------------------------------------------------------------------
Save(b, name, content) ==
    redis' = [redis EXCEPT ![name] =
                 EncryptJson(key[b], name, content, Origin(b))]

\* Mutant of PutLoad: a configuration that does not open is started over.
PutLoadAnyway(b) ==
    /\ IsUp(b) /\ pc[b] = "idle"
    /\ current' = [current EXCEPT ![b] = Open(b, "runtime_config").version]
    /\ raced' = [raced EXCEPT ![b] = FALSE]
    /\ pc' = [pc EXCEPT ![b] = "put"]
    /\ UNCHANGED <<redis, snapshot, settings, key, item, announced, slow, born,
                   epoch, starts>>

\* PUT /config: load, or 503.
PutLoad(b) ==
    /\ IsUp(b) /\ pc[b] = "idle"
    /\ Open(b, "runtime_config") # Refused
    /\ current' = [current EXCEPT ![b] = Open(b, "runtime_config").version]
    /\ raced' = [raced EXCEPT ![b] = FALSE]
    /\ pc' = [pc EXCEPT ![b] = "put"]
    /\ UNCHANGED <<redis, snapshot, settings, key, item, announced, slow, born,
                   epoch, starts>>

\* Its save, of a body with the version loaded or a lower one.
PutSave(b) ==
    /\ pc[b] = "put" /\ current[b] < MaxVersion
    /\ Save(b, "runtime_config", [version |-> current[b] + 1, items |-> {}])
    /\ raced' = [c \in Backends |-> c # b /\ pc[c] = "put"]
    /\ Over(b)
    /\ UNCHANGED <<snapshot, settings, key, announced, slow, epoch, starts>>

\* An analysis that will end in self-healing: both loads, or 500.
Analyze(b) ==
    /\ IsUp(b) /\ pc[b] = "idle"
    /\ Open(b, "runtime_config") # Refused
    /\ Open(b, "dynamic_rules") # Refused
    /\ \E i \in Items : item' = [item EXCEPT ![b] = i]
    /\ pc' = [pc EXCEPT ![b] = "merge"]
    /\ UNCHANGED <<redis, snapshot, settings, key, current, announced, slow,
                   raced, born, epoch, starts>>

\* What rules decode to: an item whose probe misses its deadline is left out.
Decoded(items) == IF slow THEN SUBSET items ELSE {items}

IsFull(items) == Cardinality(items) >= MaxRuleGrowth

\* _build_patches appends, then cuts the list back to its oldest entries.
Grown(items, i) == IF IsFull(items) THEN items ELSE items \cup {i}

\* Mutant of Merge: rules that do not open are started over.
MergeAnyway(b) ==
    LET dyn == IF Open(b, "dynamic_rules") = Refused THEN Defaults
               ELSE Open(b, "dynamic_rules")
    IN  /\ pc[b] = "merge" /\ dyn.version < MaxVersion
        /\ \E kept \in Decoded(dyn.items) :
              /\ item[b] \notin kept
              /\ Save(b, "dynamic_rules", [version |-> dyn.version + 1,
                                           items |-> Grown(kept, item[b])])
        /\ current' = [current EXCEPT ![b] = dyn.version + 1]
        /\ born' = [born EXCEPT ![b] = epoch]
        /\ pc' = [pc EXCEPT ![b] = "announce"]
        /\ UNCHANGED <<snapshot, settings, key, item, announced, slow, raced,
                       epoch, starts>>

\* merge_update, with a regex that is new to the rules as decoded.
Merge(b) ==
    LET dyn == Open(b, "dynamic_rules")
    IN  /\ pc[b] = "merge" /\ dyn # Refused /\ dyn.version < MaxVersion
        /\ \E kept \in Decoded(dyn.items) :
              /\ item[b] \notin kept
              /\ Save(b, "dynamic_rules", [version |-> dyn.version + 1,
                                           items |-> Grown(kept, item[b])])
        /\ current' = [current EXCEPT ![b] = dyn.version + 1]
        /\ born' = [born EXCEPT ![b] = epoch]
        /\ pc' = [pc EXCEPT ![b] = "announce"]
        /\ UNCHANGED <<snapshot, settings, key, item, announced, slow, raced,
                       epoch, starts>>

\* Nothing new to merge; or the key no longer opens the rules: 500.
MergeEnds(b) ==
    /\ pc[b] = "merge"
    /\ \/ Open(b, "dynamic_rules") = Refused
       \/ item[b] \in Open(b, "dynamic_rules").items
    /\ Over(b)
    /\ UNCHANGED <<redis, snapshot, settings, key, announced, slow, raced,
                   epoch, starts>>

\* The self_heal.applied event.
Announce(b) ==
    /\ pc[b] = "announce"
    /\ announced' = announced \cup {[version |-> current[b], item |-> item[b],
                                     epoch |-> born[b]]}
    /\ Over(b)
    /\ UNCHANGED <<redis, snapshot, settings, key, slow, raced, epoch, starts>>

(***************************************************************************)
(* POST /scan/kernel: refused (503, 500) or, past the load of its          *)
(* thresholds, a new status that replaces the old one, whoever could read  *)
(* that.  (HostScan has its steps.)                                        *)
(***************************************************************************)
Scan(b) ==
    /\ IsUp(b) /\ pc[b] = "idle"
    /\ IsLocal(settings[b]) \/ settings[b].hmac # "unset"
    /\ Open(b, "runtime_config") # Refused
    /\ Save(b, "kernel_status", Defaults)
    /\ UNCHANGED <<snapshot, settings, key, pc, current, item, announced, slow,
                   raced, born, epoch, starts>>

-------------------------------------------------------------------------------
\* Redis saves a snapshot in the background (--appendonly no); of no interest
\* once it will not restart.
RedisSaves ==
    /\ epoch < MaxEpoch
    /\ snapshot # redis
    /\ snapshot' = redis
    /\ UNCHANGED <<redis, settings, key, pc, current, item, announced, slow,
                   raced, born, epoch, starts>>

\* Redis comes back with its last snapshot, or empty in a new container.
RedisRestarts ==
    /\ epoch < MaxEpoch /\ epoch' = epoch + 1
    /\ redis' \in {snapshot, [n \in Names |-> Nothing]}
    /\ snapshot' = redis'
    /\ raced' = [b \in Backends |-> pc[b] = "put"]
    /\ UNCHANGED <<settings, key, pc, current, item, announced, slow, born,
                   starts>>

Serve(b) == \/ PutLoad(b) \/ PutSave(b)
            \/ Analyze(b) \/ Merge(b) \/ MergeEnds(b) \/ Announce(b)
            \/ Scan(b)

Next == \/ \E b \in Backends : Serve(b) \/ \E s \in Settings : Start(b, s)
        \/ RedisSaves \/ RedisRestarts

Spec == Init /\ [][Next]_vars

-------------------------------------------------------------------------------
(***************************************************************************)
(* Types; and a running process holds no key but its settings' own, made   *)
(* up only locally.                                                        *)
(***************************************************************************)
TypeOK ==
    /\ redis \in [Names -> Value] /\ snapshot \in [Names -> Value]
    /\ settings \in [Backends -> Settings \cup {NotRunning}]
    /\ key \in [Backends -> Key \cup {Down}]
    /\ \A b \in Backends : IsUp(b) =>
          \E n \in 1..MaxStarts : /\ key[b] = KeyOf(settings[b], n)
                                  /\ key[b] = Fresh(n) => IsLocal(settings[b])
    /\ pc \in [Backends -> {"idle", "put", "merge", "announce"}]
    /\ \A b \in Backends : pc[b] # "idle" => IsUp(b)
    /\ current \in [Backends -> Nat]
    /\ item \in [Backends -> Items \cup {NoItem}]
    /\ announced \subseteq [version : Nat, item : Items, epoch : Nat]
    /\ slow \in BOOLEAN
    /\ raced \in [Backends -> BOOLEAN]
    /\ born \in [Backends -> Nat]
    /\ epoch \in 0..MaxEpoch /\ starts \in 0..MaxStarts

(***************************************************************************)
(* docs/security.md:99: what cannot be opened raises an error instead of   *)
(* being reset to the defaults.  So whichever key a process came up with,  *)
(* what it saves builds on what is stored: the version rises and no regex  *)
(* is dropped, but for a PUT during which another stored its own and for   *)
(* what a host that misses the deadline of the probes leaves out.          *)
(***************************************************************************)
BuildsOn(e, old) == /\ e # Nothing
                    /\ e.content.version > old.content.version
                    /\ slow \/ old.content.items \subseteq e.content.items

SavesBuildOnStored ==
    [][\A n \in {"runtime_config", "dynamic_rules"} :
          (epoch' = epoch /\ redis[n] # Nothing /\ redis'[n] # redis[n]) =>
              \/ BuildsOn(redis'[n], redis[n])
              \/ /\ n = "runtime_config"
                 /\ \E b \in Backends : raced[b] /\ pc[b] # pc'[b]]_vars

(***************************************************************************)
(* What was written under a process' own configuration (its data key, or   *)
(* encryption off) is readable to it, through restarts of both sides and   *)
(* whichever format it was written in; but locally the key may have been a *)
(* made-up one, which went with the process that wrote.                    *)
(***************************************************************************)
KeyKeepsData ==
    \A b \in Backends, n \in Names :
        (/\ IsUp(b) /\ redis[n] # Nothing /\ redis[n].origin = Origin(b)
         /\ IsLocal(settings[b]) => redis[n].origin # <<TRUE, NoDataKey>>) =>
            Open(b, n) # Refused

(***************************************************************************)
(* What the running key cannot open is not overwritten, so that the right  *)
(* key brings it back: no request replaces rules it cannot read, nor a     *)
(* configuration unless that was stored while its PUT was under way.       *)
(***************************************************************************)
UnreadableIsKept ==
    [][\A b \in Backends, n \in {"runtime_config", "dynamic_rules"} :
          (pc'[b] # pc[b] /\ redis'[n] # redis[n] /\ Open(b, n) = Refused) =>
              n = "runtime_config" /\ raced[b]]_vars

(***************************************************************************)
(* As long as Redis does not restart, whatever happens to the backends and *)
(* their keys, the regex a self_heal.applied event speaks of stays stored  *)
(* (unless the list is full, which cuts it after the patch was recorded,   *)
(* or a slow host left it out), and no two events announce the same        *)
(* version.                                                                *)
(***************************************************************************)
AnnouncedIsStored ==
    \A a \in announced :
        /\ a.epoch = epoch =>
              /\ redis["dynamic_rules"] # Nothing
              /\ a.version <= redis["dynamic_rules"].content.version
              /\ LET items == redis["dynamic_rules"].content.items
                 IN  a.item \in items \/ IsFull(items) \/ slow
        /\ \A c \in announced :
              a.epoch = c.epoch /\ a.version = c.version => a = c
===============================================================================
