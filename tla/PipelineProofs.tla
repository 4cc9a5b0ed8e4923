---------------------------- MODULE PipelineProofs ----------------------------
(***************************************************************************)
(* Proofs about Pipeline, for any requests, inputs, configurations and     *)
(* patterns and any number of changes and failures.                        *)
(*                                                                         *)
(* The properties are about what is in Redis and what a request decided;   *)
(* the strengthening says what its place in the code implies: Local for    *)
(* what it holds, Trail for what it has left by now, Explained for what    *)
(* its events say of it.  Adds and Leaves sum up what a write does, so     *)
(* that each step is argued once for all nine of them.                     *)
(***************************************************************************)
EXTENDS Pipeline, SequenceTheorems, TLAPS

Undecided(r) == pc[r] \in {"idle", "config", "received", "rules"}
Analyzing(r) == pc[r] \in {"rules", "push", "trim", "recorded", "detected",
                           "merge", "applied"}
Closing(r) == pc[r] \in {"decision", "status", "done"}

Local ==
    \A r \in Requests :
        /\ Active(r) => config \in seen[r]
        /\ pc[r] \in {"received", "rules"} \/ action[r] # "none" => cfg[r] \in seen[r]
        /\ Undecided(r) => action[r] = "none"
        /\ Undecided(r) \/ ~IsAnalyze(r) => known[r] = {}
        /\ action[r] # "none" =>
              action[r] = ActionFor(Score(r, known[r]), cfg[r].limits)
        /\ pc[r] \in {"push", "trim", "recorded", "detected", "merge", "applied",
                      "decision", "status", "done"} => action[r] # "none"
        /\ Analyzing(r) => IsAnalyze(r)
        /\ pc[r] \in {"detected", "merge", "applied"} => Heals(r)

(* What TrailInOrder says of an announced pattern.                         *)
Stored(r) == input[r].pattern \in rules \/ IsFull(rules) \/ slow

Trail ==
    \A r \in Requests :
        /\ Analyzing(r) \/ Closing(r) => Left(r, "received")
        /\ pc[r] \in {"trim", "recorded", "detected", "merge", "applied"} =>
              r \in Range(pushed)
        /\ Closing(r) /\ IsAnalyze(r) => r \in Range(pushed)
        /\ pc[r] \in {"detected", "merge", "applied"} => Left(r, "recorded")
        /\ Closing(r) /\ IsAnalyze(r) => Left(r, "recorded")
        /\ pc[r] \in {"merge", "applied"} => Left(r, "detected")
        /\ Closing(r) /\ IsAnalyze(r) /\ Heals(r) => Left(r, "detected")
        /\ pc[r] = "applied" => Stored(r)
        /\ pc[r] \in {"status", "done"} => Left(r, "decision")

Explained ==
    \A e \in events :
        /\ e.type # "received" => action[e.request] # "none"
        /\ e.type = "detected" => Heals(e.request)
        /\ e.type = "decision" => e.action = action[e.request]

(* Some incident reported the pattern.                                     *)
Taught(p) == \E q \in Requests : input[q].pattern = p /\ Left(q, "detected")

Fresh ==
    \A r \in Requests :
        /\ slow \/ before[r] \subseteq rules
        /\ IsAnalyze(r) /\ action[r] # "none" => slow \/ before[r] \subseteq known[r]
        /\ \A p \in known[r] : Taught(p)

IInv == TypeOK /\ Local /\ Trail /\ Explained /\ TrailInOrder /\ Fresh

(* What a write does, done or not: r adds at most what its place allows.   *)
Adds(r) ==
    /\ UNCHANGED <<config, slow>>
    /\ events \subseteq events'
    /\ Range(pushed) \subseteq Range(pushed')
    /\ \A e \in events' \ events :
          e.request = r /\ e.type = pc[r] /\ (pc[r] = "decision" => e.action = action[r])
    /\ \/ rules' = rules
       \/ /\ pc[r] = "merge"
          /\ \E d \in Decoded : Teaches(r, d) /\ rules' = Grown(r, d)
    /\ status' = status \/ (pc[r] = "status" /\ status' = r)
    /\ records' \in Seq(Requests) /\ pushed' \in Seq(Requests)
    /\ rules' \subseteq Pattern
    /\ events' \subseteq [type : {"received", "recorded", "detected", "applied",
                                  "decision"},
                          request : Requests, action : Action \union {"none"}]

(* What it leaves when it is done.                                         *)
Leaves(r, d) ==
    /\ pc[r] \in {"received", "recorded", "detected", "applied", "decision"} =>
          \E e \in events' : e.request = r /\ e.type = pc[r]
    /\ pc[r] = "push" => r \in Range(pushed')
    /\ pc[r] = "merge" /\ Teaches(r, d) => Stored(r)'

(* A decision that was taken stays.                                        *)
KeepsDecisions ==
    \A q \in Requests : action[q] # "none" => action'[q] = action[q]

-------------------------------------------------------------------------------
(* A record pushed at the front is in the list, with all earlier ones.     *)
LEMMA PushKeeps ==
    ASSUME NEW S, NEW s \in Seq(S), NEW x \in S
    PROVE  /\ <<x>> \o s \in Seq(S)
           /\ x \in Range(<<x>> \o s)
           /\ Range(s) \subseteq Range(<<x>> \o s)
<1>1. <<x>> \o s \in Seq(S) /\ Len(<<x>> \o s) = Len(s) + 1
    OBVIOUS
<1>2. DOMAIN (<<x>> \o s) = 1..(Len(s) + 1) /\ DOMAIN s = 1..Len(s)
    BY <1>1
<1>3. x \in Range(<<x>> \o s)
  <2>1. (<<x>> \o s)[1] = x /\ 1 \in 1..(Len(s) + 1)
      OBVIOUS
  <2> QED
      BY <1>2, <2>1 DEF Range
<1>4. ASSUME NEW i \in 1..Len(s)
      PROVE  s[i] \in Range(<<x>> \o s)
  <2>1. (<<x>> \o s)[i + 1] = s[i] /\ i + 1 \in 1..(Len(s) + 1)
      OBVIOUS
  <2> QED
      BY <1>2, <2>1 DEF Range
<1> QED
    BY <1>1, <1>2, <1>3, <1>4 DEF Range

(* Trimming a list gives a list of the same requests.                      *)
LEMMA TrimmedType ==
    ASSUME NEW S, NEW s \in Seq(S)
    PROVE  Trimmed(s) \in Seq(S)
BY PipelineAssumption DEF Trimmed

(* The actions of the ladder are the four actions.                         *)
LEMMA LadderType ==
    ASSUME NEW risk, NEW t
    PROVE  ActionFor(risk, t) \in Action /\ ActionFor(risk, t) # "none"
BY DEF ActionFor, Action

(* An enforced decision is the decision, once it is the ladder's.          *)
LEMMA EnforcedIsDecided ==
    ASSUME NEW risk, NEW t
    PROVE  Enforced(ActionFor(risk, t), risk, t) = ActionFor(risk, t)
BY DEF Enforced

(* Decoding returns stored patterns, all of them on a host in time.        *)
LEMMA DecodedType ==
    ASSUME NEW d \in Decoded
    PROVE  d \subseteq rules /\ (~slow => d = rules)
BY DEF Decoded

(* A published event is an event.                                          *)
LEMMA PublishAdds ==
    ASSUME TypeOK, NEW r \in Requests, NEW a \in Action \union {"none"},
           pc[r] \in {"received", "recorded", "detected", "applied", "decision"},
           pc[r] = "decision" => a = action[r],
           Publish(Event(pc[r], r, a)), UNCHANGED slow, NEW d
    PROVE  Adds(r) /\ Leaves(r, d)
<1> DEFINE e == Event(pc[r], r, a)
<1>1. e.type = pc[r] /\ e.request = r /\ e.action = a
    BY DEF Event
<1>2. e \in [type : {"received", "recorded", "detected", "applied", "decision"},
             request : Requests, action : Action \union {"none"}]
    BY DEF Event
<1>3. /\ events' = events \union {e}
      /\ UNCHANGED <<config, rules, records, status, pushed>>
    BY DEF Publish
<1> HIDE DEF e
<1>4. Adds(r)
    BY <1>1, <1>2, <1>3 DEF Adds, TypeOK
<1>5. Leaves(r, d)
    BY <1>1, <1>3 DEF Leaves
<1> QED
    BY <1>4, <1>5

(* Every write adds what its place allows, and leaves what it should.      *)
LEMMA WriteAdds ==
    ASSUME TypeOK, Local, NEW r \in Requests, NEW d \in Decoded, Write(r, d),
           UNCHANGED <<slow, input>>
    PROVE  Adds(r) /\ Leaves(r, d)
<1>1. CASE PublishReceived(r)
    BY <1>1, PublishAdds DEF PublishReceived
<1>2. CASE PushRecord(r)
  <2>1. /\ <<r>> \o records \in Seq(Requests)
        /\ <<r>> \o pushed \in Seq(Requests)
        /\ r \in Range(<<r>> \o pushed)
        /\ Range(pushed) \subseteq Range(<<r>> \o pushed)
      BY PushKeeps DEF TypeOK
  <2> QED
      BY <1>2, <2>1 DEF PushRecord, Adds, Leaves, TypeOK
<1>3. CASE TrimRecords(r)
  <2>1. Trimmed(records) \in Seq(Requests)
      BY TrimmedType DEF TypeOK
  <2> QED
      BY <1>3, <2>1 DEF TrimRecords, Adds, Leaves, TypeOK
<1>4. CASE PublishRecorded(r)
    BY <1>4, PublishAdds DEF PublishRecorded
<1>5. CASE PublishDetected(r)
    BY <1>5, PublishAdds DEF PublishDetected
<1>6. CASE MergeRules(r, d)
  <2>1. pc[r] = "merge" /\ UNCHANGED <<config, records, events, status, pushed>>
      BY <1>6 DEF MergeRules
  <2>2. rules' = IF Teaches(r, d) THEN Grown(r, d) ELSE rules
      BY <1>6 DEF MergeRules
  <2>3. rules' \subseteq Pattern
      BY <2>2, DecodedType DEF TypeOK, Grown, Teaches
  <2>4. Adds(r)
      BY <2>1, <2>2, <2>3 DEF Adds, TypeOK
  <2>5. Teaches(r, d) => Stored(r)'
    <3>1. CASE slow
        BY <3>1 DEF Stored
    <3>2. CASE ~slow /\ Teaches(r, d)
        BY <2>2, <3>2, DecodedType DEF Stored, Grown
    <3> QED
        BY <3>1, <3>2
  <2>6. Leaves(r, d)
      BY <2>1, <2>5 DEF Leaves
  <2> QED
      BY <2>4, <2>6
<1>7. CASE PublishApplied(r)
    BY <1>7, PublishAdds DEF PublishApplied
<1>8. CASE PublishDecision(r)
  <2>1. pc[r] = "decision"
      BY <1>8 DEF PublishDecision
  <2>2. action[r] = ActionFor(Score(r, known[r]), cfg[r].limits)
      BY <2>1 DEF Local
  <2>3. Publish(Event("decision", r, action[r]))
      BY <1>8, <2>2, EnforcedIsDecided DEF PublishDecision
  <2>4. action[r] \in Action \union {"none"}
      BY DEF TypeOK
  <2> QED
      BY <2>1, <2>3, <2>4, PublishAdds
<1>9. CASE SetStatus(r)
    BY <1>9 DEF SetStatus, Adds, Leaves, TypeOK
<1> QED
    BY <1>1, <1>2, <1>3, <1>4, <1>5, <1>6, <1>7, <1>8, <1>9 DEF Write

(* Nothing written adds nothing.                                           *)
LEMMA NothingAdds ==
    ASSUME TypeOK, NEW r, UNCHANGED <<stores, slow>>
    PROVE  Adds(r)
BY DEF stores, Adds, TypeOK

(* A write takes back no event of anyone, and gives r one of its place.    *)
LEMMA LeftKept ==
    ASSUME NEW r, Adds(r), NEW q, NEW t
    PROVE  /\ Left(q, t) => Left(q, t)'
           /\ Left(q, t)' => Left(q, t) \/ (q = r /\ t = pc[r])
BY DEF Adds, Left

(* What a write does to the rules: on a host in time it drops none, and    *)
(* changes nothing once the list is full; what it adds is r's pattern.     *)
LEMMA RulesKept ==
    ASSUME NEW r, Adds(r)
    PROVE  /\ ~slow => rules \subseteq rules'
           /\ ~slow /\ IsFull(rules) => rules' = rules
           /\ \A p \in rules' : p \in rules \/ (pc[r] = "merge" /\ p = input[r].pattern)
<1>1. CASE rules' = rules
    BY <1>1
<1>2. CASE pc[r] = "merge" /\ \E d \in Decoded : Teaches(r, d) /\ rules' = Grown(r, d)
  <2>1. PICK d \in Decoded : rules' = Grown(r, d)
      BY <1>2
  <2> QED
      BY <1>2, <2>1, DecodedType DEF Grown
<1> QED
    BY <1>1, <1>2 DEF Adds

(* So a stored pattern stays stored, in the sense of TrailInOrder.         *)
LEMMA StoredKept ==
    ASSUME NEW r, Adds(r), UNCHANGED input, NEW q, Stored(q)
    PROVE  Stored(q)'
<1>1. slow' = slow
    BY DEF Adds
<1>2. CASE slow
    BY <1>1, <1>2 DEF Stored
<1>3. CASE ~slow /\ IsFull(rules)
  <2>1. rules' = rules
      BY <1>3, RulesKept
  <2> QED
      BY <1>3, <2>1 DEF Stored, IsFull
<1>4. CASE ~slow /\ input[q].pattern \in rules
    BY <1>4, RulesKept DEF Stored
<1> QED
    BY <1>2, <1>3, <1>4 DEF Stored

(* What incidents taught they have taught for good.                        *)
LEMMA TaughtKept ==
    ASSUME NEW r, Adds(r), UNCHANGED input, NEW p, Taught(p)
    PROVE  Taught(p)'
BY LeftKept DEF Taught

(* What leaving an event means.                                            *)
LEMMA LeavesEvent ==
    ASSUME NEW r, NEW d, Leaves(r, d),
           NEW t \in {"received", "recorded", "detected", "applied", "decision"},
           pc[r] = t
    PROVE  Left(r, t)'
BY DEF Leaves, Left

(* An explained event of an undecided request is request.received.         *)
LEMMA UndecidedLeft ==
    ASSUME Explained, NEW r, action[r] = "none", NEW t, Left(r, t)
    PROVE  t = "received"
BY DEF Explained, Left

(* The initial state satisfies the strengthening.                          *)
LEMMA InitInv == Init => IInv
<1> SUFFICES ASSUME Init PROVE IInv
    OBVIOUS
<1>1. TypeOK
    BY PipelineAssumption DEF Init, TypeOK
<1>2. Local
    BY DEF Init, Local, Active, Undecided, Analyzing
<1>3. Trail /\ Explained /\ Fresh
    BY DEF Init, Trail, Explained, Fresh, Analyzing, Closing
<1>4. TrailInOrder
    BY PipelineAssumption DEF Init, TrailInOrder, Left
<1> QED
    BY <1>1, <1>2, <1>3, <1>4 DEF IInv

(* Steps that write nothing and only bring r on before it decides.         *)
LEMMA BeforeDecision ==
    ASSUME IInv, NEW r \in Requests, Arrive(r) \/ LoadConfig(r) \/ LoadRules(r)
    PROVE  IInv'
<1>1. /\ TypeOK /\ Local /\ Trail /\ Explained /\ TrailInOrder /\ Fresh
    BY DEF IInv
<1>2. UNCHANGED <<stores, slow, input>>
    BY DEF Arrive, LoadConfig, LoadRules, stores
<1>3. \A q, t : Left(q, t)' <=> Left(q, t)
    BY <1>2 DEF stores, Left
<1>4. TypeOK'
  <2>1. CASE Arrive(r)
      BY <1>1, <2>1 DEF TypeOK, Arrive, Goto, stores, locals
  <2>2. CASE LoadConfig(r)
      BY <1>1, <2>2 DEF TypeOK, LoadConfig, Goto, stores
  <2>3. CASE LoadRules(r)
    <3>1. /\ action' \in [Requests -> Action \union {"none"}]
          /\ known' \in [Requests -> SUBSET Pattern]
        BY <1>1, <2>3, LadderType, DecodedType DEF TypeOK, LoadRules
    <3> QED
        BY <1>1, <2>3, <3>1 DEF TypeOK, LoadRules, Goto, stores
  <2> QED
      BY <2>1, <2>2, <2>3
<1>5. Local'
  <2>1. CASE Arrive(r)
      BY <1>1, <2>1 DEF TypeOK, Local, Active, Arrive, Goto, stores, locals, Undecided,
         Analyzing, IsAnalyze, Heals, Flagged, Score
  <2>2. CASE LoadConfig(r)
      BY <1>1, <2>2 DEF TypeOK, Local, Active, LoadConfig, Goto, stores, Undecided,
         Analyzing, IsAnalyze, Heals, Flagged, Score
  <2>3. CASE LoadRules(r)
      BY <1>1, <2>3, LadderType DEF TypeOK, Local, Active, LoadRules, Goto, stores,
         Undecided, Analyzing, IsAnalyze, Heals, Flagged, Score
  <2> QED
      BY <2>1, <2>2, <2>3
<1>6. Trail'
    BY <1>1, <1>2, <1>3 DEF TypeOK, Local, Trail, Arrive, LoadConfig, LoadRules, Goto,
       stores, locals, Analyzing, Closing, Undecided, IsAnalyze, Heals, Flagged, Stored,
       IsFull
<1>7. Explained'
  <2>1. \A q \in Requests : action[q] # "none" =>
            action'[q] = action[q] /\ (Heals(q) => cfg'[q] = cfg[q])
      BY <1>1 DEF TypeOK, Local, Arrive, LoadConfig, LoadRules, locals, Undecided
  <2>2. \A e \in events : e.request \in Requests
      BY <1>1 DEF TypeOK
  <2>3. events' = events
      BY <1>2 DEF stores
  <2> SUFFICES ASSUME NEW e \in events
               PROVE  /\ e.type # "received" => action'[e.request] # "none"
                      /\ e.type = "detected" => Heals(e.request)'
                      /\ e.type = "decision" => e.action = action'[e.request]
      BY <2>3 DEF Explained, Heals, Flagged
  <2> QED
      BY <1>1, <2>1, <2>2 DEF Explained, Heals, Flagged
<1>8. TrailInOrder'
  <2>1. \A q \in Requests : Left(q, "detected") /\ Flagged(q) => Flagged(q)'
      BY <1>1, UndecidedLeft DEF TypeOK, Local, Arrive, LoadConfig, LoadRules, locals,
         Undecided, Flagged
  <2> QED
      BY <1>1, <1>2, <1>3, <2>1 DEF TrailInOrder, stores, IsAnalyze, IsFull
<1>9. Fresh'
  <2>1. \A p : Taught(p)' <=> Taught(p)
      BY <1>2, <1>3 DEF Taught
  <2>2. CASE Arrive(r)
      BY <1>1, <1>2, <2>1, <2>2 DEF TypeOK, Local, Fresh, Arrive, stores, locals,
         Undecided, IsAnalyze
  <2>3. CASE LoadConfig(r)
      BY <1>1, <1>2, <2>1, <2>3 DEF Fresh, LoadConfig, stores, IsAnalyze
  <2>4. CASE LoadRules(r)
    <3>1. PICK d \in Decoded : known' = [known EXCEPT ![r] = d]
        BY <2>4 DEF LoadRules
    <3>2. d \subseteq rules /\ (~slow => d = rules)
        BY DecodedType
    <3>3. \A p \in d : Taught(p)
        BY <1>1, <3>2 DEF TrailInOrder, Taught
    <3>4. before' = before /\ rules' = rules /\ slow' = slow
          /\ \A q \in Requests : q # r => action'[q] = action[q]
        BY <1>1, <2>4 DEF LoadRules, stores, TypeOK
    <3>5. /\ known'[r] = d
          /\ \A q \in Requests : q # r => known'[q] = known[q]
        BY <1>1, <3>1 DEF TypeOK
    <3> QED
        BY <1>1, <1>2, <2>1, <3>2, <3>3, <3>4, <3>5 DEF Fresh, IsAnalyze
  <2> QED
      BY <2>2, <2>3, <2>4
<1> QED
    BY <1>4, <1>5, <1>6, <1>7, <1>8, <1>9 DEF IInv

(* What r adds while decisions stay is explained, wherever r goes on.      *)
LEMMA AddsExplained ==
    ASSUME IInv, NEW r \in Requests, Adds(r), UNCHANGED <<input, cfg, seen, before>>,
           KeepsDecisions
    PROVE  Explained'
<1>1. /\ TypeOK /\ Local /\ Trail /\ Explained /\ TrailInOrder /\ Fresh
    BY DEF IInv
<1>2. \A q \in Requests : action[q] # "none" => action'[q] = action[q]
    BY DEF KeepsDecisions
<1> SUFFICES ASSUME NEW e \in events'
             PROVE  /\ e.type # "received" => action'[e.request] # "none"
                    /\ e.type = "detected" => Heals(e.request)'
                    /\ e.type = "decision" => e.action = action'[e.request]
    BY DEF Explained, Heals, Flagged
<1>3. CASE e \in events
    BY <1>1, <1>2, <1>3 DEF Explained, TypeOK, Heals, Flagged
<1>4. CASE e \notin events
    BY <1>1, <1>2, <1>4 DEF Adds, Local, Heals, Flagged, TypeOK
<1> QED
    BY <1>3, <1>4

(* And it is in order.                                                     *)
LEMMA AddsInOrder ==
    ASSUME IInv, NEW r \in Requests, Adds(r), UNCHANGED <<input, cfg, seen, before>>,
           KeepsDecisions
    PROVE  TrailInOrder'
<1>1. /\ TypeOK /\ Local /\ Trail /\ Explained /\ TrailInOrder /\ Fresh
    BY DEF IInv
<1>2. \A q \in Requests : action[q] # "none" => action'[q] = action[q]
    BY DEF KeepsDecisions
<1>3. \A q, t : /\ Left(q, t) => Left(q, t)'
                /\ Left(q, t)' => Left(q, t) \/ (q = r /\ t = pc[r])
    BY LeftKept
<1>4. ASSUME NEW q \in Requests
      PROVE  /\ Left(q, "decision")' =>
                    Left(q, "received")' /\ (IsAnalyze(q)' => Left(q, "recorded")')
             /\ Left(q, "recorded")' => q \in Range(pushed')
             /\ Left(q, "detected")' => Left(q, "recorded")' /\ Flagged(q)'
             /\ Left(q, "applied")' => Left(q, "detected")' /\ Stored(q)'
             /\ status' = q => Left(q, "decision")'
  <2>1. /\ Left(q, "decision")' => Left(q, "received")'
        /\ Left(q, "decision")' /\ IsAnalyze(q)' => Left(q, "recorded")'
      BY <1>1, <1>3 DEF TrailInOrder, Trail, Closing, IsAnalyze
  <2>2. Left(q, "recorded")' => q \in Range(pushed')
      BY <1>1, <1>3 DEF TrailInOrder, Trail, Adds
  <2>3. Left(q, "detected")' => Left(q, "recorded")' /\ Flagged(q)'
    <3>1. Left(q, "detected")' => Left(q, "recorded") /\ Flagged(q)
        BY <1>1, <1>3 DEF TrailInOrder, Trail, Local, Heals
    <3> QED
        BY <3>1, <1>2, <1>3 DEF Flagged
  <2>4. Left(q, "applied")' => Left(q, "detected")' /\ Stored(q)'
    <3>1. Left(q, "applied")' => Left(q, "detected") /\ Stored(q)
        BY <1>1, <1>3 DEF TrailInOrder, Trail, Stored
    <3> QED
        BY <3>1, <1>3, StoredKept
  <2>5. status' = q => Left(q, "decision")'
      BY <1>1, <1>3 DEF TrailInOrder, Trail, Adds
  <2> QED
      BY <2>1, <2>2, <2>3, <2>4, <2>5
<1>5. ASSUME NEW p \in rules'
      PROVE  \E q \in Requests : input'[q].pattern = p /\ Left(q, "detected")'
  <2>1. CASE p \in rules
      BY <1>1, <1>3, <2>1 DEF TrailInOrder
  <2>2. CASE p \notin rules
      BY <1>1, <1>3, <2>2, RulesKept DEF Trail
  <2> QED
      BY <2>1, <2>2
<1> QED
    BY <1>4, <1>5 DEF TrailInOrder, Stored

(* And what a request was judged by stays taught.                          *)
LEMMA AddsFresh ==
    ASSUME IInv, NEW r \in Requests, Adds(r),
           UNCHANGED <<input, known, before>>,
           \A q \in Requests : IsAnalyze(q) => action'[q] = action[q]
    PROVE  Fresh'
<1>1. Fresh
    BY DEF IInv
<1>2. slow' = slow
    BY DEF Adds
<1>3. ~slow => rules \subseteq rules'
    BY RulesKept
<1>4. \A p : Taught(p) => Taught(p)'
    BY TaughtKept
<1> QED
    BY <1>1, <1>2, <1>3, <1>4 DEF Fresh, IsAnalyze

(* A write that succeeds brings r to its next place.                       *)
LEMMA ContinueKeeps ==
    ASSUME IInv, NEW r \in Requests, Continue(r)
    PROVE  IInv'
<1>1. /\ TypeOK /\ Local /\ Trail /\ Explained /\ TrailInOrder /\ Fresh
    BY DEF IInv
<1> PICK d \in Decoded : Write(r, d) /\ Goto(r, Then(r, d))
    BY DEF Continue
<1>2. /\ Adds(r) /\ Leaves(r, d)
      /\ pc' = [pc EXCEPT ![r] = Then(r, d)]
      /\ UNCHANGED <<cfg, known, slow, input, changes, faults, seen, before>>
  <2>1. UNCHANGED <<cfg, known, slow, input, changes, faults, seen, before>>
      BY DEF Continue
  <2> QED
      BY <1>1, <2>1, WriteAdds DEF Goto
<1>3. pc[r] \in {"received", "push", "trim", "recorded", "detected", "merge",
                  "applied", "decision", "status"}
    BY DEF Write, PublishReceived, PushRecord, TrimRecords, PublishRecorded,
       PublishDetected, MergeRules, PublishApplied, PublishDecision, SetStatus
<1>4. /\ pc[r] = "received" /\ ~IsAnalyze(r) =>
            action' = [action EXCEPT ![r] = ActionFor(input[r].risk, cfg[r].limits)]
      /\ ~(pc[r] = "received" /\ ~IsAnalyze(r)) => action' = action
    BY DEF Continue
<1>5. KeepsDecisions
    BY <1>1, <1>4 DEF KeepsDecisions, Local, Undecided, TypeOK
<1>6. TypeOK'
  <2>1. action' \in [Requests -> Action \union {"none"}]
      BY <1>1, <1>4, LadderType DEF TypeOK
  <2>2. pc'[r] \in {"rules", "trim", "recorded", "detected", "decision", "merge",
                    "applied", "status", "done"}
      BY <1>1, <1>2, <1>3 DEF TypeOK, Then
  <2>3. status' \in Requests \union {NoRequest}
      BY <1>1, <1>2 DEF TypeOK, Adds
  <2> QED
      BY <1>1, <1>2, <2>1, <2>2, <2>3 DEF TypeOK, Adds
<1>7. Local'
  <2> SUFFICES ASSUME NEW q \in Requests
               PROVE  /\ Active(q)' => config' \in seen'[q]
                      /\ pc'[q] \in {"received", "rules"} \/ action'[q] # "none"
                            => cfg'[q] \in seen'[q]
                      /\ Undecided(q)' => action'[q] = "none"
                      /\ Undecided(q)' \/ ~IsAnalyze(q)' => known'[q] = {}
                      /\ action'[q] # "none" =>
                            action'[q] = ActionFor(Score(q, known[q])', cfg'[q].limits)
                      /\ pc'[q] \in {"push", "trim", "recorded", "detected", "merge",
                                     "applied", "decision", "status", "done"}
                            => action'[q] # "none"
                      /\ Analyzing(q)' => IsAnalyze(q)'
                      /\ pc'[q] \in {"detected", "merge", "applied"} => Heals(q)'
      BY DEF Local
  <2>1. CASE q = r
      BY <1>1, <1>2, <1>3, <1>4, <2>1, LadderType, SMTT(30)
         DEF TypeOK, Local, Adds, Active, Undecided,
         Analyzing, IsAnalyze, Heals, Flagged, Score, Then
  <2>2. CASE q # r
      BY <1>1, <1>2, <1>4, <2>2 DEF TypeOK, Local, Adds, Active, Undecided, Analyzing,
         IsAnalyze, Heals, Flagged, Score
  <2> QED
      BY <2>1, <2>2
<1>8. Trail'
  <2>1. \A q, t : Left(q, t) => Left(q, t)'
      BY <1>2, LeftKept
  <2>2. \A t \in {"received", "recorded", "detected", "applied", "decision"} :
            pc[r] = t => Left(r, t)'
      BY <1>2, LeavesEvent
  <2>5. \A q \in Requests : Stored(q) => Stored(q)'
      BY <1>2, StoredKept
  <2> SUFFICES ASSUME NEW q \in Requests
               PROVE  /\ Analyzing(q)' \/ Closing(q)' => Left(q, "received")'
                      /\ pc'[q] \in {"trim", "recorded", "detected", "merge", "applied"}
                            => q \in Range(pushed')
                      /\ Closing(q)' /\ IsAnalyze(q)' => q \in Range(pushed')
                      /\ pc'[q] \in {"detected", "merge", "applied"}
                            => Left(q, "recorded")'
                      /\ Closing(q)' /\ IsAnalyze(q)' => Left(q, "recorded")'
                      /\ pc'[q] \in {"merge", "applied"} => Left(q, "detected")'
                      /\ Closing(q)' /\ IsAnalyze(q)' /\ Heals(q)'
                            => Left(q, "detected")'
                      /\ pc'[q] = "applied" => Stored(q)'
                      /\ pc'[q] \in {"status", "done"} => Left(q, "decision")'
      BY DEF Trail
  <2>3. CASE q = r
    <3>1. pc'[q] = Then(r, d) /\ IsAnalyze(q)' = IsAnalyze(r)
        BY <1>1, <1>2, <2>3 DEF TypeOK, IsAnalyze
    <3>2. Heals(q)' = Heals(r) \/ pc[r] = "received"
        BY <1>2, <1>4, <2>3 DEF Heals, Flagged
    <3>3. CASE pc[r] = "received"
      <4>1. pc'[q] = IF IsAnalyze(r) THEN "rules" ELSE "decision"
          BY <3>1, <3>3 DEF Then
      <4> QED
          BY <2>2, <2>3, <3>1, <3>3, <4>1 DEF Analyzing, Closing
    <3>4. CASE pc[r] \in {"push", "trim", "recorded", "detected"}
      <4>1. /\ pc[r] = "push" => pc'[q] = "trim"
            /\ pc[r] = "trim" => pc'[q] = "recorded"
            /\ pc[r] = "recorded" => pc'[q] = IF Heals(r) THEN "detected" ELSE "decision"
            /\ pc[r] = "detected" => pc'[q] = "merge"
          BY <3>1 DEF Then
      <4> QED
          BY <1>1, <1>2, <2>1, <2>2, <2>3, <3>1, <3>2, <3>4, <4>1 DEF Local, Trail, Adds,
             Leaves, Analyzing, Closing
    <3>5. CASE pc[r] \in {"merge", "applied"}
      <4>1. /\ pc[r] = "merge" => pc'[q] = IF Teaches(r, d) THEN "applied" ELSE "decision"
            /\ pc[r] = "applied" => pc'[q] = "decision"
          BY <3>1 DEF Then
      <4>2. pc'[q] = "applied" => Stored(q)'
          BY <1>2, <2>3, <3>5, <4>1 DEF Leaves
      <4> QED
          BY <1>1, <1>2, <2>1, <2>2, <2>3, <3>1, <3>2, <3>5, <4>1, <4>2 DEF Local, Trail,
             Adds, Leaves, Analyzing, Closing
    <3>6. CASE pc[r] \in {"decision", "status"}
      <4>1. pc'[q] \in {"status", "done"}
          BY <3>1, <3>6 DEF Then
      <4> QED
          BY <1>1, <1>2, <2>1, <2>2, <2>3, <3>1, <3>2, <3>6, <4>1 DEF Trail, Adds,
             Analyzing, Closing
    <3> QED
        BY <1>3, <3>3, <3>4, <3>5, <3>6
  <2>4. CASE q # r
      BY <1>1, <1>2, <1>4, <2>1, <2>4, <2>5 DEF TypeOK, Trail, Adds, Analyzing, Closing,
         IsAnalyze, Heals, Flagged
  <2> QED
      BY <2>3, <2>4
<1>9. Explained' /\ TrailInOrder'
    BY <1>2, <1>5, AddsExplained, AddsInOrder
<1>10. Fresh'
  <2>1. \A q \in Requests : IsAnalyze(q) => action'[q] = action[q]
      BY <1>1, <1>4 DEF TypeOK
  <2> QED
      BY <1>2, <2>1, AddsFresh
<1> QED
    BY <1>6, <1>7, <1>8, <1>9, <1>10 DEF IInv

(* A step that ends r, or sends it nowhere, while it may have written.     *)
LEMMA InterruptedKeeps ==
    ASSUME IInv, NEW r \in Requests, Adds(r), faults' \in 0..MaxFaults,
           UNCHANGED <<locals, input, changes, seen, before>>,
           pc' = pc \/ pc' = [pc EXCEPT ![r] = "failed"]
                   \/ (pc[r] = "merge" /\ pc' = [pc EXCEPT ![r] = "decision"])
    PROVE  IInv'
<1>1. /\ TypeOK /\ Local /\ Trail /\ Explained /\ TrailInOrder /\ Fresh
    BY DEF IInv
<1>2. KeepsDecisions
    BY DEF KeepsDecisions, locals
<1>3. TypeOK'
  <2>1. status' \in Requests \union {NoRequest}
      BY <1>1 DEF TypeOK, Adds
  <2> QED
      BY <1>1, <2>1 DEF TypeOK, Adds, locals
<1>4. Local'
    BY <1>1 DEF TypeOK, Local, Adds, locals, Active, Undecided, Analyzing, IsAnalyze,
       Heals, Flagged, Score
<1>5. \A q, t : Left(q, t) => Left(q, t)'
    BY LeftKept
<1>6. Trail'
  <2>1. \A q \in Requests :
          /\ pc'[q] \in {"failed", pc[q]} \/ (pc[q] = "merge" /\ pc'[q] = "decision")
          /\ Heals(q)' = Heals(q) /\ IsAnalyze(q)' = IsAnalyze(q)
      BY <1>1 DEF TypeOK, locals, Heals, Flagged, IsAnalyze
  <2> QED
      BY <1>1, <1>5, <2>1, StoredKept DEF Trail, Adds, Analyzing, Closing
<1>7. Explained' /\ TrailInOrder'
    BY <1>2, AddsExplained, AddsInOrder DEF locals
<1>8. Fresh'
    BY AddsFresh DEF locals
<1> QED
    BY <1>3, <1>4, <1>6, <1>7, <1>8 DEF IInv

(* A change of the configuration touches no request.                       *)
LEMMA ReconfigureKeeps ==
    ASSUME IInv, Reconfigure
    PROVE  IInv'
<1>1. /\ TypeOK /\ Local /\ Trail /\ Explained /\ TrailInOrder /\ Fresh
    BY DEF IInv
<1>2. UNCHANGED <<rules, records, events, status, pushed, locals, slow, input, pc, faults,
                before>>
    BY DEF Reconfigure
<1>3. \A q, t : Left(q, t)' <=> Left(q, t)
    BY <1>2 DEF Left
<1>4. TypeOK'
    BY <1>1, <1>2, PipelineAssumption DEF TypeOK, Reconfigure, locals
<1>5. Local'
    BY <1>1, <1>2 DEF TypeOK, Local, Reconfigure, locals, Active, Undecided, Analyzing,
       IsAnalyze, Heals, Flagged, Score
<1>6. Trail' /\ Explained' /\ TrailInOrder' /\ Fresh'
    BY <1>1, <1>2, <1>3 DEF Trail, Explained, TrailInOrder, Fresh, locals, Analyzing,
       Closing, IsAnalyze, Heals, Flagged, Stored, Taught, IsFull
<1> QED
    BY <1>4, <1>5, <1>6 DEF IInv

(* The strengthening is inductive.                                         *)
LEMMA StepInv == IInv /\ [Next]_vars => IInv'
<1> SUFFICES ASSUME IInv, [Next]_vars PROVE IInv'
    OBVIOUS
<1>1. TypeOK /\ Local
    BY DEF IInv
<1>2. ASSUME NEW r \in Requests, Fault PROVE faults' \in 0..MaxFaults
    BY <1>1, <1>2, PipelineAssumption DEF TypeOK, Fault
<1>3. CASE UNCHANGED vars
    BY <1>3 DEF vars, stores, locals, IInv, TypeOK, Local, Trail, Explained, TrailInOrder,
       Fresh, Active, Undecided, Analyzing, Closing, IsAnalyze, Heals, Flagged, Score, Left,
       Stored, Taught, IsFull
<1>4. CASE \E r \in Requests : Arrive(r) \/ LoadConfig(r) \/ LoadRules(r)
    BY <1>4, BeforeDecision
<1>5. CASE \E r \in Requests : Continue(r)
    BY <1>5, ContinueKeeps
<1>6. ASSUME NEW r \in Requests, Fails(r) PROVE IInv'
  <2>1. Adds(r)
      BY <1>1, <1>6, WriteAdds, NothingAdds DEF Fails
  <2> QED
      BY <1>2, <1>6, <2>1, InterruptedKeeps DEF Fails, Goto
<1>7. ASSUME NEW r \in Requests, Resends(r) PROVE IInv'
  <2>1. Adds(r)
      BY <1>1, <1>7, WriteAdds DEF Resends
  <2> QED
      BY <1>2, <1>7, <2>1, InterruptedKeeps DEF Resends
<1>8. ASSUME NEW r \in Requests, MergeUnreported(r) PROVE IInv'
  <2>1. Adds(r)
      BY <1>1, <1>8, WriteAdds, NothingAdds DEF MergeUnreported, Write, stores
  <2> QED
      BY <1>2, <1>8, <2>1, InterruptedKeeps DEF MergeUnreported, Goto
<1>9. CASE Reconfigure
    BY <1>9, ReconfigureKeeps
<1> QED
    BY <1>3, <1>4, <1>5, <1>6, <1>7, <1>8, <1>9 DEF Next, Step, Quiet

(* So it holds in every state.                                             *)
LEMMA AlwaysInv == Spec => []IInv
BY InitInv, StepInv, PTL DEF Spec

-------------------------------------------------------------------------------
(* Stores, requests and histories stay within their types, for any         *)
(* requests and any number of failures.                                    *)
THEOREM TypeCorrect == Spec => []TypeOK
<1>1. IInv => TypeOK
    BY DEF IInv
<1> QED
    BY <1>1, AlwaysInv, PTL

(* run, scan and scan_kernel decide, heal and publish by the one           *)
(* configuration they loaded, and that was in force while they ran.        *)
THEOREM DecidedByOneConfiguration == Spec => []OneConfiguration
<1>1. IInv => OneConfiguration
  <2> SUFFICES ASSUME IInv, NEW r \in Requests, action[r] # "none"
               PROVE  /\ cfg[r] \in seen[r]
                      /\ action[r] = ActionFor(Score(r, known[r]), cfg[r].limits)
                      /\ Left(r, "detected") => cfg[r].healing /\ SelfHealing
                      /\ \A e \in events :
                            e.request = r /\ e.type = "decision" => e.action = action[r]
      BY DEF OneConfiguration
  <2> QED
      BY DEF IInv, Local, Explained, Left, Heals
<1> QED
    BY <1>1, AlwaysInv, PTL

(* Wherever a request breaks off, what it has left in Redis follows from   *)
(* what it left before: the order of run's awaits is enough, with no       *)
(* transaction around them.  Only self_heal.applied says more than was     *)
(* stored, when the list was full or a host is slow.                       *)
THEOREM LeftInOrder == Spec => []TrailInOrder
<1>1. IInv => TrailInOrder
    BY DEF IInv
<1> QED
    BY <1>1, AlwaysInv, PTL

(* An answered request left its record, its events and its incident.       *)
THEOREM AnswersAreOnRecord == Spec => []AnsweredLeavesTrail
<1>1. IInv => AnsweredLeavesTrail
    BY DEF IInv, Trail, AnsweredLeavesTrail, Closing, Heals
<1> QED
    BY <1>1, AlwaysInv, PTL

(* A request is judged by every rule stored before it arrived, where the   *)
(* probes meet their deadline, and by none that no incident taught: on a   *)
(* host in time merges drop nothing, cap or no cap.                        *)
THEOREM JudgedByFreshRules == Spec => []RulesAreFresh
<1>1. IInv => RulesAreFresh
    BY DEF IInv, Fresh, Taught, RulesAreFresh
<1> QED
    BY <1>1, AlwaysInv, PTL

-------------------------------------------------------------------------------
(* RecordsAreNewest, element by element: the kept records are the first of *)
(* all that were made, and none was cut before there were KeepLast + 1.    *)
Newest(short, long) ==
    /\ Len(short) <= Len(long)
    /\ \A i \in 1..Len(short) : short[i] = long[i]
    /\ Len(short) >= KeepLast + 1 \/ short = long

InStep == Newest(records, pushed)

(* Agreement element by element is being a prefix.                         *)
LEMMA NewestIsPrefix ==
    ASSUME NEW S, NEW s \in Seq(S), NEW t \in Seq(S)
    PROVE  /\ Newest(s, t) => IsPrefix(s, t)
           /\ Newest(s, t) => Len(s) >= KeepLast + 1 \/ s = t
<1> SUFFICES ASSUME Newest(s, t) PROVE SubSeq(s, 1, Len(s)) = SubSeq(t, 1, Len(s))
    BY DEF Newest, IsPrefix
<1>1. \A i \in 1..Len(s) : s[i] \in S /\ t[i] \in S
    BY DEF Newest
<1>2. /\ SubSeq(s, 1, Len(s)) \in Seq(S) /\ SubSeq(t, 1, Len(s)) \in Seq(S)
      /\ Len(SubSeq(s, 1, Len(s))) = Len(SubSeq(t, 1, Len(s)))
      /\ \A i \in 1..Len(s) : /\ SubSeq(s, 1, Len(s))[i] = s[i]
                              /\ SubSeq(t, 1, Len(s))[i] = t[i]
      /\ Len(SubSeq(s, 1, Len(s))) = Len(s)
    BY <1>1
<1> QED
    BY <1>2, SeqEqual DEF Newest

(* A push keeps both lists in step.                                        *)
LEMMA PushNewest ==
    ASSUME NEW S, NEW s \in Seq(S), NEW t \in Seq(S), NEW x \in S, Newest(s, t)
    PROVE  Newest(<<x>> \o s, <<x>> \o t)
<1>1. /\ Len(<<x>> \o s) = Len(s) + 1 /\ Len(<<x>> \o t) = Len(t) + 1
      /\ \A i \in 1..Len(s) + 1 : (<<x>> \o s)[i] = IF i = 1 THEN x ELSE s[i - 1]
      /\ \A i \in 1..Len(t) + 1 : (<<x>> \o t)[i] = IF i = 1 THEN x ELSE t[i - 1]
    OBVIOUS
<1> QED
    BY <1>1, PipelineAssumption DEF Newest

(* A trim keeps the newest KeepLast + 1.                                   *)
LEMMA TrimNewest ==
    ASSUME NEW S, NEW s \in Seq(S), NEW t \in Seq(S), Newest(s, t)
    PROVE  Newest(Trimmed(s), t)
<1>1. CASE Len(s) <= KeepLast + 1
    BY <1>1 DEF Trimmed
<1>2. CASE ~(Len(s) <= KeepLast + 1)
  <2>1. /\ Len(SubSeq(s, 1, KeepLast + 1)) = KeepLast + 1
        /\ \A i \in 1..KeepLast + 1 : SubSeq(s, 1, KeepLast + 1)[i] = s[i]
      BY <1>2, PipelineAssumption
  <2> QED
      BY <1>2, <2>1, PipelineAssumption DEF Trimmed, Newest
<1> QED
    BY <1>1, <1>2

(* Push and trim are two round trips of each of many requests, and yet no  *)
(* interleaving, resent command or failure loses one of the newest         *)
(* records.                                                                *)
THEOREM NewestAreKept == Spec => []RecordsAreNewest
<1>1. Init => InStep
    BY DEF Init, InStep, Newest
<1>2. TypeOK /\ InStep /\ [Next]_vars => InStep'
  <2> SUFFICES ASSUME TypeOK, Newest(records, pushed), [Next]_vars
               PROVE  Newest(records', pushed')
      BY DEF InStep
  <2>1. ASSUME NEW r \in Requests, NEW d, Write(r, d) PROVE Newest(records', pushed')
    <3>1. CASE PushRecord(r)
        BY <3>1, PushNewest DEF PushRecord, TypeOK
    <3>2. CASE TrimRecords(r)
        BY <3>2, TrimNewest DEF TrimRecords, TypeOK
    <3>3. CASE UNCHANGED <<records, pushed>>
        BY <3>3
    <3> QED
        BY <2>1, <3>1, <3>2, <3>3 DEF Write, PublishReceived, PublishRecorded,
           PublishDetected, MergeRules, PublishApplied, PublishDecision, SetStatus, Publish
  <2>2. CASE UNCHANGED <<records, pushed>>
      BY <2>2
  <2> QED
      BY <2>1, <2>2 DEF Next, Step, Arrive, LoadConfig, LoadRules, Continue, Fails,
         Resends, MergeUnreported, Reconfigure, Quiet, vars, stores, Write
<1>3. TypeOK /\ InStep => RecordsAreNewest
    BY NewestIsPrefix DEF InStep, TypeOK, RecordsAreNewest
<1> QED
    BY <1>1, <1>2, <1>3, TypeCorrect, PTL DEF Spec
===============================================================================
