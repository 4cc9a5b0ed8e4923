---------------------------- MODULE SelfHealProofs ----------------------------
(***************************************************************************)
(* Proofs about learning from incidents, in two parts.                     *)
(*                                                                         *)
(* The first is about self-healing under concurrency, for any number of    *)
(* requests, incidents and patterns, any cap, any number of tries and of   *)
(* connection failures.  TypeOK is inductive.  On top of it,               *)
(* UndisturbedMergeIsCurrent says that the snapshot of a request whose     *)
(* watch is clean is the stored value; it gives the refinement of          *)
(* RuleLedger, and with it the rest.                                       *)
(*                                                                         *)
(* The second is about the feedback loop, for any requests, any patterns   *)
(* and any relation of matching between patterns and phrases.  It rests on *)
(* the first part's lemmas about one merge and on CoordinatorProofs'       *)
(* lemmas about the evidence in a list of signals: the evidence of a       *)
(* request's signals is that of its four agents together, learning can     *)
(* only add to the sentinel's, and more evidence never lowers the action.  *)
(***************************************************************************)
EXTENDS SelfHeal, Learning, CoordinatorProofs, SequenceTheorems, FiniteSetTheorems, TLAPS

(***************************************************************************)
(* What one merge does to the dynamic rules, for every set of patterns and *)
(* every cap: it stays within the cap, it extends what was decoded, and a  *)
(* pattern it reports is stored unless the list it belongs to is full.     *)
(***************************************************************************)

\* A capped list is a sequence of patterns no longer than the cap.
LEMMA RuleListIsSeq ==
    ASSUME NEW l \in RuleList
    PROVE  l \in Seq(Regex) /\ Len(l) \in 0..MaxRuleGrowth
BY RulesAssumption DEF RuleList

\* Conversely, a short enough sequence of patterns is a capped list.
LEMMA ShortSeqIsRuleList ==
    ASSUME NEW l \in Seq(Regex), Len(l) <= MaxRuleGrowth
    PROVE  l \in RuleList
<1>1. Len(l) \in 0..MaxRuleGrowth /\ l \in [1..Len(l) -> Regex]
    BY LenProperties, RulesAssumption
<1> QED BY <1>1 DEF RuleList

\* Appending a suggestion keeps a list of patterns and everything in it.
LEMMA AppendNewProperties ==
    ASSUME NEW l \in Seq(Regex), NEW r \in Regex \union {NoRegex}
    PROVE  /\ AppendNew(l, r) \in Seq(Regex)
           /\ Len(l) <= Len(AppendNew(l, r))
           /\ \A i \in 1..Len(l) : AppendNew(l, r)[i] = l[i]
<1>1. CASE r = NoRegex \/ r \in Range(l)
    BY <1>1 DEF AppendNew
<1>2. CASE ~(r = NoRegex \/ r \in Range(l))
    <2>1. r \in Regex /\ AppendNew(l, r) = Append(l, r)
        BY <1>2 DEF AppendNew
    <2> QED BY <2>1, AppendProperties
<1> QED BY <1>1, <1>2

\* Truncation keeps the oldest patterns, MaxRuleGrowth of them at most.
LEMMA CappedProperties ==
    ASSUME NEW l \in Seq(Regex)
    PROVE  /\ Capped(l) \in RuleList
           /\ Len(Capped(l)) = IF Len(l) <= MaxRuleGrowth THEN Len(l)
                                                        ELSE MaxRuleGrowth
           /\ \A i \in 1..Len(Capped(l)) : Capped(l)[i] = l[i]
<1>1. CASE Len(l) <= MaxRuleGrowth
    BY <1>1, ShortSeqIsRuleList DEF Capped
<1>2. CASE ~(Len(l) <= MaxRuleGrowth)
    <2>1. MaxRuleGrowth \in Nat /\ Len(l) \in Nat /\ MaxRuleGrowth < Len(l)
        BY <1>2, RulesAssumption
    <2>2. Capped(l) = SubSeq(l, 1, MaxRuleGrowth)
        BY <1>2 DEF Capped
    <2>3. \A i \in 1..MaxRuleGrowth : l[i] \in Regex
        BY <2>1
    <2>4. /\ Capped(l) \in Seq(Regex)
          /\ Len(Capped(l)) = MaxRuleGrowth
          /\ \A i \in 1..MaxRuleGrowth : Capped(l)[i] = l[i]
        BY <2>1, <2>2, <2>3, SubSeqProperties
    <2> QED BY <1>2, <2>1, <2>4, ShortSeqIsRuleList
<1> QED BY <1>1, <1>2

-------------------------------------------------------------------------------
\* Both lists, after the mutator and before the cap, extend the decoded ones.
LEMMA GrownProperties ==
    ASSUME NEW d \in DynamicRule, NEW inc \in Incident
    PROVE  /\ GrownInjection(d, inc) \in Seq(Regex)
           /\ Len(d.injection) <= Len(GrownInjection(d, inc))
           /\ \A i \in 1..Len(d.injection) :
                 GrownInjection(d, inc)[i] = d.injection[i]
           /\ GrownExfil(d, inc) \in Seq(Regex)
           /\ Len(d.exfil) <= Len(GrownExfil(d, inc))
           /\ \A i \in 1..Len(d.exfil) : GrownExfil(d, inc)[i] = d.exfil[i]
<1>1. d.injection \in Seq(Regex) /\ d.exfil \in Seq(Regex)
    BY RuleListIsSeq DEF DynamicRule
<1>2. /\ inc.prompt_injection \in Regex \union {NoRegex}
      /\ inc.jailbreak \in Regex \union {NoRegex}
      /\ inc.tool_abuse \in Regex \union {NoRegex}
      /\ inc.data_exfiltration \in Regex \union {NoRegex}
    BY DEF Incident
<1> DEFINE l0 == d.injection
           l1 == AppendNew(l0, inc.prompt_injection)
           l2 == AppendNew(l1, inc.jailbreak)
           l3 == AppendNew(l2, inc.tool_abuse)
<1>3. /\ l1 \in Seq(Regex) /\ Len(l0) <= Len(l1)
      /\ \A i \in 1..Len(l0) : l1[i] = l0[i]
    BY <1>1, <1>2, AppendNewProperties
<1>4. /\ l2 \in Seq(Regex) /\ Len(l1) <= Len(l2)
      /\ \A i \in 1..Len(l1) : l2[i] = l1[i]
    <2> HIDE DEF l1
    <2> QED BY <1>2, <1>3, AppendNewProperties
<1>5. /\ l3 \in Seq(Regex) /\ Len(l2) <= Len(l3)
      /\ \A i \in 1..Len(l2) : l3[i] = l2[i]
    <2> HIDE DEF l2
    <2> QED BY <1>2, <1>4, AppendNewProperties
<1>6. Len(l0) \in Nat /\ Len(l1) \in Nat /\ Len(l2) \in Nat /\ Len(l3) \in Nat
    BY <1>1, <1>3, <1>4, <1>5
<1>7. Len(l0) <= Len(l3) /\ \A i \in 1..Len(l0) : l3[i] = l0[i]
    <2> HIDE DEF l0, l1, l2, l3
    <2> QED BY <1>3, <1>4, <1>5, <1>6
<1>8. GrownInjection(d, inc) = l3
    BY DEF GrownInjection
<1>9. /\ GrownExfil(d, inc) \in Seq(Regex)
      /\ Len(d.exfil) <= Len(GrownExfil(d, inc))
      /\ \A i \in 1..Len(d.exfil) : GrownExfil(d, inc)[i] = d.exfil[i]
    BY <1>1, <1>2, AppendNewProperties DEF GrownExfil
<1> HIDE DEF l3
<1> QED BY <1>5, <1>7, <1>8, <1>9

(***************************************************************************)
(* A merge writes rules within the cap, one version further, whatever it   *)
(* decoded and whatever the incident suggests.                             *)
(***************************************************************************)
THEOREM BuiltType ==
    ASSUME NEW d \in DynamicRule, NEW inc \in Incident
    PROVE  Built(d, inc) \in DynamicRule /\ Built(d, inc).version = d.version + 1
BY GrownProperties, CappedProperties DEF Built, DynamicRule

\* The patches handed back name a list and a pattern each.
LEMMA PatchesType ==
    ASSUME NEW d \in DynamicRule, NEW inc \in Incident
    PROVE  Patches(d, inc) \in SUBSET ({"injection", "exfil"} \X Regex)
<1>1. /\ GrownInjection(d, inc) \in Seq(Regex)
      /\ GrownExfil(d, inc) \in Seq(Regex)
    BY GrownProperties
<1>2. /\ Range(GrownInjection(d, inc)) \subseteq Regex
      /\ Range(GrownExfil(d, inc)) \subseteq Regex
    BY <1>1 DEF Range
<1> QED BY <1>2 DEF Patches

\* Decoding yields rules of the same version, within the cap.
LEMMA DecodedType ==
    ASSUME NEW s \in DynamicRule, NEW late \in BOOLEAN, NEW d \in Decoded(s, late)
    PROVE  /\ d \in DynamicRule
           /\ d.version = s.version
           /\ ~late => d = s
<1>1. PICK i \in Filtered(s.injection, late), x \in Filtered(s.exfil, late) :
          d = [version |-> s.version, injection |-> i, exfil |-> x]
    BY DEF Decoded
<1>2. i \in RuleList /\ x \in RuleList
    BY DEF Filtered, DynamicRule
<1>3. ~late => i = s.injection /\ x = s.exfil
    BY DEF Filtered
<1> QED BY <1>1, <1>2, <1>3 DEF DynamicRule

\* Sequences that agree on the first one's domain are in prefix order.
LEMMA PrefixByElements ==
    ASSUME NEW s \in Seq(Regex), NEW t \in Seq(Regex), Len(s) <= Len(t),
           \A i \in 1..Len(s) : t[i] = s[i]
    PROVE  IsPrefix(s, t)
<1>1. Len(s) \in Nat /\ \A i \in 1..Len(s) : s[i] \in Regex /\ t[i] \in Regex
    BY LenProperties
<1>2. /\ SubSeq(s, 1, Len(s)) \in Seq(Regex)
      /\ Len(SubSeq(s, 1, Len(s))) = Len(s)
      /\ \A i \in 1..Len(s) : SubSeq(s, 1, Len(s))[i] = s[i]
    BY <1>1, SubSeqProperties
<1>3. /\ SubSeq(t, 1, Len(s)) \in Seq(Regex)
      /\ Len(SubSeq(t, 1, Len(s))) = Len(s)
      /\ \A i \in 1..Len(s) : SubSeq(t, 1, Len(s))[i] = t[i]
    BY <1>1, SubSeqProperties
<1>4. SubSeq(s, 1, Len(s)) = SubSeq(t, 1, Len(s))
    BY <1>2, <1>3, SeqEqual
<1> QED BY <1>4 DEF IsPrefix

(***************************************************************************)
(* A merge extends both lists it decoded: what was learned first is never  *)
(* what the cap drops.                                                     *)
(***************************************************************************)
THEOREM BuiltExtends ==
    ASSUME NEW d \in DynamicRule, NEW inc \in Incident
    PROVE  /\ Len(d.injection) <= Len(Built(d, inc).injection)
           /\ \A i \in 1..Len(d.injection) :
                 Built(d, inc).injection[i] = d.injection[i]
           /\ Len(d.exfil) <= Len(Built(d, inc).exfil)
           /\ \A i \in 1..Len(d.exfil) : Built(d, inc).exfil[i] = d.exfil[i]
<1>1. /\ d.injection \in Seq(Regex) /\ Len(d.injection) \in 0..MaxRuleGrowth
      /\ d.exfil \in Seq(Regex) /\ Len(d.exfil) \in 0..MaxRuleGrowth
    BY RuleListIsSeq DEF DynamicRule
<1>2. ASSUME NEW l \in Seq(Regex), Len(l) <= MaxRuleGrowth,
             NEW g \in Seq(Regex), Len(l) <= Len(g),
             \A i \in 1..Len(l) : g[i] = l[i]
      PROVE  Len(l) <= Len(Capped(g)) /\ \A i \in 1..Len(l) : Capped(g)[i] = l[i]
    <2>1. Len(l) \in Nat /\ Len(g) \in Nat /\ Len(Capped(g)) \in Nat
        BY <1>2, CappedProperties, RuleListIsSeq
    <2>2. Len(l) <= Len(Capped(g))
        BY <1>2, <2>1, CappedProperties, RulesAssumption
    <2> QED BY <1>2, <2>1, <2>2, CappedProperties
<1> QED BY <1>1, <1>2, GrownProperties DEF Built

(***************************************************************************)
(* A pattern the mutator reports is in the list that is saved, unless that *)
(* list is full.                                                           *)
(***************************************************************************)
THEOREM PatchStoredOrFull ==
    ASSUME NEW d \in DynamicRule, NEW inc \in Incident,
           NEW p \in Patches(d, inc)
    PROVE  LET l == IF p[1] = "injection" THEN Built(d, inc).injection
                                          ELSE Built(d, inc).exfil
           IN  p[2] \in Range(l) \/ Len(l) = MaxRuleGrowth
<1>1. /\ GrownInjection(d, inc) \in Seq(Regex)
      /\ GrownExfil(d, inc) \in Seq(Regex)
    BY GrownProperties
<1>2. \/ p[1] = "injection" /\ p[2] \in Range(GrownInjection(d, inc))
      \/ p[1] = "exfil" /\ p[2] \in Range(GrownExfil(d, inc))
    BY DEF Patches
<1>3. ASSUME NEW g \in Seq(Regex)
      PROVE  Capped(g) = g \/ Len(Capped(g)) = MaxRuleGrowth
    BY <1>3, CappedProperties DEF Capped
<1>4. CASE p[1] = "injection" /\ p[2] \in Range(GrownInjection(d, inc))
    BY <1>1, <1>3, <1>4 DEF Built
<1>5. CASE p[1] = "exfil" /\ p[2] \in Range(GrownExfil(d, inc))
    BY <1>1, <1>3, <1>5 DEF Built
<1> QED BY <1>2, <1>4, <1>5

-------------------------------------------------------------------------------

\* The mutator's results have their types, whatever was decoded.
LEMMA MutatorType ==
    ASSUME TypeOK, NEW r \in Requests, NEW d \in Decoded(store, slow)
    PROVE  /\ d \in DynamicRule
           /\ d.version = store.version
           /\ Patches(d, incident[r]) \in PatchSet
           /\ Built(d, incident[r]) \in DynamicRule
           /\ Built(d, incident[r]).version = store.version + 1
<1>1. d \in DynamicRule /\ d.version = store.version
    BY DecodedType DEF TypeOK
<1>2. incident[r] \in Incident
    BY SelfHealAssumption DEF TypeOK
<1> QED BY <1>1, <1>2, PatchesType, BuiltType DEF PatchSet

LEMMA EmptyRulesType == EmptyRules \in DynamicRule
BY RulesAssumption DEF EmptyRules, DynamicRule, RuleList

\* A failed attempt keeps the types, as long as the loop was not over.
LEMMA RetryType ==
    ASSUME TypeOK, NEW r \in Requests, tries[r] < MaxTries, Retry(r)
    PROVE  /\ tries' \in [Requests -> 0..MaxTries]
           /\ patches' \in [Requests -> PatchSet]
           /\ built' \in [Requests -> DynamicRule]
           /\ pc' \in [Requests -> {"idle", "watch", "get", "unwatch", "exec",
                                    "publish", "done", "failed"}]
BY SelfHealAssumption, EmptyRulesType DEF TypeOK, Retry, PatchSet

\* A request still inside merge_update has attempts left.
TriesLeft ==
    \A r \in Requests :
        pc[r] \in {"idle", "watch"} \/ Watching(r) => tries[r] < MaxTries

TypeInv == TypeOK /\ TriesLeft

LEMMA TypeInvStep == TypeInv /\ [Next]_vars => TypeInv'
<1> SUFFICES ASSUME TypeInv, [Next]_vars PROVE TypeInv'
    OBVIOUS
<1> USE DEF TypeInv, Watching
<1>1. ASSUME NEW r \in Requests, Disabled(r) PROVE TypeInv'
    BY <1>1 DEF Disabled, TypeOK, TriesLeft
<1>2. ASSUME NEW r \in Requests, Detect(r) PROVE TypeInv'
    BY <1>2 DEF Detect, TypeOK, TriesLeft, DynamicRule
<1>3. ASSUME NEW r \in Requests, Watch(r) PROVE TypeInv'
    BY <1>3 DEF Watch, TypeOK, TriesLeft
<1>4. ASSUME NEW r \in Requests, Get(r) PROVE TypeInv'
    <2>1. PICK d \in Decoded(store, slow) :
              /\ patches' = [patches EXCEPT ![r] = Patches(d, incident[r])]
              /\ built' = [built EXCEPT ![r] = Built(d, incident[r])]
              /\ pc' = [pc EXCEPT ![r] =
                           IF Patches(d, incident[r]) = {} THEN "unwatch"
                                                           ELSE "exec"]
        BY <1>4 DEF Get
    <2>2. /\ Patches(d, incident[r]) \in PatchSet
          /\ Built(d, incident[r]) \in DynamicRule
        BY MutatorType
    <2> QED BY <1>4, <2>1, <2>2 DEF Get, TypeOK, TriesLeft
<1>5. ASSUME NEW r \in Requests, Unwatch(r) PROVE TypeInv'
    BY <1>5, EmptyRulesType DEF Unwatch, TypeOK, TriesLeft
<1>6. ASSUME NEW r \in Requests, Exec(r) PROVE TypeInv'
    <2>1. CASE Commit(r) /\ pc' = [pc EXCEPT ![r] = "publish"]
                 /\ UNCHANGED <<patches, tries, built>>
        BY <1>6, <2>1 DEF Exec, Commit, TypeOK, TriesLeft
    <2>2. CASE Retry(r) /\ UNCHANGED <<store, dirty>>
        <3>1. tries[r] < MaxTries
            BY <1>6 DEF Exec, TriesLeft
        <3>2. TypeOK'
            BY <1>6, <2>2, <3>1, RetryType DEF Exec, TypeOK
        <3>3. TriesLeft'
            BY <1>6, <2>2, <3>1, SelfHealAssumption
               DEF Exec, Retry, TypeOK, TriesLeft
        <3> QED BY <3>2, <3>3
    <2> QED BY <1>6, <2>1, <2>2 DEF Exec
<1>7. ASSUME NEW r \in Requests, Publish(r) PROVE TypeInv'
    <2>1. Applied(r) \in Event
        BY DEF Applied, Event, TypeOK, DynamicRule
    <2> QED BY <1>7, <2>1, EmptyRulesType DEF Publish, TypeOK, TriesLeft
<1>8. ASSUME NEW r \in Requests, LinkFailsWatching(r) PROVE TypeInv'
    <2>1. tries[r] < MaxTries
        BY <1>8 DEF LinkFailsWatching, TriesLeft
    <2>2. /\ store' \in DynamicRule
          /\ dirty' \in [Requests -> BOOLEAN]
        <3>1. CASE UNCHANGED <<store, dirty>>
            BY <3>1 DEF TypeOK
        <3>2. CASE Commit(r)
            BY <3>2 DEF Commit, TypeOK
        <3> QED BY <1>8, <3>1, <3>2 DEF LinkFailsWatching
    <2>3. faults' \in [Requests -> 0..MaxFaults]
        BY <1>8, SelfHealAssumption DEF LinkFailsWatching, Fault, TypeOK
    <2>4. TypeOK'
        BY <1>8, <2>1, <2>2, <2>3, RetryType DEF LinkFailsWatching, TypeOK
    <2>5. TriesLeft'
        BY <1>8, <2>1, SelfHealAssumption
           DEF LinkFailsWatching, Retry, TypeOK, TriesLeft
    <2> QED BY <2>4, <2>5
<1>9. ASSUME NEW r \in Requests, LinkFailsPublishing(r) PROVE TypeInv'
    <2>1. Applied(r) \in Event
        BY DEF Applied, Event, TypeOK, DynamicRule
    <2>2. faults' \in [Requests -> 0..MaxFaults]
        BY <1>9, SelfHealAssumption DEF LinkFailsPublishing, Fault, TypeOK
    <2> QED BY <1>9, <2>1, <2>2, EmptyRulesType
            DEF LinkFailsPublishing, TypeOK, TriesLeft
<1>10. CASE UNCHANGED vars
    BY <1>10 DEF vars, TypeOK, TriesLeft
<1> QED BY <1>1, <1>2, <1>3, <1>4, <1>5, <1>6, <1>7, <1>8, <1>9, <1>10
        DEF Next, Step, Quiet

LEMMA TypeInvInit == Init => TypeInv
BY EmptyRulesType, SelfHealAssumption
   DEF Init, TypeInv, TypeOK, TriesLeft, PatchSet, EmptyRules

LEMMA TypeInvariant == Spec => []TypeInv
BY TypeInvInit, TypeInvStep, PTL DEF Spec

(***************************************************************************)
(* Type correctness: whatever the requests do, the stored lists stay       *)
(* within settings.self_heal_max_rule_growth and no request makes more     *)
(* than MaxTries attempts.                                                 *)
(***************************************************************************)
THEOREM TypeCorrect == Spec => []TypeOK
BY TypeInvariant, PTL DEF TypeInv

-------------------------------------------------------------------------------
(***************************************************************************)
(* The optimistic lock.  Only a commit changes the store, and it spoils    *)
(* the watch of every other request that could be holding a snapshot.      *)
(***************************************************************************)
LEMMA MergeInit == Init => UndisturbedMergeIsCurrent
BY DEF Init, UndisturbedMergeIsCurrent

\* A commit by r leaves no other request with a clean watch.
LEMMA CommitSpoils ==
    ASSUME TypeOK, NEW r \in Requests, Commit(r),
           NEW q \in Requests, q # r, Watching(q)
    PROVE  dirty'[q]
BY DEF Commit

LEMMA MergeStep ==
    TypeInv /\ UndisturbedMergeIsCurrent /\ [Next]_vars
        => UndisturbedMergeIsCurrent'
<1> SUFFICES ASSUME TypeInv, UndisturbedMergeIsCurrent, [Next]_vars,
                    NEW q \in Requests, pc'[q] = "exec", ~dirty'[q]
             PROVE  \E d \in Decoded(store', slow') :
                        /\ patches'[q] = Patches(d, incident'[q])
                        /\ patches'[q] # {}
                        /\ built'[q] = Built(d, incident'[q])
    BY DEF UndisturbedMergeIsCurrent
<1> USE DEF TypeInv
<1> DEFINE Quietly == /\ UNCHANGED <<store, slow, incident>>
                      /\ pc[q] = "exec" /\ ~dirty[q]
                      /\ patches'[q] = patches[q]
                      /\ built'[q] = built[q]
<1>0. CASE Quietly
    BY <1>0 DEF UndisturbedMergeIsCurrent
<1>1. ASSUME NEW r \in Requests, Disabled(r) PROVE Quietly
    BY <1>1 DEF Disabled, TypeOK
<1>2. ASSUME NEW r \in Requests, Detect(r) PROVE Quietly
    BY <1>2 DEF Detect, TypeOK
<1>3. ASSUME NEW r \in Requests, Watch(r) PROVE Quietly
    BY <1>3 DEF Watch, TypeOK
<1>4. ASSUME NEW r \in Requests, Get(r), q # r PROVE Quietly
    BY <1>4 DEF Get, TypeOK
<1>5. ASSUME NEW r \in Requests, Get(r), q = r
      PROVE  \E d \in Decoded(store', slow') :
                 /\ patches'[q] = Patches(d, incident'[q])
                 /\ patches'[q] # {}
                 /\ built'[q] = Built(d, incident'[q])
    <2>1. PICK d \in Decoded(store, slow) :
              /\ patches' = [patches EXCEPT ![r] = Patches(d, incident[r])]
              /\ built' = [built EXCEPT ![r] = Built(d, incident[r])]
              /\ pc' = [pc EXCEPT ![r] =
                           IF Patches(d, incident[r]) = {} THEN "unwatch"
                                                           ELSE "exec"]
        BY <1>5 DEF Get
    <2>2. Patches(d, incident[r]) # {}
        BY <1>5, <2>1 DEF TypeOK
    <2>3. /\ patches'[q] = Patches(d, incident[q])
          /\ built'[q] = Built(d, incident[q])
        BY <1>5, <2>1 DEF TypeOK
    <2>4. UNCHANGED <<store, slow, incident>>
        BY <1>5 DEF Get
    <2> QED BY <1>5, <2>2, <2>3, <2>4
<1>6. ASSUME NEW r \in Requests, Unwatch(r) PROVE Quietly
    BY <1>6 DEF Unwatch, TypeOK
<1>7. ASSUME NEW r \in Requests, Exec(r) PROVE Quietly
    <2>1. q # r
        BY <1>7 DEF Exec, Retry, TypeOK
    <2>2. pc[q] = "exec" /\ patches'[q] = patches[q] /\ built'[q] = built[q]
        BY <1>7, <2>1 DEF Exec, Retry, TypeOK
    <2>3. ~Commit(r)
        BY <2>1, <2>2, CommitSpoils DEF Watching
    <2> QED BY <1>7, <2>2, <2>3 DEF Exec
<1>8. ASSUME NEW r \in Requests, Publish(r) PROVE Quietly
    BY <1>8 DEF Publish, TypeOK
<1>9. ASSUME NEW r \in Requests, LinkFailsWatching(r) PROVE Quietly
    <2>1. q # r
        BY <1>9 DEF LinkFailsWatching, Retry, TypeOK
    <2>2. pc[q] = "exec" /\ patches'[q] = patches[q] /\ built'[q] = built[q]
        BY <1>9, <2>1 DEF LinkFailsWatching, Retry, TypeOK
    <2>3. ~Commit(r)
        BY <2>1, <2>2, CommitSpoils DEF Watching
    <2> QED BY <1>9, <2>2, <2>3 DEF LinkFailsWatching
<1>10. ASSUME NEW r \in Requests, LinkFailsPublishing(r) PROVE Quietly
    BY <1>10 DEF LinkFailsPublishing, TypeOK
<1>11. ASSUME UNCHANGED vars PROVE Quietly
    BY <1>11 DEF vars
<1> HIDE DEF Quietly
<1> QED BY <1>0, <1>1, <1>2, <1>3, <1>4, <1>5, <1>6, <1>7, <1>8, <1>9, <1>10,
           <1>11 DEF Next, Step, Quiet

(***************************************************************************)
(* merge_update is atomic: a transaction Redis accepts saves what merging  *)
(* into the value stored at that moment gives.                             *)
(***************************************************************************)
THEOREM MergeIsAtomic == Spec => []UndisturbedMergeIsCurrent
BY MergeInit, MergeStep, TypeInvariant, PTL DEF Spec

\* The ledger's pure operators are this module's.
LEMMA LedgerOperators ==
    /\ Ledger!EmptyRules = EmptyRules
    /\ \A s, b : Ledger!Decoded(s, b) = Decoded(s, b)
    /\ \A d, inc : /\ Ledger!Patches(d, inc) = Patches(d, inc)
                   /\ Ledger!Built(d, inc) = Built(d, inc)
<1>1. Ledger!EmptyRules = EmptyRules
    BY DEF EmptyRules, Ledger!EmptyRules
<1>2. ASSUME NEW s, NEW b PROVE Ledger!Decoded(s, b) = Decoded(s, b)
    BY DEF Decoded, Ledger!Decoded, Filtered, Ledger!Filtered, RuleList,
           Ledger!RuleList, IsSubsequence, Ledger!IsSubsequence
<1>3. ASSUME NEW l, NEW r PROVE Ledger!AppendNew(l, r) = AppendNew(l, r)
    BY DEF AppendNew, Ledger!AppendNew, Range, Ledger!Range
<1>4. ASSUME NEW d, NEW inc
      PROVE  /\ Ledger!GrownInjection(d, inc) = GrownInjection(d, inc)
             /\ Ledger!GrownExfil(d, inc) = GrownExfil(d, inc)
    BY <1>3 DEF GrownInjection, Ledger!GrownInjection, GrownExfil,
                Ledger!GrownExfil
<1>5. ASSUME NEW d, NEW inc PROVE Ledger!Patches(d, inc) = Patches(d, inc)
    BY <1>4 DEF Patches, Ledger!Patches, Range, Ledger!Range
<1>6. ASSUME NEW d, NEW inc PROVE Ledger!Built(d, inc) = Built(d, inc)
    BY <1>4 DEF Built, Ledger!Built, Capped, Ledger!Capped
<1> QED BY <1>1, <1>2, <1>5, <1>6

\* A commit of a clean transaction is a step of the ledger.
LEMMA CommitMerges ==
    ASSUME TypeInv, UndisturbedMergeIsCurrent, NEW r \in Requests,
           pc[r] = "exec", ~dirty[r], Commit(r), UNCHANGED slow
    PROVE  Ledger!LedgerNext
<1>1. PICK d \in Decoded(store, slow) :
          /\ patches[r] = Patches(d, incident[r])
          /\ patches[r] # {}
          /\ built[r] = Built(d, incident[r])
    BY DEF UndisturbedMergeIsCurrent
<1>2. incident[r] \in Incidents
    BY DEF TypeInv, TypeOK
<1>3. store' = Built(d, incident[r])
    BY <1>1 DEF Commit
<1> QED BY <1>1, <1>2, <1>3, LedgerOperators DEF Ledger!LedgerNext, Ledger!Merge

LEMMA LedgerStep ==
    TypeInv /\ UndisturbedMergeIsCurrent /\ [Next]_vars
        => [Ledger!LedgerNext]_<<store, slow>>
<1> SUFFICES ASSUME TypeInv, UndisturbedMergeIsCurrent, [Next]_vars
             PROVE  [Ledger!LedgerNext]_<<store, slow>>
    OBVIOUS
<1>1. ASSUME NEW r \in Requests, Exec(r)
      PROVE  [Ledger!LedgerNext]_<<store, slow>>
    BY <1>1, CommitMerges DEF Exec
<1>2. ASSUME NEW r \in Requests, LinkFailsWatching(r)
      PROVE  [Ledger!LedgerNext]_<<store, slow>>
    BY <1>2, CommitMerges DEF LinkFailsWatching
<1>3. ASSUME NEW r \in Requests,
             \/ Disabled(r) \/ Detect(r) \/ Watch(r) \/ Get(r) \/ Unwatch(r)
             \/ Publish(r) \/ LinkFailsPublishing(r)
      PROVE  UNCHANGED <<store, slow>>
    BY <1>3 DEF Disabled, Detect, Watch, Get, Unwatch, Publish,
                LinkFailsPublishing
<1>4. CASE UNCHANGED vars
    BY <1>4 DEF vars
<1> QED BY <1>1, <1>2, <1>3, <1>4 DEF Next, Step, Quiet

(***************************************************************************)
(* The code implements the ledger: no concurrent update of the dynamic     *)
(* rules is lost, and versions grow by one with each stored change,        *)
(* whatever the interleaving and wherever connections fail.                *)
(***************************************************************************)
THEOREM ImplementsLedger == Spec => RefinesLedger
<1>1. Init => Ledger!LedgerInit
    BY LedgerOperators DEF Init, Ledger!LedgerInit
<1> QED BY <1>1, LedgerStep, TypeInvariant, MergeIsAtomic, PTL
        DEF Spec, RefinesLedger, Ledger!LedgerSpec

-------------------------------------------------------------------------------
(***************************************************************************)
(* A spoiled watch is an attempt about to fail; counting it as one already *)
(* makes the bound on attempts inductive.                                  *)
(***************************************************************************)
Spoiled(r) == IF Watching(r) /\ dirty[r] THEN 1 ELSE 0

PaidFor ==
    \A r \in Requests :
        /\ start[r] <= store.version
        /\ pc[r] = "idle" => tries[r] = 0
        /\ tries[r] + Spoiled(r) <= (store.version - start[r]) + faults[r]

\* A commit of a clean transaction takes the next version.
LEMMA CommitVersion ==
    ASSUME TypeInv, UndisturbedMergeIsCurrent, NEW r \in Requests,
           pc[r] = "exec", ~dirty[r], Commit(r)
    PROVE  /\ built[r].version = store.version + 1
           /\ store' = built[r]
           /\ store'.version = store.version + 1
<1>1. PICK d \in Decoded(store, slow) : built[r] = Built(d, incident[r])
    BY DEF UndisturbedMergeIsCurrent
<1> QED BY <1>1, MutatorType DEF Commit, TypeInv

LEMMA PaidForStep ==
    TypeInv /\ UndisturbedMergeIsCurrent /\ PaidFor /\ [Next]_vars => PaidFor'
<1> SUFFICES ASSUME TypeInv, UndisturbedMergeIsCurrent, PaidFor, [Next]_vars,
                    NEW q \in Requests
             PROVE  /\ start'[q] <= store'.version
                    /\ pc'[q] = "idle" => tries'[q] = 0
                    /\ tries'[q] + Spoiled(q)'
                           <= (store'.version - start'[q]) + faults'[q]
    BY DEF PaidFor
<1> DEFINE Goal == /\ start'[q] <= store'.version
                   /\ pc'[q] = "idle" => tries'[q] = 0
                   /\ tries'[q] + Spoiled(q)'
                          <= (store'.version - start'[q]) + faults'[q]
<1>0. /\ store.version \in Nat /\ start[q] \in Nat /\ tries[q] \in Nat
      /\ faults[q] \in Nat /\ dirty[q] \in BOOLEAN
      /\ start[q] <= store.version
      /\ pc[q] = "idle" => tries[q] = 0
      /\ tries[q] + Spoiled(q) <= (store.version - start[q]) + faults[q]
    BY SelfHealAssumption DEF PaidFor, TypeInv, TypeOK, DynamicRule
<1> USE DEF Spoiled, Watching
<1>1. ASSUME NEW r \in Requests, Disabled(r) PROVE Goal
    BY <1>0, <1>1 DEF Disabled, TypeInv, TypeOK
<1>2. ASSUME NEW r \in Requests, Detect(r) PROVE Goal
    BY <1>0, <1>2 DEF Detect, TypeInv, TypeOK
<1>3. ASSUME NEW r \in Requests, Watch(r) PROVE Goal
    BY <1>0, <1>3 DEF Watch, TypeInv, TypeOK
<1>4. ASSUME NEW r \in Requests, Get(r) PROVE Goal
    BY <1>0, <1>4 DEF Get, TypeInv, TypeOK
<1>5. ASSUME NEW r \in Requests, Unwatch(r) PROVE Goal
    BY <1>0, <1>5 DEF Unwatch, TypeInv, TypeOK
<1>6. ASSUME NEW r \in Requests, Exec(r) PROVE Goal
    <2>1. CASE dirty[r]
        BY <1>0, <1>6, <2>1 DEF Exec, Retry, TypeInv, TypeOK
    <2>2. CASE ~dirty[r]
        <3>1. /\ pc[r] = "exec" /\ Commit(r)
              /\ pc' = [pc EXCEPT ![r] = "publish"]
              /\ UNCHANGED <<tries, faults, start>>
            BY <1>6, <2>2 DEF Exec
        <3>2. store'.version = store.version + 1
            BY <3>1, <2>2, CommitVersion
        <3>3. q # r /\ Watching(q) => dirty'[q] = TRUE
            BY <3>1 DEF Commit
        <3>4. pc'[q] = IF q = r THEN "publish" ELSE pc[q]
            BY <3>1 DEF TypeInv, TypeOK
        <3>5. Spoiled(q)' <= 1 /\ Spoiled(q)' \in {0, 1}
            OBVIOUS
        <3>6. q # r /\ ~Watching(q) => Spoiled(q)' = 0
            BY <3>4
        <3>7. Spoiled(q) \in {0, 1}
            OBVIOUS
        <3> HIDE DEF Spoiled
        <3> QED BY <1>0, <3>1, <3>2, <3>4, <3>5, <3>7
    <2> QED BY <2>1, <2>2
<1>7. ASSUME NEW r \in Requests, Publish(r) PROVE Goal
    BY <1>0, <1>7 DEF Publish, TypeInv, TypeOK
<1>8. ASSUME NEW r \in Requests, LinkFailsWatching(r) PROVE Goal
    <2>1. /\ UNCHANGED start
          /\ faults'[q] = IF q = r THEN faults[q] + 1 ELSE faults[q]
          /\ tries'[q] = IF q = r THEN tries[q] + 1 ELSE tries[q]
          /\ q # r => pc'[q] = pc[q]
          /\ q = r => pc'[q] \in {"done", "watch"}
        BY <1>8 DEF LinkFailsWatching, Fault, Retry, TypeInv, TypeOK
    <2>2. CASE UNCHANGED <<store, dirty>>
        BY <1>0, <2>1, <2>2
    <2>3. CASE pc[r] = "exec" /\ ~dirty[r] /\ Commit(r)
        <3>1. store'.version = store.version + 1
            BY <2>3, CommitVersion
        <3>2. Spoiled(q)' \in {0, 1} /\ Spoiled(q) \in {0, 1}
            OBVIOUS
        <3>3. q = r => Spoiled(q)' = 0
            BY <2>1
        <3>4. pc'[q] # "idle" \/ pc'[q] = pc[q]
            BY <2>1
        <3> HIDE DEF Spoiled
        <3> QED BY <1>0, <2>1, <3>1, <3>2, <3>3, <3>4
    <2> QED BY <1>8, <2>2, <2>3 DEF LinkFailsWatching
<1>9. ASSUME NEW r \in Requests, LinkFailsPublishing(r) PROVE Goal
    BY <1>0, <1>9 DEF LinkFailsPublishing, Fault, TypeInv, TypeOK
<1>10. CASE UNCHANGED vars
    BY <1>0, <1>10 DEF vars
<1> HIDE DEF Goal
<1>11. Goal
    BY <1>1, <1>2, <1>3, <1>4, <1>5, <1>6, <1>7, <1>8, <1>9, <1>10
       DEF Next, Step, Quiet, Goal
<1> QED BY <1>11 DEF Goal

(***************************************************************************)
(* An incident is given up only after MaxTries attempts, each of them paid *)
(* for by another request's stored change or by a connection failure.      *)
(***************************************************************************)
THEOREM GivingUpIsPaidFor == Spec => []RetriesPaidFor
<1>1. Init => PaidFor
    BY DEF Init, PaidFor, Spoiled, Watching, EmptyRules
<1>2. TypeInv /\ PaidFor => RetriesPaidFor
    <2> SUFFICES ASSUME TypeInv, PaidFor, NEW r \in Requests
                 PROVE  tries[r] <= (store.version - start[r]) + faults[r]
        BY DEF RetriesPaidFor
    <2>1. tries[r] \in Nat /\ store.version \in Nat /\ start[r] \in Nat
            /\ faults[r] \in Nat
        BY SelfHealAssumption DEF TypeInv, TypeOK, DynamicRule
    <2>2. Spoiled(r) \in {0, 1}
        BY DEF Spoiled
    <2> QED BY <2>1, <2>2 DEF PaidFor
<1> QED BY <1>1, <1>2, PaidForStep, TypeInvariant, MergeIsAtomic, PTL DEF Spec

-------------------------------------------------------------------------------
(***************************************************************************)
(* A version between its commit and its announcement belongs to one        *)
(* request; nothing announced or about to be shares it.                    *)
(***************************************************************************)
Announcing(r) == pc[r] = "publish"

VersionsOwned ==
    /\ AppliedVersionsUnique
    /\ \A r \in Requests : Announcing(r) =>
          /\ built[r].version <= store.version
          /\ \A e \in applied : e.rules_version # built[r].version
          /\ \A q \in Requests :
                Announcing(q) /\ q # r => built[q].version # built[r].version

\* Steps that announce nothing and store nothing disturb no version.
LEMMA VersionsUndisturbed ==
    ASSUME VersionsOwned, store'.version = store.version, applied' = applied,
           \A q \in Requests : Announcing(q)' =>
              Announcing(q) /\ built'[q] = built[q]
    PROVE  VersionsOwned'
BY DEF VersionsOwned, AppliedVersionsUnique, Announcing

\* A commit takes a version no one has.
LEMMA VersionsAfterCommit ==
    ASSUME TypeInv, UndisturbedMergeIsCurrent, VersionsOwned,
           NEW r \in Requests, pc[r] = "exec", ~dirty[r], Commit(r),
           applied' = applied,
           \A q \in Requests : Announcing(q)' =>
              (q = r \/ Announcing(q)) /\ built'[q] = built[q]
    PROVE  VersionsOwned'
<1>1. /\ built[r].version = store.version + 1
      /\ store'.version = store.version + 1
    BY CommitVersion
<1>2. /\ store.version \in Nat
      /\ \A q \in Requests : built[q].version \in Nat
      /\ \A e \in applied : e.rules_version \in Nat
    BY DEF TypeInv, TypeOK, DynamicRule, Event
<1>3. AppliedVersionsUnique'
    BY <1>1, <1>2 DEF VersionsOwned, AppliedVersionsUnique
<1>4. ASSUME NEW q \in Requests, Announcing(q)'
      PROVE  /\ built'[q].version <= store'.version
             /\ \A e \in applied' : e.rules_version # built'[q].version
    BY <1>1, <1>2, <1>4 DEF VersionsOwned, AppliedVersionsUnique
<1>5. ASSUME NEW q \in Requests, NEW p \in Requests,
             Announcing(q)', Announcing(p)', p # q
      PROVE  built'[p].version # built'[q].version
    BY <1>1, <1>2, <1>5 DEF VersionsOwned
<1> QED BY <1>3, <1>4, <1>5 DEF VersionsOwned

\* Announcing a version moves it from its request to the stream, or loses it.
LEMMA VersionsAfterPublish ==
    ASSUME TypeInv, VersionsOwned, NEW r \in Requests, Announcing(r),
           applied' \in {applied, applied \union {Applied(r)}},
           store' = store,
           \A q \in Requests : Announcing(q)' =>
              q # r /\ Announcing(q) /\ built'[q] = built[q]
    PROVE  VersionsOwned'
<1>1. \A e \in applied' : \/ e \in applied
                          \/ e = Applied(r) /\ e.rules_version = built[r].version
    BY DEF Applied
<1>2. AppliedVersionsUnique'
    BY <1>1 DEF VersionsOwned, AppliedVersionsUnique
<1>3. ASSUME NEW q \in Requests, Announcing(q)'
      PROVE  /\ built'[q].version <= store'.version
             /\ \A e \in applied' : e.rules_version # built'[q].version
    BY <1>1, <1>3 DEF VersionsOwned
<1>4. ASSUME NEW q \in Requests, NEW p \in Requests,
             Announcing(q)', Announcing(p)', p # q
      PROVE  built'[p].version # built'[q].version
    BY <1>4 DEF VersionsOwned
<1> QED BY <1>2, <1>3, <1>4 DEF VersionsOwned

LEMMA VersionsStep ==
    TypeInv /\ UndisturbedMergeIsCurrent /\ VersionsOwned /\ [Next]_vars
        => VersionsOwned'
<1> SUFFICES ASSUME TypeInv, UndisturbedMergeIsCurrent, VersionsOwned,
                    [Next]_vars
             PROVE  VersionsOwned'
    OBVIOUS
<1> USE DEF Announcing
<1>1. ASSUME NEW r \in Requests,
             Disabled(r) \/ Detect(r) \/ Watch(r) \/ Get(r) \/ Unwatch(r)
      PROVE  VersionsOwned'
    <2>1. /\ store' = store /\ applied' = applied
          /\ \A q \in Requests : pc'[q] = "publish" =>
                pc[q] = "publish" /\ built'[q] = built[q]
        BY <1>1 DEF Disabled, Detect, Watch, Get, Unwatch, TypeInv, TypeOK
    <2> QED BY <2>1, VersionsUndisturbed
<1>2. ASSUME NEW r \in Requests, Retry(r), UNCHANGED <<store, applied>>
      PROVE  VersionsOwned'
    <2>1. \A q \in Requests : pc'[q] = "publish" =>
              pc[q] = "publish" /\ built'[q] = built[q]
        BY <1>2 DEF Retry, TypeInv, TypeOK
    <2> QED BY <1>2, <2>1, VersionsUndisturbed
<1>3. ASSUME NEW r \in Requests, Exec(r) PROVE VersionsOwned'
    <2>1. CASE dirty[r]
        BY <1>2, <1>3, <2>1 DEF Exec
    <2>2. CASE ~dirty[r]
        <3>1. /\ pc[r] = "exec" /\ Commit(r) /\ applied' = applied
              /\ \A q \in Requests : pc'[q] = "publish" =>
                    (q = r \/ pc[q] = "publish") /\ built'[q] = built[q]
            BY <1>3, <2>2 DEF Exec, TypeInv, TypeOK
        <3> QED BY <2>2, <3>1, VersionsAfterCommit
    <2> QED BY <2>1, <2>2
<1>4. ASSUME NEW r \in Requests, Publish(r) PROVE VersionsOwned'
    <2>1. /\ pc[r] = "publish" /\ store' = store
          /\ applied' = applied \union {Applied(r)}
          /\ \A q \in Requests : pc'[q] = "publish" =>
                q # r /\ pc[q] = "publish" /\ built'[q] = built[q]
        BY <1>4 DEF Publish, TypeInv, TypeOK
    <2> QED BY <2>1, VersionsAfterPublish
<1>5. ASSUME NEW r \in Requests, LinkFailsWatching(r) PROVE VersionsOwned'
    <2>1. CASE UNCHANGED <<store, dirty>>
        BY <1>2, <1>5, <2>1 DEF LinkFailsWatching
    <2>2. CASE pc[r] = "exec" /\ ~dirty[r] /\ Commit(r)
        <3>1. /\ applied' = applied
              /\ \A q \in Requests : pc'[q] = "publish" =>
                    (q = r \/ pc[q] = "publish") /\ built'[q] = built[q]
            BY <1>5 DEF LinkFailsWatching, Retry, TypeInv, TypeOK
        <3> QED BY <2>2, <3>1, VersionsAfterCommit
    <2> QED BY <1>5, <2>1, <2>2 DEF LinkFailsWatching
<1>6. ASSUME NEW r \in Requests, LinkFailsPublishing(r) PROVE VersionsOwned'
    <2>1. /\ store' = store
          /\ \A q \in Requests : pc'[q] = "publish" =>
                q # r /\ pc[q] = "publish" /\ built'[q] = built[q]
        BY <1>6 DEF LinkFailsPublishing, TypeInv, TypeOK
    <2>2. CASE applied' = applied
        BY <2>1, <2>2, VersionsUndisturbed
    <2>3. CASE pc[r] = "publish"
        <3>1. applied' \in {applied, applied \union {Applied(r)}}
            BY <1>6, <2>3 DEF LinkFailsPublishing
        <3> QED BY <2>1, <2>3, <3>1, VersionsAfterPublish
    <2> QED BY <1>6, <2>2, <2>3 DEF LinkFailsPublishing
<1>7. CASE UNCHANGED vars
    BY <1>7, VersionsUndisturbed DEF vars
<1> QED BY <1>1, <1>3, <1>4, <1>5, <1>6, <1>7 DEF Next, Step, Quiet

(***************************************************************************)
(* Each announced version was stored by the request that announces it and  *)
(* is announced once.                                                      *)
(***************************************************************************)
THEOREM VersionsAnnouncedOnce == Spec => []AppliedVersionsUnique
<1>1. Init => VersionsOwned
    BY DEF Init, VersionsOwned, AppliedVersionsUnique, Announcing
<1>2. VersionsOwned => AppliedVersionsUnique
    BY DEF VersionsOwned
<1> QED BY <1>1, <1>2, VersionsStep, TypeInvariant, MergeIsAtomic, PTL DEF Spec

-------------------------------------------------------------------------------
\* On a host that meets the probes' deadline, a store change extends the lists.
LEMMA CommitKeeps ==
    ASSUME TypeInv, UndisturbedMergeIsCurrent, NEW r \in Requests,
           pc[r] = "exec", ~dirty[r], Commit(r), ~slow
    PROVE  /\ IsPrefix(store.injection, store'.injection)
           /\ IsPrefix(store.exfil, store'.exfil)
<1>1. PICK d \in Decoded(store, slow) : built[r] = Built(d, incident[r])
    BY DEF UndisturbedMergeIsCurrent
<1>2. d = store /\ d \in DynamicRule /\ incident[r] \in Incident
    BY DecodedType, SelfHealAssumption DEF TypeInv, TypeOK
<1>3. store' = Built(store, incident[r]) /\ store' \in DynamicRule
    BY <1>1, <1>2, BuiltType DEF Commit
<1>4. /\ store.injection \in Seq(Regex) /\ store'.injection \in Seq(Regex)
      /\ store.exfil \in Seq(Regex) /\ store'.exfil \in Seq(Regex)
    BY <1>2, <1>3, RuleListIsSeq DEF DynamicRule
<1> QED BY <1>2, <1>3, <1>4, BuiltExtends, PrefixByElements

\* Every list is a prefix of itself.
LEMMA StoreKept ==
    ASSUME TypeInv, store' = store
    PROVE  /\ IsPrefix(store.injection, store'.injection)
           /\ IsPrefix(store.exfil, store'.exfil)
<1>1. store.injection \in Seq(Regex) /\ store.exfil \in Seq(Regex)
    BY RuleListIsSeq DEF TypeInv, TypeOK, DynamicRule
<1> QED BY <1>1, PrefixByElements

Kept == /\ IsPrefix(store.injection, store'.injection)
        /\ IsPrefix(store.exfil, store'.exfil)

LEMMA KeptStep ==
    TypeInv /\ UndisturbedMergeIsCurrent /\ [Next]_vars /\ ~slow => Kept
<1> SUFFICES ASSUME TypeInv, UndisturbedMergeIsCurrent, [Next]_vars, ~slow
             PROVE  Kept
    OBVIOUS
<1>1. \/ store' = store
      \/ \E r \in Requests : pc[r] = "exec" /\ ~dirty[r] /\ Commit(r)
    BY DEF Next, Step, Disabled, Detect, Watch, Get, Unwatch, Exec, Publish,
           LinkFailsWatching, LinkFailsPublishing, Quiet, vars
<1> QED BY <1>1, CommitKeeps, StoreKept DEF Kept

(***************************************************************************)
(* Learned rules are never removed or reordered, whatever runs at once.    *)
(***************************************************************************)
THEOREM RulesAreKept == Spec => RulesKept
<1>1. TypeInv /\ UndisturbedMergeIsCurrent /\ [Next]_vars
        => [~slow => /\ IsPrefix(store.injection, store'.injection)
                     /\ IsPrefix(store.exfil, store'.exfil)]_vars
    BY KeptStep DEF Kept
<1> QED BY <1>1, TypeInvariant, MergeIsAtomic, PTL DEF Spec, RulesKept

-------------------------------------------------------------------------------
StoredOrFull(p) == p[2] \in Range(ListOf(p)) \/ Len(ListOf(p)) = MaxRuleGrowth

\* The strengthening: it holds of the patches about to be announced as well.
ReportedStoredOrFull ==
    ~slow =>
        /\ \A e \in applied : \A p \in e.patches : StoredOrFull(p)
        /\ \A r \in Requests : pc[r] = "publish" =>
              \A p \in patches[r] : StoredOrFull(p)

\* A stored pattern stays stored and a full list stays full.
LEMMA StoredOrFullStable ==
    ASSUME TypeInv, TypeInv', Kept, NEW p, StoredOrFull(p)
    PROVE  StoredOrFull(p)'
<1>1. /\ ListOf(p) \in Seq(Regex) /\ Len(ListOf(p)) \in 0..MaxRuleGrowth
      /\ ListOf(p)' \in Seq(Regex) /\ Len(ListOf(p)') \in 0..MaxRuleGrowth
    BY RuleListIsSeq DEF TypeInv, TypeOK, DynamicRule, ListOf
<1>2. /\ Len(ListOf(p)) <= Len(ListOf(p)')
      /\ SubSeq(ListOf(p), 1, Len(ListOf(p)))
            = SubSeq(ListOf(p)', 1, Len(ListOf(p)))
    BY DEF Kept, IsPrefix, ListOf
<1>3. \A i \in 1..Len(ListOf(p)) : ListOf(p)'[i] = ListOf(p)[i]
    <2>1. \A i \in 1..Len(ListOf(p)) :
              /\ SubSeq(ListOf(p), 1, Len(ListOf(p)))[i] = ListOf(p)[i]
              /\ SubSeq(ListOf(p)', 1, Len(ListOf(p)))[i] = ListOf(p)'[i]
        BY <1>1, <1>2
    <2> QED BY <1>2, <2>1
<1>4. CASE p[2] \in Range(ListOf(p))
    <2>1. PICK i \in 1..Len(ListOf(p)) : p[2] = ListOf(p)[i]
        BY <1>1, <1>4 DEF Range
    <2>2. i \in DOMAIN (ListOf(p)')
        BY <1>1, <1>2
    <2>3. p[2] \in Range(ListOf(p)')
        BY <1>3, <2>1, <2>2 DEF Range
    <2> QED BY <2>3 DEF StoredOrFull
<1>5. CASE Len(ListOf(p)) = MaxRuleGrowth
    BY <1>1, <1>2, <1>5, RulesAssumption DEF StoredOrFull
<1> QED BY <1>4, <1>5 DEF StoredOrFull

\* What a commit saves holds every pattern it reports, or is full.
LEMMA CommitStores ==
    ASSUME TypeInv, UndisturbedMergeIsCurrent, NEW r \in Requests,
           pc[r] = "exec", ~dirty[r], Commit(r), NEW p \in patches[r]
    PROVE  StoredOrFull(p)'
<1>1. PICK d \in Decoded(store, slow) :
          patches[r] = Patches(d, incident[r]) /\ built[r] = Built(d, incident[r])
    BY DEF UndisturbedMergeIsCurrent
<1>2. d \in DynamicRule /\ incident[r] \in Incident
    BY DecodedType, SelfHealAssumption DEF TypeInv, TypeOK
<1>3. store' = Built(d, incident[r])
    BY <1>1 DEF Commit
<1> QED BY <1>1, <1>2, <1>3, PatchStoredOrFull DEF StoredOrFull, ListOf

LEMMA ReportedStep ==
    TypeInv /\ TypeInv' /\ UndisturbedMergeIsCurrent
        /\ ReportedStoredOrFull /\ [Next]_vars
        => ReportedStoredOrFull'
<1> SUFFICES ASSUME TypeInv, TypeInv', UndisturbedMergeIsCurrent,
                    ReportedStoredOrFull, [Next]_vars
             PROVE  ReportedStoredOrFull'
    OBVIOUS
<1>1. slow' = slow
    BY DEF Next, Step, Disabled, Detect, Watch, Get, Unwatch, Exec, Publish,
           LinkFailsWatching, LinkFailsPublishing, Quiet, vars
<1>2. ~slow => \A p : StoredOrFull(p) => StoredOrFull(p)'
    BY KeptStep, StoredOrFullStable
<1>3. \A e \in applied' :
          \/ e \in applied
          \/ \E r \in Requests : pc[r] = "publish" /\ e.patches = patches[r]
    BY DEF Next, Step, Disabled, Detect, Watch, Get, Unwatch, Exec, Publish,
           LinkFailsWatching, LinkFailsPublishing, Quiet, vars, Applied
<1>4. ASSUME NEW q \in Requests, pc'[q] = "publish"
      PROVE  \/ pc[q] = "publish" /\ patches'[q] = patches[q]
             \/ /\ pc[q] = "exec" /\ ~dirty[q] /\ Commit(q)
                /\ patches'[q] = patches[q]
    <2> USE DEF TypeInv, TypeOK
    <2>1. ASSUME NEW r \in Requests,
                 \/ Disabled(r) \/ Detect(r) \/ Watch(r) \/ Get(r) \/ Unwatch(r)
                 \/ Publish(r) \/ LinkFailsPublishing(r)
          PROVE  pc[q] = "publish" /\ patches'[q] = patches[q]
        BY <1>4, <2>1 DEF Disabled, Detect, Watch, Get, Unwatch, Publish,
                          LinkFailsPublishing
    <2>2. ASSUME NEW r \in Requests, Exec(r), q # r
          PROVE  pc[q] = "publish" /\ patches'[q] = patches[q]
        BY <1>4, <2>2 DEF Exec, Retry
    <2>3. ASSUME NEW r \in Requests, Exec(r), q = r
          PROVE  /\ pc[q] = "exec" /\ ~dirty[q] /\ Commit(q)
                 /\ patches'[q] = patches[q]
        BY <1>4, <2>3 DEF Exec, Retry
    <2>4. ASSUME NEW r \in Requests, LinkFailsWatching(r)
          PROVE  pc[q] = "publish" /\ patches'[q] = patches[q]
        BY <1>4, <2>4 DEF LinkFailsWatching, Retry
    <2>5. CASE UNCHANGED vars
        BY <1>4, <2>5 DEF vars
    <2> QED BY <2>1, <2>2, <2>3, <2>4, <2>5 DEF Next, Step, Quiet
<1>5. ASSUME ~slow, NEW e \in applied', NEW p \in e.patches
      PROVE  StoredOrFull(p)'
    BY <1>2, <1>3, <1>5 DEF ReportedStoredOrFull
<1>6. ASSUME ~slow, NEW q \in Requests, pc'[q] = "publish", NEW p \in patches'[q]
      PROVE  StoredOrFull(p)'
    BY <1>2, <1>4, <1>6, CommitStores DEF ReportedStoredOrFull
<1> QED BY <1>1, <1>5, <1>6 DEF ReportedStoredOrFull

(***************************************************************************)
(* A pattern announced by self_heal.applied is stored, or its list is full:*)
(* the cap is the only thing that ever drops an announced update.          *)
(***************************************************************************)
THEOREM OnlyTheCapDrops == Spec => []AppliedStoredOrFull
<1>1. Init => ReportedStoredOrFull
    BY DEF Init, ReportedStoredOrFull
<1>2. ReportedStoredOrFull => AppliedStoredOrFull
    BY DEF ReportedStoredOrFull, AppliedStoredOrFull, StoredOrFull
<1> QED BY <1>1, <1>2, ReportedStep, TypeInvariant, MergeIsAtomic, PTL DEF Spec
-------------------------------------------------------------------------------
(***************************************************************************)
(*                        THE LEARNING LOOP                                *)
(*                                                                         *)
(* From here on, Learning: requests answered one after the other under the *)
(* rules learned so far.  First what the agents return, list by list, and  *)
(* that it is a list of signals; then their evidence.                      *)
(***************************************************************************)

\* A signal or finding raised under a condition is a list of one or none.
LEMMA OneOrNone ==
    ASSUME NEW S
    PROVE  <<>> \in Seq(S) /\ \A s \in S : <<s>> \in Seq(S)
OBVIOUS

\* A hit is a base pattern or a learned one that finds the text.
LEMMA HitsType ==
    ASSUME NEW base \in SUBSET Regex, IsFiniteSet(base),
           NEW learned \in Seq(Regex), NEW text
    PROVE  /\ Hits(base, learned, text) \in Nat
           /\ Hits(base, learned, text) > 0 <=>
                 \/ \E r \in base : Finds(r, text)
                 \/ \E i \in 1..Len(learned) : Finds(learned[i], text)
<1> DEFINE B == {r \in base : Finds(r, text)}
           L == {i \in DOMAIN learned : Finds(learned[i], text)}
<1>1. DOMAIN learned = 1..Len(learned) /\ Len(learned) \in Nat
    BY LenProperties
<1>2. IsFiniteSet(B)
    BY FS_Subset
<1>3. IsFiniteSet(L)
    <2>1. IsFiniteSet(1..Len(learned)) /\ L \in SUBSET (1..Len(learned))
        BY <1>1, FS_Interval
    <2> QED BY <2>1, FS_Subset
<1>4. /\ Cardinality(B) \in Nat /\ (Cardinality(B) = 0 <=> B = {})
      /\ Cardinality(L) \in Nat /\ (Cardinality(L) = 0 <=> L = {})
    <2> HIDE DEF B, L
    <2> QED BY <1>2, <1>3, FS_CardinalityType, FS_EmptySet
<1>5. Hits(base, learned, text) = Cardinality(B) + Cardinality(L)
    BY DEF Hits
<1>6. B # {} <=> \E r \in base : Finds(r, text)
    OBVIOUS
<1>7. L # {} <=> \E i \in 1..Len(learned) : Finds(learned[i], text)
    BY <1>1
<1> HIDE DEF B, L
<1> QED BY <1>4, <1>5, <1>6, <1>7

\* A longer list of learned patterns hits at least as often.
LEMMA HitsGrow ==
    ASSUME NEW base \in SUBSET Regex, IsFiniteSet(base),
           NEW short \in Seq(Regex), NEW long \in Seq(Regex), NEW text,
           Len(short) <= Len(long), \A i \in 1..Len(short) : long[i] = short[i]
    PROVE  Hits(base, long, text) >= Hits(base, short, text)
<1> DEFINE B == {r \in base : Finds(r, text)}
           L(l) == {i \in DOMAIN l : Finds(l[i], text)}
<1>1. /\ DOMAIN short = 1..Len(short) /\ Len(short) \in Nat
      /\ DOMAIN long = 1..Len(long) /\ Len(long) \in Nat
    BY LenProperties
<1>2. IsFiniteSet(B)
    BY FS_Subset
<1>3. IsFiniteSet(L(long))
    <2>1. IsFiniteSet(1..Len(long)) /\ L(long) \in SUBSET (1..Len(long))
        BY <1>1, FS_Interval
    <2> QED BY <2>1, FS_Subset
<1>4. L(short) \subseteq L(long)
    BY <1>1
<1>5. /\ Cardinality(L(long)) \in Nat /\ Cardinality(L(short)) \in Nat
      /\ Cardinality(L(short)) <= Cardinality(L(long))
      /\ Cardinality(B) \in Nat
    <2> HIDE DEF B, L
    <2> QED BY <1>2, <1>3, <1>4, FS_Subset, FS_CardinalityType
<1>6. /\ Hits(base, long, text) = Cardinality(B) + Cardinality(L(long))
      /\ Hits(base, short, text) = Cardinality(B) + Cardinality(L(short))
    BY DEF Hits
<1> HIDE DEF B, L
<1> QED BY <1>5, <1>6

LEMMA MatchScoreMonotone ==
    ASSUME NEW m \in Nat \ {0}, NEW n \in Nat \ {0}, m <= n
    PROVE  /\ MatchScore(m) \in 0..100 /\ MatchScore(n) \in 0..100
           /\ MatchScore(m) <= MatchScore(n)
BY DEF MatchScore, AtMost

-------------------------------------------------------------------------------
\* The learned lists are sequences of patterns, and so is the empty one.
LEMMA RulesAreLists ==
    ASSUME NEW dyn \in DynamicRule
    PROVE  dyn.injection \in Seq(Regex) /\ dyn.exfil \in Seq(Regex)
BY RuleListIsSeq DEF DynamicRule

LEMMA BasesFinite ==
    /\ BaseInjection \in SUBSET Regex /\ IsFiniteSet(BaseInjection)
    /\ BaseJailbreak \in SUBSET Regex /\ IsFiniteSet(BaseJailbreak)
    /\ BaseExfil \in SUBSET Regex /\ IsFiniteSet(BaseExfil)
BY AgentsAssumption

\* The sentinel's four signals.
InjectionHits(req, dyn) == Hits(BaseInjection, dyn.injection, req.input)
ExfilHits(req, dyn)     == Hits(BaseExfil, dyn.exfil, req.input)
JailbreakHits(req)      == Hits(BaseJailbreak, <<>>, req.input)

OnInjection(n) == When(n > 0, Sig("sentinel", "prompt_injection", MatchScore(n), 75))
OnJailbreak(n) == When(n > 0, Sig("sentinel", "jailbreak", MatchScore(n), 80))
OnExfil(n)     == When(n > 0, Sig("sentinel", "data_exfiltration", MatchScore(n), 70))
OnEvasion(n)   == When(n > 0, Sig("sentinel", "prompt_injection",
                                  AtMost(40 + 15 * (n - 1), 80), 65))

LEMMA SentinelParts ==
    ASSUME NEW req, NEW dyn
    PROVE  SentinelSignals(req, dyn)
             = OnInjection(InjectionHits(req, dyn)) \o OnJailbreak(JailbreakHits(req))
                 \o OnExfil(ExfilHits(req, dyn)) \o OnEvasion(req.evasions)
BY DEF SentinelSignals, OnInjection, OnJailbreak, OnExfil, OnEvasion,
       InjectionHits, ExfilHits, JailbreakHits

LEMMA HitsNat ==
    ASSUME NEW req \in AnalyzeRequest, NEW dyn \in DynamicRule
    PROVE  /\ InjectionHits(req, dyn) \in Nat
           /\ ExfilHits(req, dyn) \in Nat
           /\ JailbreakHits(req) \in Nat
<1>1. <<>> \in Seq(Regex)
    OBVIOUS
<1> QED BY <1>1, HitsType, BasesFinite, RulesAreLists
        DEF InjectionHits, ExfilHits, JailbreakHits

LEMMA AgentsAndThreats ==
    /\ "sentinel" \in DOMAIN DefaultWeights /\ "policy" \in DOMAIN DefaultWeights
    /\ "behavior" \in DOMAIN DefaultWeights /\ "artifact" \in DOMAIN DefaultWeights
    /\ "prompt_injection" \in Threats /\ "jailbreak" \in Threats
    /\ "data_exfiltration" \in Threats /\ "tool_abuse" \in Threats
    /\ "anomaly" \in Threats /\ "policy_violation" \in Threats
    /\ "malware_in_file" \in Threats
BY DEF DefaultWeights, Threats

LEMMA SentinelType ==
    ASSUME NEW n \in Nat
    PROVE  /\ OnInjection(n) \in Seq(Signal) /\ OnJailbreak(n) \in Seq(Signal)
           /\ OnExfil(n) \in Seq(Signal) /\ OnEvasion(n) \in Seq(Signal)
<1>1. CASE n > 0
    <2>1. MatchScore(n) \in 0..100 /\ AtMost(40 + 15 * (n - 1), 80) \in 0..100
        BY <1>1, MatchScoreMonotone DEF AtMost
    <2>2. ASSUME NEW x \in 0..100
          PROVE  /\ Sig("sentinel", "prompt_injection", x, 75) \in Signal
                 /\ Sig("sentinel", "jailbreak", x, 80) \in Signal
                 /\ Sig("sentinel", "data_exfiltration", x, 70) \in Signal
                 /\ Sig("sentinel", "prompt_injection", x, 65) \in Signal
        BY <2>2, AgentsAndThreats DEF Sig, Signal
    <2> QED BY <1>1, <2>1, <2>2, OneOrNone
            DEF OnInjection, OnJailbreak, OnExfil, OnEvasion, When
<1>2. CASE ~ (n > 0)
    BY <1>2, OneOrNone DEF OnInjection, OnJailbreak, OnExfil, OnEvasion, When
<1> QED BY <1>1, <1>2

LEMMA SentinelLists ==
    ASSUME NEW req \in AnalyzeRequest, NEW dyn \in DynamicRule
    PROVE  /\ OnInjection(InjectionHits(req, dyn)) \in Seq(Signal)
           /\ OnJailbreak(JailbreakHits(req)) \in Seq(Signal)
           /\ OnExfil(ExfilHits(req, dyn)) \in Seq(Signal)
           /\ OnEvasion(req.evasions) \in Seq(Signal)
<1>1. req.evasions \in Nat
    BY DEF AnalyzeRequest
<1> QED BY <1>1, HitsNat, SentinelType

\* The other agents' signals: what the policy finds in the sentinel's text ...
LEMMA PolicyType ==
    ASSUME NEW text, NEW policy
    PROVE  PolicySignals(text, policy) \in Seq(Signal)
<1>1. Sig("policy", "policy_violation", 90, 85) \in Signal
    BY AgentsAndThreats DEF Sig, Signal
<1> QED BY <1>1, OneOrNone DEF PolicySignals, When

\* ... the behavior of the model ...
LEMMA CountNat ==
    ASSUME NEW n \in Nat, NEW S \in SUBSET (1..n)
    PROVE  Cardinality(S) \in Nat
<1>1. IsFiniteSet(1..n)
    BY FS_Interval
<1>2. IsFiniteSet(S)
    BY <1>1, FS_Subset
<1> QED BY <1>2, FS_CardinalityType

LEMMA CallType ==
    ASSUME NEW calls \in Seq([hint : BOOLEAN, exec : BOOLEAN])
    PROVE  CallSignals(calls) \in Seq(Signal)
<1> DEFINE hints == Cardinality({i \in DOMAIN calls : calls[i].hint})
           execs == Cardinality({i \in DOMAIN calls : calls[i].exec})
           H == When(hints > 0, Sig("behavior", "tool_abuse",
                                    AtMost(60 + 10 * (hints - 1), 95), 70))
           E == [i \in 1..execs |-> Sig("behavior", "tool_abuse", 90, 85)]
<1>1. DOMAIN calls = 1..Len(calls) /\ Len(calls) \in Nat
    BY LenProperties
<1>2. hints \in Nat /\ execs \in Nat
    BY <1>1, CountNat
<1> HIDE DEF hints, execs
<1>3. H \in Seq(Signal)
    <2>1. CASE hints > 0
        <3>1. AtMost(60 + 10 * (hints - 1), 95) \in 0..100
            BY <1>2, <2>1 DEF AtMost
        <3>2. Sig("behavior", "tool_abuse", AtMost(60 + 10 * (hints - 1), 95), 70)
                 \in Signal
            BY <3>1, AgentsAndThreats DEF Sig, Signal
        <3> QED BY <2>1, <3>2, OneOrNone DEF When
    <2>2. CASE ~ (hints > 0)
        BY <2>2, OneOrNone DEF When
    <2> QED BY <2>1, <2>2
<1>4. E \in Seq(Signal)
    <2>1. Sig("behavior", "tool_abuse", 90, 85) \in Signal
        BY AgentsAndThreats DEF Sig, Signal
    <2> QED BY <1>2, <2>1
<1>5. CallSignals(calls) = H \o E
    BY DEF CallSignals, hints, execs
<1> HIDE DEF H, E
<1> QED BY <1>3, <1>4, <1>5, ConcatProperties

LEMMA OutputType ==
    ASSUME NEW out \in [secrets : BOOLEAN, pii : BOOLEAN, leak : BOOLEAN,
                        injections : Nat, role : BOOLEAN]
    PROVE  OutputSignals(out) \in Seq(Signal)
<1> DEFINE n == out.injections
           A == When(out.secrets, Sig("behavior", "data_exfiltration", 85, 80))
           B == When(out.pii, Sig("behavior", "data_exfiltration", 75, 70))
           C == When(out.leak, Sig("behavior", "data_exfiltration", 80, 75))
           D == When(n > 0, Sig("behavior", "anomaly", AtMost(55 + 10 * (n - 1), 90), 80))
           E == When(out.role, Sig("behavior", "anomaly", 55, 60))
<1>1. /\ Sig("behavior", "data_exfiltration", 85, 80) \in Signal
      /\ Sig("behavior", "data_exfiltration", 75, 70) \in Signal
      /\ Sig("behavior", "data_exfiltration", 80, 75) \in Signal
      /\ Sig("behavior", "anomaly", 55, 60) \in Signal
    BY AgentsAndThreats DEF Sig, Signal
<1>2. A \in Seq(Signal) /\ B \in Seq(Signal) /\ C \in Seq(Signal) /\ E \in Seq(Signal)
    BY <1>1, OneOrNone DEF When
<1>3. D \in Seq(Signal)
    <2>1. CASE n > 0
        <3>1. AtMost(55 + 10 * (n - 1), 90) \in 0..100
            BY <2>1 DEF AtMost
        <3>2. Sig("behavior", "anomaly", AtMost(55 + 10 * (n - 1), 90), 80) \in Signal
            BY <3>1, AgentsAndThreats DEF Sig, Signal
        <3> QED BY <2>1, <3>2, OneOrNone DEF When
    <2>2. CASE ~ (n > 0)
        BY <2>2, OneOrNone DEF When
    <2> QED BY <2>1, <2>2
<1>4. OutputSignals(out) = (((A \o B) \o C) \o D) \o E
    BY DEF OutputSignals
<1> HIDE DEF A, B, C, D, E
<1>5. (A \o B) \o C \in Seq(Signal)
    BY <1>2, ConcatProperties
<1>6. ((A \o B) \o C) \o D \in Seq(Signal)
    BY <1>3, <1>5, ConcatProperties
<1> QED BY <1>2, <1>4, <1>6, ConcatProperties

LEMMA BehaviorType ==
    ASSUME NEW req \in AnalyzeRequest
    PROVE  BehaviorSignals(req) \in Seq(Signal)
<1>1. /\ req.calls \in Seq([hint : BOOLEAN, exec : BOOLEAN])
      /\ req.output \in [secrets : BOOLEAN, pii : BOOLEAN, leak : BOOLEAN,
                         injections : Nat, role : BOOLEAN]
    BY DEF AnalyzeRequest
<1> QED BY <1>1, CallType, OutputType, ConcatProperties DEF BehaviorSignals

\* ... and the artifacts.
LEMMA FlattenType ==
    ASSUME NEW S, NEW seqs \in Seq(Seq(S))
    PROVE  FlattenSeq(seqs) \in Seq(S)
<1> DEFINE n == Len(seqs)
           Recursion(f) == f = [i \in 1..n |-> IF i = 1 THEN seqs[i]
                                              ELSE f[i-1] \o seqs[i]]
           step == [i \in 1..(n-1) |-> [x \in Seq(S) |-> x \o seqs[i+1]]]
<1>1. n \in Nat /\ \A i \in 1..n : seqs[i] \in Seq(S)
    OBVIOUS
<1>2. CASE n = 0
    <2>1. seqs = <<>>
        BY <1>2
    <2> QED BY <1>2, <2>1 DEF FlattenSeq
<1>3. CASE n # 0
    <2>1. n - 1 \in Nat /\ seqs[1] \in Seq(S)
        BY <1>1, <1>3
    <2>2. step \in [1..(n-1) -> [Seq(S) -> Seq(S)]]
        <3>1. ASSUME NEW i \in 1..(n-1), NEW x \in Seq(S)
              PROVE  x \o seqs[i+1] \in Seq(S)
            <4>1. i + 1 \in 1..n
                BY <1>1
            <4> QED BY <1>1, <4>1, ConcatProperties
        <3> QED BY <3>1
    <2> HIDE DEF n, step
    <2>3. PICK g : Solves(g, n - 1, Seq(S), seqs[1], step)
        BY <2>1, <2>2, RecursionSolved
    <2>4. /\ g \in [0..(n-1) -> Seq(S)] /\ g[0] = seqs[1]
          /\ \A i \in 1..(n-1) : g[i] = g[i-1] \o seqs[i+1]
        <3>1. /\ g \in [0..(n-1) -> Seq(S)] /\ g[0] = seqs[1]
              /\ \A i \in 1..(n-1) : g[i] = step[i][g[i-1]]
            BY <2>3 DEF Solves
        <3>2. \A i \in 1..(n-1), x \in Seq(S) : step[i][x] = x \o seqs[i+1]
            BY DEF step
        <3>3. \A i \in 1..(n-1) : g[i-1] \in Seq(S)
            BY <1>1, <3>1
        <3> QED BY <3>1, <3>2, <3>3
    <2> DEFINE h == [i \in 1..n |-> g[i-1]]
    <2>5. Recursion(h)
        <3>1. ASSUME NEW i \in 1..n
              PROVE  h[i] = IF i = 1 THEN seqs[i] ELSE h[i-1] \o seqs[i]
            <4>1. CASE i = 1
                BY <2>4, <4>1
            <4>2. CASE i # 1
                <5>1. i - 1 \in 1..(n-1) /\ i - 1 \in 1..n /\ (i - 1) + 1 = i
                    BY <1>1, <4>2
                <5>2. g[i-1] = g[(i-1)-1] \o seqs[(i-1)+1]
                    BY <2>4, <5>1
                <5> QED BY <4>2, <5>1, <5>2
            <4> QED BY <4>1, <4>2
        <3> QED BY <3>1
    <2> HIDE DEF h
    <2> DEFINE f == CHOOSE x : Recursion(x)
    <2>6. Recursion(f)
        BY <2>5
    <2>7. FlattenSeq(seqs) = f[n]
        BY <1>3 DEF FlattenSeq, n
    <2> HIDE DEF f
    <2>8. \A i \in 1..n : f[i] = IF i = 1 THEN seqs[i] ELSE f[i-1] \o seqs[i]
        BY <2>6
    <2> DEFINE P == {i \in Nat : i + 1 <= n => f[i+1] \in Seq(S)}
    <2>9. 0 \in P
        BY <1>1, <2>1, <2>8
    <2>10. ASSUME NEW i \in Nat, i < n - 1, i \in P PROVE i + 1 \in P
        <3>1. /\ (i + 1) + 1 \in 1..n /\ (i + 1) + 1 # 1
              /\ ((i + 1) + 1) - 1 = i + 1 /\ f[i+1] \in Seq(S)
            BY <1>1, <2>10
        <3>2. f[(i+1)+1] = f[i+1] \o seqs[(i+1)+1] /\ seqs[(i+1)+1] \in Seq(S)
            BY <1>1, <2>8, <3>1
        <3>3. f[(i+1)+1] \in Seq(S)
            BY <3>1, <3>2, ConcatProperties
        <3> QED BY <2>10, <3>3
    <2> HIDE DEF P
    <2>11. 0..(n-1) \subseteq P
        BY <2>1, <2>9, <2>10, InductionUpTo
    <2>12. n - 1 \in P
        BY <2>1, <2>11
    <2> QED BY <1>1, <2>1, <2>7, <2>12 DEF P
<1> QED BY <1>2, <1>3

Found == [signal : Signal, blocks : BOOLEAN]

\* A finding of the artifact agent.
Entry(threat, score, conf, blocks) ==
    [signal |-> Sig("artifact", threat, score, conf), blocks |-> blocks]

LEMMA FileRowsType ==
    ASSUME NEW a
    PROVE  FileRows(a) \in Seq(Found)
<1> DEFINE A == Row("too_large" \in a.traits, "tool_abuse", 85, 90, TRUE)
           B == Row("extension" \in a.traits, "policy_violation", 95, 95, TRUE)
           C == Row("double_extension" \in a.traits, "malware_in_file", 90, 90, TRUE)
           D == Row("no_image" \in a.traits /\ a.kind = "image", "anomaly", 75, 90, TRUE)
           E == Row("script" \in a.traits, "malware_in_file", 90, 80, TRUE)
           F == Row("polyglot" \in a.traits, "malware_in_file", 92, 85, TRUE)
           G == Row("bomb" \in a.traits, "malware_in_file", 90, 85, TRUE)
<1>0. /\ Entry("tool_abuse", 85, 90, TRUE) \in Found
      /\ Entry("policy_violation", 95, 95, TRUE) \in Found
      /\ Entry("malware_in_file", 90, 90, TRUE) \in Found
      /\ Entry("anomaly", 75, 90, TRUE) \in Found
      /\ Entry("malware_in_file", 90, 80, TRUE) \in Found
      /\ Entry("malware_in_file", 92, 85, TRUE) \in Found
      /\ Entry("malware_in_file", 90, 85, TRUE) \in Found
    BY AgentsAndThreats DEF Entry, Sig, Signal, Found
<1>1. A \in Seq(Found) /\ B \in Seq(Found) /\ C \in Seq(Found) /\ D \in Seq(Found)
    BY <1>0, OneOrNone DEF Row, When, Entry
<1>2. E \in Seq(Found) /\ F \in Seq(Found) /\ G \in Seq(Found)
    BY <1>0, OneOrNone DEF Row, When, Entry
<1>3. FileRows(a) = (((((A \o B) \o C) \o D) \o E) \o F) \o G
    BY DEF FileRows
<1> HIDE DEF A, B, C, D, E, F, G
<1>4. (A \o B) \o C \in Seq(Found)
    BY <1>1, ConcatProperties
<1>5. (((A \o B) \o C) \o D) \o E \in Seq(Found)
    BY <1>1, <1>2, <1>4, ConcatProperties
<1>6. ((((A \o B) \o C) \o D) \o E) \o F \in Seq(Found)
    BY <1>2, <1>5, ConcatProperties
<1> QED BY <1>2, <1>3, <1>6, ConcatProperties

LEMMA UrlRowsType ==
    ASSUME NEW a
    PROVE  UrlRows(a) \in Seq(Found)
<1> DEFINE A == Row("not_http" \in a.traits, "anomaly", 40, 80, FALSE)
           B == Row("ssrf" \in a.traits, "tool_abuse", 85, 90, TRUE)
           C == Row("data_uri" \in a.traits, "malware_in_file", 80, 90, TRUE)
<1>0. /\ Entry("anomaly", 40, 80, FALSE) \in Found
      /\ Entry("tool_abuse", 85, 90, TRUE) \in Found
      /\ Entry("malware_in_file", 80, 90, TRUE) \in Found
    BY AgentsAndThreats DEF Entry, Sig, Signal, Found
<1>1. A \in Seq(Found) /\ B \in Seq(Found) /\ C \in Seq(Found)
    BY <1>0, OneOrNone DEF Row, When, Entry
<1>2. UrlRows(a) = (A \o B) \o C
    BY DEF UrlRows
<1> HIDE DEF A, B, C
<1> QED BY <1>1, <1>2, ConcatProperties

LEMMA EmailRowsType ==
    ASSUME NEW a, a.ssrf \in Nat
    PROVE  EmailRows(a) \in Seq(Found)
<1> DEFINE n == AtMost(a.ssrf, 20)
           A == [i \in 1..n |-> [signal |-> Sig("artifact", "anomaly", 70, 80),
                                 blocks |-> FALSE]]
           B == Row("phishing" \in a.traits, "anomaly", 65, 70, FALSE)
           C == Row("links" \in a.traits /\ "phishing" \notin a.traits,
                    "anomaly", 55, 70, FALSE)
<1>0. /\ Entry("anomaly", 65, 70, FALSE) \in Found
      /\ Entry("anomaly", 55, 70, FALSE) \in Found
    BY AgentsAndThreats DEF Entry, Sig, Signal, Found
<1>1. B \in Seq(Found) /\ C \in Seq(Found)
    BY <1>0, OneOrNone DEF Row, When, Entry
<1>2. n \in Nat
    BY DEF AtMost
<1>3. [signal |-> Sig("artifact", "anomaly", 70, 80), blocks |-> FALSE] \in Found
    BY AgentsAndThreats DEF Sig, Signal, Found
<1>4. EmailRows(a) = (A \o B) \o C
    BY DEF EmailRows
<1> HIDE DEF n
<1>5. A \in Seq(Found)
    BY <1>2, <1>3
<1> HIDE DEF A, B, C
<1> QED BY <1>1, <1>4, <1>5, ConcatProperties

LEMMA RowsType ==
    ASSUME NEW a \in Artifact
    PROVE  Rows(a) \in Seq(Found)
<1>1. Row(TRUE, "anomaly", 60, 80, FALSE) \in Seq(Found)
    BY AgentsAndThreats, OneOrNone DEF Row, When, Sig, Signal, Found
<1>2. a.ssrf \in Nat
    BY DEF Artifact
<1> QED BY <1>1, <1>2, OneOrNone, FileRowsType, UrlRowsType, EmailRowsType
        DEF Rows, IsFile, Artifact

LEMMA ArtifactType ==
    ASSUME NEW artifacts \in Seq(Artifact)
    PROVE  ArtifactSignals(artifacts) \in Seq(Signal)
<1> DEFINE n == AtMost(Len(artifacts), 50)
           lists == [i \in 1..n |-> Rows(artifacts[i])]
           rows == FlattenSeq(lists)
           A == [i \in DOMAIN rows |-> rows[i].signal]
           B == When(\E i \in DOMAIN rows : rows[i].blocks,
                     Sig("artifact", "policy_violation", 92, 95))
<1>1. n \in Nat /\ \A i \in 1..n : artifacts[i] \in Artifact
    BY LenProperties DEF AtMost
<1>2. \A i \in 1..n : Rows(artifacts[i]) \in Seq(Found)
    BY <1>1, RowsType
<1> HIDE DEF n
<1>3. lists \in Seq(Seq(Found))
    BY <1>1, <1>2
<1> HIDE DEF lists
<1>4. rows \in Seq(Found)
    BY <1>3, FlattenType
<1>5. ArtifactSignals(artifacts) = A \o B
    BY DEF ArtifactSignals, lists, n
<1> HIDE DEF rows
<1>6. A \in Seq(Signal)
    <2>1. DOMAIN rows = 1..Len(rows) /\ Len(rows) \in Nat
        BY <1>4, LenProperties
    <2>2. \A i \in 1..Len(rows) : rows[i] \in Found
        BY <1>4
    <2>3. \A i \in 1..Len(rows) : rows[i].signal \in Signal
        BY <2>2 DEF Found
    <2> QED BY <2>1, <2>3
<1>7. B \in Seq(Signal)
    <2>1. Sig("artifact", "policy_violation", 92, 95) \in Signal
        BY AgentsAndThreats DEF Sig, Signal
    <2> QED BY <2>1, OneOrNone DEF When
<1> HIDE DEF A, B
<1> QED BY <1>5, <1>6, <1>7, ConcatProperties

(***************************************************************************)
(* The signals of a request, in four parts.                                *)
(***************************************************************************)
LEMMA SignalsType ==
    ASSUME NEW req \in AnalyzeRequest, NEW dyn \in DynamicRule
    PROVE  /\ ArtifactSignals(req.artifacts) \in Seq(Signal)
           /\ PolicySignals(SentinelText(req, dyn), Policy) \in Seq(Signal)
           /\ SentinelSignals(req, dyn) \in Seq(Signal)
           /\ BehaviorSignals(req) \in Seq(Signal)
           /\ Signals(req, dyn) \in Seq(Signal)
<1>1. ArtifactSignals(req.artifacts) \in Seq(Signal)
    BY ArtifactType DEF AnalyzeRequest
<1>2. PolicySignals(SentinelText(req, dyn), Policy) \in Seq(Signal)
    BY PolicyType
<1>3. SentinelSignals(req, dyn) \in Seq(Signal)
    <2> DEFINE I == OnInjection(InjectionHits(req, dyn))
               J == OnJailbreak(JailbreakHits(req))
               X == OnExfil(ExfilHits(req, dyn))
               E == OnEvasion(req.evasions)
    <2>2. I \in Seq(Signal) /\ J \in Seq(Signal) /\ X \in Seq(Signal) /\ E \in Seq(Signal)
        BY SentinelLists
    <2>3. SentinelSignals(req, dyn) = ((I \o J) \o X) \o E
        BY SentinelParts
    <2> HIDE DEF I, J, X, E
    <2>4. (I \o J) \o X \in Seq(Signal)
        BY <2>2, ConcatProperties
    <2> QED BY <2>2, <2>3, <2>4, ConcatProperties
<1>4. BehaviorSignals(req) \in Seq(Signal)
    BY BehaviorType
<1> DEFINE A == ArtifactSignals(req.artifacts)
           P == PolicySignals(SentinelText(req, dyn), Policy)
           S == SentinelSignals(req, dyn)
           B == BehaviorSignals(req)
<1>5. Signals(req, dyn) = ((A \o P) \o S) \o B
    BY DEF Signals
<1> HIDE DEF A, P, S, B
<1>6. (A \o P) \o S \in Seq(Signal)
    BY <1>1, <1>2, <1>3, ConcatProperties DEF A, P, S
<1>7. ((A \o P) \o S) \o B \in Seq(Signal)
    BY <1>4, <1>6, ConcatProperties DEF B
<1> QED BY <1>1, <1>2, <1>3, <1>4, <1>5, <1>7

-------------------------------------------------------------------------------
(***************************************************************************)
(* The evidence of lists in four parts, as a request's signals and the     *)
(* sentinel's are.                                                         *)
(***************************************************************************)
AllFour(e, f, g, h) == Together(Together(Together(e, f), g), h)

LEMMA FourParts ==
    ASSUME NEW s \in Seq(Signal), NEW t \in Seq(Signal),
           NEW u \in Seq(Signal), NEW v \in Seq(Signal)
    PROVE  Gathered(((s \o t) \o u) \o v)
             = AllFour(Gathered(s), Gathered(t), Gathered(u), Gathered(v))
<1>1. s \o t \in Seq(Signal) /\ Gathered(s \o t) = Together(Gathered(s), Gathered(t))
    BY GatheredConcat, ConcatProperties
<1> DEFINE st == s \o t
<1> HIDE DEF st
<1>2. /\ st \o u \in Seq(Signal)
      /\ Gathered(st \o u) = Together(Gathered(st), Gathered(u))
    BY <1>1, GatheredConcat, ConcatProperties DEF st
<1> DEFINE stu == st \o u
<1> HIDE DEF stu
<1>3. Gathered(stu \o v) = Together(Gathered(stu), Gathered(v))
    BY <1>2, GatheredConcat DEF stu
<1> QED BY <1>1, <1>2, <1>3 DEF AllFour, st, stu

LEMMA AllFourType ==
    ASSUME NEW e \in Evidence, NEW f \in Evidence,
           NEW g \in Evidence, NEW h \in Evidence
    PROVE  /\ AllFour(e, f, g, h) \in Evidence
           /\ AtLeast(AllFour(e, f, g, h), e)
           /\ 50 \in {e.floor, f.floor, g.floor, h.floor} =>
                 AllFour(e, f, g, h).floor = 50
BY DEF AllFour, Together, AtLeast, Evidence

LEMMA AllFourMonotone ==
    ASSUME NEW e \in Evidence, NEW f \in Evidence,
           NEW g \in Evidence, NEW h \in Evidence,
           NEW a \in Evidence, NEW b \in Evidence,
           NEW c \in Evidence, NEW d \in Evidence,
           AtLeast(e, a), AtLeast(f, b), AtLeast(g, c), AtLeast(h, d)
    PROVE  AtLeast(AllFour(e, f, g, h), AllFour(a, b, c, d))
<1>1. /\ Together(e, f) \in Evidence /\ Together(a, b) \in Evidence
      /\ AtLeast(Together(e, f), Together(a, b))
    BY TogetherType, TogetherMonotone
<1>2. /\ Together(Together(e, f), g) \in Evidence
      /\ Together(Together(a, b), c) \in Evidence
      /\ AtLeast(Together(Together(e, f), g), Together(Together(a, b), c))
    BY <1>1, TogetherType, TogetherMonotone
<1> QED BY <1>2, TogetherMonotone DEF AllFour

LEMMA SignalsGathered ==
    ASSUME NEW req \in AnalyzeRequest, NEW dyn \in DynamicRule
    PROVE  Gathered(Signals(req, dyn))
             = AllFour(Gathered(ArtifactSignals(req.artifacts)),
                       Gathered(PolicySignals(SentinelText(req, dyn), Policy)),
                       Gathered(SentinelSignals(req, dyn)),
                       Gathered(BehaviorSignals(req)))
BY SignalsType, FourParts DEF Signals

LEMMA SentinelGathered ==
    ASSUME NEW req \in AnalyzeRequest, NEW dyn \in DynamicRule
    PROVE  /\ Gathered(SentinelSignals(req, dyn))
                = AllFour(Gathered(OnInjection(InjectionHits(req, dyn))),
                          Gathered(OnJailbreak(JailbreakHits(req))),
                          Gathered(OnExfil(ExfilHits(req, dyn))),
                          Gathered(OnEvasion(req.evasions)))
           /\ Gathered(OnInjection(InjectionHits(req, dyn))) \in Evidence
           /\ Gathered(OnJailbreak(JailbreakHits(req))) \in Evidence
           /\ Gathered(OnExfil(ExfilHits(req, dyn))) \in Evidence
           /\ Gathered(OnEvasion(req.evasions)) \in Evidence
<1> QED BY SentinelLists, SentinelParts, FourParts, GatheredType

\* What the verdict is, and that more evidence makes it no milder.
LEMMA VerdictIsLadder ==
    ASSUME NEW req, NEW dyn
    PROVE  Verdict(req, dyn)
             = ActionFor(RiskOf(Gathered(Signals(req, dyn))), DefaultThresholds)
BY DEF Verdict, Enforced, AggregateRisk

LEMMA LadderAtLeast ==
    ASSUME NEW e \in Evidence, NEW f \in Evidence, AtLeast(e, f)
    PROVE  Rank(ActionFor(RiskOf(e), DefaultThresholds))
              >= Rank(ActionFor(RiskOf(f), DefaultThresholds))
<1>1. RiskOf(e) \in Int /\ RiskOf(f) \in Int /\ RiskOf(f) <= RiskOf(e)
    BY RiskAtLeast
<1>2. DefaultThresholds \in Thresholds
    BY DEF DefaultThresholds, Thresholds
<1> QED BY <1>1, <1>2, LadderMonotone

-------------------------------------------------------------------------------
\* The first suggestion found in a text is one that finds it.
LEMMA SuggestType ==
    ASSUME NEW patterns \in Seq(Regex), NEW text
    PROVE  \/ Suggest(patterns, text) = NoRegex
           \/ /\ Suggest(patterns, text) \in Regex
              /\ Suggest(patterns, text) \in Range(patterns)
              /\ Finds(Suggest(patterns, text), text)
<1> DEFINE found == {i \in DOMAIN patterns : Finds(patterns[i], text)}
<1>1. DOMAIN patterns = 1..Len(patterns) /\ Len(patterns) \in Nat
    BY LenProperties
<1>2. CASE found = {}
    BY <1>2 DEF Suggest
<1>3. CASE found # {}
    <2>1. found \in SUBSET Nat
        BY <1>1
    <2>2. \E x \in found : \A y \in found : x <= y
        <3> HIDE DEF found
        <3> QED BY <1>3, <2>1, LeastNumber
    <2>3. Min(found) \in found
        <3> HIDE DEF found
        <3> QED BY <2>2 DEF Min
    <2>4. Suggest(patterns, text) = patterns[Min(found)]
        BY <1>3 DEF Suggest
    <2>5. PICK i \in found : i = Min(found)
        BY <2>3
    <2>6. patterns[i] \in Regex /\ patterns[i] \in Range(patterns)
        BY <1>1 DEF Range
    <2> QED BY <2>4, <2>5, <2>6
<1> QED BY <1>2, <1>3

LEMMA IncidentType ==
    ASSUME NEW req, NEW named
    PROVE  IncidentOf(req, named) \in Incident
<1>1. /\ SuggestInjection \in Seq(Regex) /\ SuggestJailbreak \in Seq(Regex)
      /\ SuggestExfil \in Seq(Regex) /\ SuggestToolAbuse \in Seq(Regex)
    BY LearningAssumption
<1>2. /\ Suggest(SuggestInjection, req.plain) \in Regex \union {NoRegex}
      /\ Suggest(SuggestJailbreak, req.plain) \in Regex \union {NoRegex}
      /\ Suggest(SuggestExfil, req.plain) \in Regex \union {NoRegex}
      /\ Suggest(SuggestToolAbuse, req.plain) \in Regex \union {NoRegex}
    BY <1>1, SuggestType
<1> QED BY <1>2 DEF IncidentOf, Incident

(***************************************************************************)
(* The learned rules stay rules: patterns, no more of them than the cap.   *)
(***************************************************************************)
THEOREM LoopTypeCorrect == LoopSpec => []LoopTypeOK
<1>1. LoopInit => LoopTypeOK
    BY EmptyRulesType DEF LoopInit, LoopTypeOK
<1>2. ASSUME LoopTypeOK, [LoopNext]_loopVars PROVE LoopTypeOK'
    <2>1. ASSUME NEW req \in Inputs, Run(req) PROVE LoopTypeOK'
        <3>1. Built(rules, IncidentOf(req, ThreatTypes(req, rules))) \in DynamicRule
            BY <1>2, IncidentType, BuiltType DEF LoopTypeOK
        <3> QED BY <1>2, <2>1, <3>1 DEF Run, LoopTypeOK
    <2>2. CASE UNCHANGED loopVars
        BY <1>2, <2>2 DEF loopVars, LoopTypeOK
    <2> QED BY <1>2, <2>1, <2>2 DEF LoopNext
<1> QED BY <1>1, <1>2, PTL DEF LoopSpec

(***************************************************************************)
(* A learned pattern that finds a request raises a sentinel signal, whose  *)
(* threat has a floor above the allow threshold.                           *)
(***************************************************************************)
THEOREM LearnedRulesDefend == LoopSpec => []LearnedNeverAllowed
<1>1. ASSUME LoopTypeOK PROVE LearnedNeverAllowed
    <2> SUFFICES ASSUME NEW req \in Inputs, NEW r \in Learned(rules),
                        Finds(r, req.input)
                 PROVE  Verdict(req, rules) # "allow"
        BY DEF LearnedNeverAllowed
    <2> DEFINE E == Gathered(Signals(req, rules))
               S == Gathered(SentinelSignals(req, rules))
               I == Gathered(OnInjection(InjectionHits(req, rules)))
               X == Gathered(OnExfil(ExfilHits(req, rules)))
    <2>1. req \in AnalyzeRequest /\ rules \in DynamicRule
        BY <1>1, LearningAssumption DEF LoopTypeOK
    <2>2. \/ InjectionHits(req, rules) > 0
          \/ ExfilHits(req, rules) > 0
        <3>1. /\ rules.injection \in Seq(Regex) /\ rules.exfil \in Seq(Regex)
              /\ DOMAIN rules.injection = 1..Len(rules.injection)
              /\ DOMAIN rules.exfil = 1..Len(rules.exfil)
            BY <2>1, RulesAreLists
        <3>2. \/ \E i \in 1..Len(rules.injection) : r = rules.injection[i]
              \/ \E i \in 1..Len(rules.exfil) : r = rules.exfil[i]
            BY <3>1 DEF Learned, Range
        <3> QED BY <3>1, <3>2, BasesFinite, HitsType DEF InjectionHits, ExfilHits
    <2>3. InjectionHits(req, rules) \in Nat /\ ExfilHits(req, rules) \in Nat
        BY <2>1, HitsNat
    <2>4. InjectionHits(req, rules) > 0 => I.floor = 50
        <3> SUFFICES ASSUME NEW n \in Nat, n > 0
                     PROVE  Gathered(OnInjection(n)).floor = 50
            BY <2>3
        <3> DEFINE s == Sig("sentinel", "prompt_injection", MatchScore(n), 75)
        <3>1. OnInjection(n) = <<s>>
            BY DEF OnInjection, When
        <3>2. s \in Signal /\ s.threat \in Floored
            BY MatchScoreMonotone, AgentsAndThreats DEF Sig, Signal, Floored
        <3> HIDE DEF s
        <3>3. Gathered(<<s>>) = Weigh(NoEvidence, s)
            BY <3>2, GatheredOne
        <3>4. Weigh(NoEvidence, s).floor = 50
            BY <3>2 DEF Weigh
        <3> QED BY <3>1, <3>3, <3>4
    <2>5. ExfilHits(req, rules) > 0 => X.floor = 50
        <3> SUFFICES ASSUME NEW n \in Nat, n > 0
                     PROVE  Gathered(OnExfil(n)).floor = 50
            BY <2>3
        <3> DEFINE s == Sig("sentinel", "data_exfiltration", MatchScore(n), 70)
        <3>1. OnExfil(n) = <<s>>
            BY DEF OnExfil, When
        <3>2. s \in Signal /\ s.threat \in Floored
            BY MatchScoreMonotone, AgentsAndThreats DEF Sig, Signal, Floored
        <3> HIDE DEF s
        <3>3. Gathered(<<s>>) = Weigh(NoEvidence, s)
            BY <3>2, GatheredOne
        <3>4. Weigh(NoEvidence, s).floor = 50
            BY <3>2 DEF Weigh
        <3> QED BY <3>1, <3>3, <3>4
    <2>6. S.floor = 50
        BY <2>1, <2>2, <2>4, <2>5, SentinelGathered, AllFourType
    <2>7. E \in Evidence /\ E.floor = 50
        BY <2>1, <2>6, SignalsType, SignalsGathered, GatheredType, AllFourType
    <2>8. RiskOf(E) >= 50 /\ RiskOf(E) \in Int
        BY <2>7, FloorReached, RiskMonotone DEF Evidence
    <2> HIDE DEF E
    <2>9. ActionFor(RiskOf(E), DefaultThresholds) # "allow"
        BY <2>8 DEF ActionFor, DefaultThresholds
    <2> QED BY <2>9, VerdictIsLadder DEF E
<1> QED BY <1>1, LoopTypeCorrect, PTL

(***************************************************************************)
(* The artifacts' evidence is part of the request's.                       *)
(***************************************************************************)
THEOREM AnalyzeIsNoMilder == LoopSpec => []AnalyzeAtLeastScan
<1>1. ASSUME LoopTypeOK PROVE AnalyzeAtLeastScan
    <2> SUFFICES ASSUME NEW req \in Inputs
                 PROVE  Rank(Verdict(req, rules)) >= Rank(ScanVerdict(req.artifacts))
        BY DEF AnalyzeAtLeastScan
    <2> DEFINE E == Gathered(Signals(req, rules))
               A == Gathered(ArtifactSignals(req.artifacts))
    <2>1. req \in AnalyzeRequest /\ rules \in DynamicRule
        BY <1>1, LearningAssumption DEF LoopTypeOK
    <2>2. E \in Evidence /\ A \in Evidence /\ AtLeast(E, A)
        BY <2>1, SignalsType, SignalsGathered, GatheredType, AllFourType
    <2> HIDE DEF E, A
    <2>3. Rank(ActionFor(RiskOf(E), DefaultThresholds))
             >= Rank(ActionFor(RiskOf(A), DefaultThresholds))
        BY <2>2, LadderAtLeast
    <2>4. ScanVerdict(req.artifacts) = ActionFor(RiskOf(A), DefaultThresholds)
        BY DEF ScanVerdict, AggregateRisk, A
    <2> QED BY <2>3, <2>4, VerdictIsLadder DEF E
<1> QED BY <1>1, LoopTypeCorrect, PTL

-------------------------------------------------------------------------------
(***************************************************************************)
(* What an incident suggests, and what of it is in the rules afterwards.   *)
(***************************************************************************)
Suggested(inc) ==
    {inc.prompt_injection, inc.jailbreak, inc.tool_abuse, inc.data_exfiltration}
        \ {NoRegex}

AllSuggestions == UNION {Range(SuggestInjection), Range(SuggestJailbreak),
                         Range(SuggestExfil), Range(SuggestToolAbuse)}

LEMMA SuggestedFinds ==
    ASSUME NEW req, NEW named, NEW r \in Suggested(IncidentOf(req, named))
    PROVE  r \in Regex /\ r \in AllSuggestions /\ Finds(r, req.plain)
<1>1. /\ SuggestInjection \in Seq(Regex) /\ SuggestJailbreak \in Seq(Regex)
      /\ SuggestExfil \in Seq(Regex) /\ SuggestToolAbuse \in Seq(Regex)
    BY LearningAssumption
<1>2. PICK patterns \in {SuggestInjection, SuggestJailbreak,
                         SuggestExfil, SuggestToolAbuse} :
          r = Suggest(patterns, req.plain) /\ r # NoRegex
    BY DEF Suggested, IncidentOf
<1>3. /\ r \in Regex /\ r \in Range(patterns) /\ Finds(r, req.plain)
    BY <1>1, <1>2, SuggestType
<1> QED BY <1>2, <1>3 DEF AllSuggestions

LEMMA AppendNewRange ==
    ASSUME NEW l \in Seq(Regex), NEW r \in Regex \union {NoRegex}
    PROVE  /\ AppendNew(l, r) \in Seq(Regex)
           /\ Range(AppendNew(l, r)) = Range(l) \union ({r} \ {NoRegex})
<1>1. CASE r = NoRegex \/ r \in Range(l)
    BY <1>1 DEF AppendNew
<1>2. CASE ~(r = NoRegex \/ r \in Range(l))
    <2>1. r \in Regex /\ r # NoRegex /\ AppendNew(l, r) = Append(l, r)
        BY <1>2 DEF AppendNew
    <2>2. /\ Append(l, r) \in Seq(Regex) /\ Len(Append(l, r)) = Len(l) + 1
          /\ Append(l, r)[Len(l) + 1] = r /\ Len(l) \in Nat
          /\ \A i \in 1..Len(l) : Append(l, r)[i] = l[i]
        BY <2>1, AppendProperties, LenProperties
    <2>3. DOMAIN l = 1..Len(l) /\ DOMAIN Append(l, r) = 1..(Len(l) + 1)
        BY <2>2, LenProperties
    <2>4. Range(Append(l, r)) = Range(l) \union {r}
        BY <2>2, <2>3 DEF Range
    <2> QED BY <2>1, <2>2, <2>4
<1> QED BY <1>1, <1>2

LEMMA GrownRange ==
    ASSUME NEW d \in DynamicRule, NEW inc \in Incident
    PROVE  /\ GrownInjection(d, inc) \in Seq(Regex)
           /\ Range(GrownInjection(d, inc))
                = Range(d.injection) \union
                    ({inc.prompt_injection, inc.jailbreak, inc.tool_abuse} \ {NoRegex})
           /\ GrownExfil(d, inc) \in Seq(Regex)
           /\ Range(GrownExfil(d, inc))
                = Range(d.exfil) \union ({inc.data_exfiltration} \ {NoRegex})
<1>1. d.injection \in Seq(Regex) /\ d.exfil \in Seq(Regex)
    BY RulesAreLists
<1>2. /\ inc.prompt_injection \in Regex \union {NoRegex}
      /\ inc.jailbreak \in Regex \union {NoRegex}
      /\ inc.tool_abuse \in Regex \union {NoRegex}
      /\ inc.data_exfiltration \in Regex \union {NoRegex}
    BY DEF Incident
<1> DEFINE l1 == AppendNew(d.injection, inc.prompt_injection)
           l2 == AppendNew(l1, inc.jailbreak)
           l3 == AppendNew(l2, inc.tool_abuse)
<1>3. /\ l1 \in Seq(Regex)
      /\ Range(l1) = Range(d.injection) \union ({inc.prompt_injection} \ {NoRegex})
    BY <1>1, <1>2, AppendNewRange
<1>4. /\ l2 \in Seq(Regex)
      /\ Range(l2) = Range(l1) \union ({inc.jailbreak} \ {NoRegex})
    <2> HIDE DEF l1
    <2> QED BY <1>2, <1>3, AppendNewRange
<1>5. /\ l3 \in Seq(Regex)
      /\ Range(l3) = Range(l2) \union ({inc.tool_abuse} \ {NoRegex})
    <2> HIDE DEF l2
    <2> QED BY <1>2, <1>4, AppendNewRange
<1>6. GrownInjection(d, inc) = l3
    BY DEF GrownInjection
<1>7. /\ GrownExfil(d, inc) \in Seq(Regex)
      /\ Range(GrownExfil(d, inc))
                = Range(d.exfil) \union ({inc.data_exfiltration} \ {NoRegex})
    BY <1>1, <1>2, AppendNewRange DEF GrownExfil
<1> HIDE DEF l1, l2, l3
<1> QED BY <1>3, <1>4, <1>5, <1>6, <1>7

\* Nothing is learned but what was known or suggested.
LEMMA BuiltLearned ==
    ASSUME NEW d \in DynamicRule, NEW inc \in Incident
    PROVE  Learned(Built(d, inc)) \subseteq Learned(d) \union Suggested(inc)
<1>1. ASSUME NEW l \in Seq(Regex) PROVE Range(Capped(l)) \subseteq Range(l)
    <2>1. /\ Capped(l) \in Seq(Regex) /\ Len(Capped(l)) <= Len(l)
          /\ Len(l) \in Nat /\ Len(Capped(l)) \in Nat
          /\ \A i \in 1..Len(Capped(l)) : Capped(l)[i] = l[i]
        BY <1>1, CappedProperties, RuleListIsSeq, RulesAssumption, LenProperties
    <2>2. DOMAIN Capped(l) = 1..Len(Capped(l)) /\ DOMAIN l = 1..Len(l)
        BY <1>1, <2>1, LenProperties
    <2> QED BY <2>1, <2>2 DEF Range
<1>2. /\ Range(Built(d, inc).injection) \subseteq Range(GrownInjection(d, inc))
      /\ Range(Built(d, inc).exfil) \subseteq Range(GrownExfil(d, inc))
    BY <1>1, GrownRange DEF Built
<1> QED BY <1>2, GrownRange DEF Learned, Suggested

(***************************************************************************)
(* Only flagged traffic teaches, and only what finds its text.             *)
(***************************************************************************)
THEOREM OnlyFlaggedTeaches == LoopSpec => OnlyFlaggedTeach
<1> DEFINE Taught ==
        rules' # rules =>
          /\ healing
          /\ Rank(Verdict(answered'[1], rules)) >= Rank("sanitize")
          /\ \A r \in Learned(rules') \ Learned(rules) : Finds(r, answered'[1].plain)
<1>1. ASSUME LoopTypeOK, LoopNext PROVE Taught
    <2>1. PICK req \in Inputs : Run(req)
        BY <1>1 DEF LoopNext
    <2> DEFINE inc == IncidentOf(req, ThreatTypes(req, rules))
    <2>2. SUFFICES ASSUME rules' # rules
                   PROVE  /\ healing
                          /\ Rank(Verdict(req, rules)) >= Rank("sanitize")
                          /\ \A r \in Learned(rules') \ Learned(rules) :
                                Finds(r, req.plain)
        BY <2>1 DEF Run
    <2>3. /\ healing /\ Verdict(req, rules) \in {"sanitize", "block_isolate"}
          /\ rules' = Built(rules, inc)
        BY <2>1, <2>2 DEF Run
    <2>4. Rank(Verdict(req, rules)) >= Rank("sanitize")
        BY <2>3 DEF Rank
    <2>5. inc \in Incident /\ rules \in DynamicRule
        BY <1>1, IncidentType DEF LoopTypeOK
    <2>6. Learned(rules') \ Learned(rules) \subseteq Suggested(inc)
        BY <2>3, <2>5, BuiltLearned
    <2> QED BY <2>3, <2>4, <2>6, SuggestedFinds
<1>2. [LoopNext]_loopVars /\ LoopTypeOK => [Taught]_loopVars
    BY <1>1
<1> QED BY <1>2, LoopTypeCorrect, PTL DEF LoopSpec, OnlyFlaggedTeach

-------------------------------------------------------------------------------
(***************************************************************************)
(* Which threats the rules can add to a request: a learned pattern that    *)
(* finds it makes it an injection or an exfiltration, and a redaction may  *)
(* change what the policy sees.                                            *)
(***************************************************************************)
Named(l) == {s.threat : s \in Range(l)}

LEMMA NamedConcat ==
    ASSUME NEW s \in Seq(Signal), NEW t \in Seq(Signal)
    PROVE  s \o t \in Seq(Signal) /\ Named(s \o t) = Named(s) \union Named(t)
<1>1. Range(s \o t) = Range(s) \union Range(t)
    BY RangeConcatenation
<1> QED BY <1>1, ConcatProperties DEF Named

LEMMA NamedFour ==
    ASSUME NEW s \in Seq(Signal), NEW t \in Seq(Signal),
           NEW u \in Seq(Signal), NEW v \in Seq(Signal)
    PROVE  Named(((s \o t) \o u) \o v)
             = Named(s) \union Named(t) \union Named(u) \union Named(v)
<1> DEFINE st == s \o t
           stu == st \o u
<1>1. st \in Seq(Signal) /\ Named(st) = Named(s) \union Named(t)
    BY NamedConcat
<1> HIDE DEF st
<1>2. stu \in Seq(Signal) /\ Named(stu) = Named(st) \union Named(u)
    BY <1>1, NamedConcat
<1> HIDE DEF stu
<1>3. Named(stu \o v) = Named(stu) \union Named(v)
    BY <1>2, NamedConcat
<1> QED BY <1>1, <1>2, <1>3 DEF st, stu

LEMMA NamedWhen ==
    ASSUME NEW n \in Nat
    PROVE  /\ Named(OnInjection(n)) = IF n > 0 THEN {"prompt_injection"} ELSE {}
           /\ Named(OnExfil(n)) = IF n > 0 THEN {"data_exfiltration"} ELSE {}
<1>1. ASSUME NEW s PROVE Range(<<s>>) = {s}
    BY DEF Range
<1>2. Range(<<>>) = {}
    BY DEF Range
<1>3. CASE n > 0
    BY <1>1, <1>3 DEF OnInjection, OnExfil, When, Named, Sig
<1>4. CASE ~ (n > 0)
    BY <1>2, <1>4 DEF OnInjection, OnExfil, When, Named
<1> QED BY <1>3, <1>4

LEMMA NamedPolicy ==
    ASSUME NEW text, NEW policy
    PROVE  Named(PolicySignals(text, policy)) \subseteq {"policy_violation"}
<1>1. ASSUME NEW s PROVE Range(<<s>>) = {s}
    BY DEF Range
<1>2. Range(<<>>) = {}
    BY DEF Range
<1> DEFINE s == Sig("policy", "policy_violation", 90, 85)
<1>3. Named(<<s>>) = {"policy_violation"}
    BY <1>1 DEF Named, Sig
<1>4. Named(<<>>) = {}
    BY <1>2 DEF Named
<1>5. PolicySignals(text, policy) \in {<<s>>, <<>>}
    BY DEF PolicySignals, When
<1> HIDE DEF s
<1> QED BY <1>3, <1>4, <1>5

LEMMA ThreatsAdded ==
    ASSUME NEW req \in AnalyzeRequest, NEW d \in DynamicRule, NEW e \in DynamicRule,
           NEW t \in ThreatTypes(req, e), t \notin ThreatTypes(req, d)
    PROVE  \/ t = "policy_violation"
           \/ t = "prompt_injection" /\ InjectionHits(req, d) = 0
           \/ /\ t = "data_exfiltration"
              /\ ExfilHits(req, d) = 0 /\ ExfilHits(req, e) > 0
<1> DEFINE A == Named(ArtifactSignals(req.artifacts))
           P(x) == Named(PolicySignals(SentinelText(req, x), Policy))
           I(x) == Named(OnInjection(InjectionHits(req, x)))
           J == Named(OnJailbreak(JailbreakHits(req)))
           X(x) == Named(OnExfil(ExfilHits(req, x)))
           E == Named(OnEvasion(req.evasions))
           B == Named(BehaviorSignals(req))
<1>1. ASSUME NEW x \in DynamicRule
      PROVE  ThreatTypes(req, x)
               = A \union P(x) \union (I(x) \union J \union X(x) \union E) \union B
    <2> DEFINE i == OnInjection(InjectionHits(req, x))
               j == OnJailbreak(JailbreakHits(req))
               o == OnExfil(ExfilHits(req, x))
               v == OnEvasion(req.evasions)
    <2>1. /\ i \in Seq(Signal) /\ j \in Seq(Signal)
          /\ o \in Seq(Signal) /\ v \in Seq(Signal)
        BY <1>1, SentinelLists
    <2>5. SentinelSignals(req, x) = ((i \o j) \o o) \o v
        BY SentinelParts
    <2>6. Named(i) = I(x) /\ Named(j) = J /\ Named(o) = X(x) /\ Named(v) = E
        OBVIOUS
    <2> HIDE DEF i, j, o, v, I, J, X, E
    <2>2. Named(SentinelSignals(req, x)) = I(x) \union J \union X(x) \union E
        BY <2>1, <2>5, <2>6, NamedFour
    <2>3. Named(Signals(req, x))
             = A \union P(x) \union Named(SentinelSignals(req, x)) \union B
        BY SignalsType, NamedFour DEF Signals
    <2>4. ThreatTypes(req, x) = Named(Signals(req, x))
        BY DEF ThreatTypes, Named
    <2> QED BY <2>2, <2>3, <2>4
<1>2. P(e) \subseteq {"policy_violation"}
    BY NamedPolicy
<1>3. ASSUME NEW x \in DynamicRule
      PROVE  /\ I(x) = IF InjectionHits(req, x) > 0 THEN {"prompt_injection"} ELSE {}
             /\ X(x) = IF ExfilHits(req, x) > 0 THEN {"data_exfiltration"} ELSE {}
             /\ InjectionHits(req, x) \in Nat /\ ExfilHits(req, x) \in Nat
    BY HitsNat, NamedWhen
<1> HIDE DEF A, P, I, J, X, E, B
<1>4. t \in P(e) \/ t \in I(e) \/ t \in X(e)
    BY <1>1
<1>5. t \notin I(d) /\ t \notin X(d)
    BY <1>1
<1> QED BY <1>2, <1>3, <1>4, <1>5

-------------------------------------------------------------------------------
\* What a list no longer than the cap keeps of the patterns it was to hold.
LEMMA NotFullKeepsAll ==
    ASSUME NEW d \in DynamicRule, NEW inc \in Incident,
           ~Full(Built(d, inc).injection), ~Full(Built(d, inc).exfil)
    PROVE  /\ Built(d, inc).injection = GrownInjection(d, inc)
           /\ Built(d, inc).exfil = GrownExfil(d, inc)
<1>1. ASSUME NEW l \in Seq(Regex), ~Full(Capped(l)) PROVE Capped(l) = l
    BY <1>1, CappedProperties DEF Full, Capped
<1> QED BY <1>1, GrownProperties DEF Built

(***************************************************************************)
(* Once a request has taught, unless a list is full, its incident has no   *)
(* pattern left to add: the threats its own rules name it by suggest none  *)
(* that was not known.                                                     *)
(***************************************************************************)
LEMMA NothingLeft ==
    ASSUME NEW req \in AnalyzeRequest, req.plain \subseteq req.input,
           NEW d \in DynamicRule
    PROVE  LET b == Built(d, IncidentOf(req, ThreatTypes(req, d)))
           IN  (~Full(b.injection) /\ ~Full(b.exfil)) =>
                  Patches(b, IncidentOf(req, ThreatTypes(req, b))) = {}
<1> DEFINE inc == IncidentOf(req, ThreatTypes(req, d))
           b   == Built(d, inc)
           new == IncidentOf(req, ThreatTypes(req, b))
<1> SUFFICES ASSUME ~Full(b.injection), ~Full(b.exfil)
             PROVE  Patches(b, new) = {}
    OBVIOUS
<1>1. inc \in Incident /\ new \in Incident /\ b \in DynamicRule
    BY IncidentType, BuiltType
<1>2. b.injection = GrownInjection(d, inc) /\ b.exfil = GrownExfil(d, inc)
    BY <1>1, NotFullKeepsAll
<1>3. {inc.prompt_injection, inc.jailbreak, inc.tool_abuse} \ {NoRegex}
          \subseteq Range(b.injection)
    BY <1>1, <1>2, GrownRange
<1>4. inc.data_exfiltration # NoRegex => inc.data_exfiltration \in Range(b.exfil)
    BY <1>1, <1>2, GrownRange
<1>5. ASSUME NEW t \in ThreatTypes(req, b), t \notin ThreatTypes(req, d)
      PROVE  \/ t = "policy_violation"
             \/ t = "prompt_injection" /\ InjectionHits(req, d) = 0
             \/ /\ t = "data_exfiltration"
                /\ ExfilHits(req, d) = 0 /\ ExfilHits(req, b) > 0
    <2> HIDE DEF b
    <2> QED BY <1>1, <1>5, ThreatsAdded
<1>6. new.jailbreak \in {inc.jailbreak, NoRegex}
    BY <1>5 DEF IncidentOf
<1>7. new.tool_abuse \in {inc.tool_abuse, NoRegex}
    BY <1>5 DEF IncidentOf
<1>8. new.prompt_injection \in {inc.prompt_injection, NoRegex}
    <2> SUFFICES ASSUME new.prompt_injection # NoRegex,
                        "prompt_injection" \notin ThreatTypes(req, d)
                 PROVE  FALSE
        BY DEF IncidentOf
    <2> DEFINE r == Suggest(SuggestInjection, req.plain)
    <2>1. /\ "prompt_injection" \in ThreatTypes(req, b)
          /\ new.prompt_injection = r
        BY DEF IncidentOf
    <2>2. InjectionHits(req, d) = 0
        BY <1>5, <2>1
    <2>3. r \in Range(SuggestInjection) /\ Finds(r, req.plain)
        BY <2>1, SuggestType, LearningAssumption
    <2>4. PICK p \in req.plain : Finds(r, {p})
        BY <2>3 DEF Finds
    <2>5. p \in Phrase /\ p \in req.input
        BY <2>4 DEF AnalyzeRequest
    <2>6. PICK s \in BaseInjection : Finds(s, {p})
        BY <2>3, <2>4, <2>5, SuggestionsAreKnown
    <2>7. Finds(s, req.input)
        BY <2>5, <2>6 DEF Finds
    <2>8. InjectionHits(req, d) > 0
        BY <2>6, <2>7, HitsType, BasesFinite, RulesAreLists DEF InjectionHits
    <2> QED BY <2>2, <2>8
<1>9. new.data_exfiltration \in {inc.data_exfiltration, NoRegex}
    <2> SUFFICES ASSUME new.data_exfiltration # NoRegex,
                        "data_exfiltration" \notin ThreatTypes(req, d)
                 PROVE  FALSE
        BY DEF IncidentOf
    <2>1. "data_exfiltration" \in ThreatTypes(req, b)
        BY DEF IncidentOf
    <2>2. ExfilHits(req, d) = 0 /\ ExfilHits(req, b) > 0
        BY <1>5, <2>1
    <2>3. inc.data_exfiltration = NoRegex
        BY DEF IncidentOf
    <2>4. b.exfil = d.exfil
        BY <1>2, <2>3 DEF GrownExfil, AppendNew
    <2> HIDE DEF b
    <2> QED BY <2>2, <2>4 DEF ExfilHits
<1>10. /\ Range(GrownInjection(b, new)) = Range(b.injection)
       /\ Range(GrownExfil(b, new)) = Range(b.exfil)
    <2>1. {new.prompt_injection, new.jailbreak, new.tool_abuse} \ {NoRegex}
              \subseteq {inc.prompt_injection, inc.jailbreak, inc.tool_abuse} \ {NoRegex}
        <3> HIDE DEF new, inc
        <3> QED BY <1>6, <1>7, <1>8
    <2>2. {new.data_exfiltration} \ {NoRegex} \subseteq Range(b.exfil)
        <3> HIDE DEF new, inc, b
        <3> QED BY <1>4, <1>9
    <2>3. /\ Range(GrownInjection(b, new)) = Range(b.injection) \union
                ({new.prompt_injection, new.jailbreak, new.tool_abuse} \ {NoRegex})
          /\ Range(GrownExfil(b, new)) = Range(b.exfil) \union
                ({new.data_exfiltration} \ {NoRegex})
        <3> HIDE DEF new, b
        <3> QED BY <1>1, GrownRange
    <2> HIDE DEF b, new, inc
    <2> QED BY <1>3, <2>1, <2>2, <2>3
<1> HIDE DEF b, new
<1> QED BY <1>10 DEF Patches

\* What the last request could teach under the rules it left behind is nothing.
TaughtOnce ==
    answered # <<>> =>
        LET req == answered[1]
        IN  (/\ req.plain \subseteq req.input
             /\ ~Full(rules.injection) /\ ~Full(rules.exfil)
             /\ healing
             /\ Verdict(req, rules) \in {"sanitize", "block_isolate"}) =>
                  Patches(rules, IncidentOf(req, ThreatTypes(req, rules))) = {}

(***************************************************************************)
(* A repeated attack teaches once: handling the request just handled again *)
(* changes neither rules nor version, below the cap and unless             *)
(* normalisation hid part of its text.  TaughtOnce is the invariant.       *)
(***************************************************************************)
THEOREM RepeatsTeachNothing == LoopSpec => RepeatTeachesNothing
<1> DEFINE Idle ==
        (/\ answered' = answered
         /\ answered'[1].plain \subseteq answered'[1].input
         /\ ~Full(rules.injection) /\ ~Full(rules.exfil)) => rules' = rules
<1>1. LoopInit => TaughtOnce
    BY DEF LoopInit, TaughtOnce
<1>2. ASSUME LoopTypeOK, TaughtOnce, [LoopNext]_loopVars PROVE TaughtOnce'
    <2>1. ASSUME NEW req \in Inputs, Run(req) PROVE TaughtOnce'
        <3> DEFINE inc == IncidentOf(req, ThreatTypes(req, rules))
        <3>1. answered' = <<req>> /\ answered'[1] = req /\ healing' = healing
            BY <2>1 DEF Run
        <3> SUFFICES ASSUME req.plain \subseteq req.input,
                            ~Full(rules'.injection), ~Full(rules'.exfil),
                            healing,
                            Verdict(req, rules') \in {"sanitize", "block_isolate"}
                     PROVE  Patches(rules', IncidentOf(req, ThreatTypes(req, rules'))) = {}
            BY <3>1 DEF TaughtOnce
        <3>2. CASE rules' = Built(rules, inc)
            BY <1>2, <3>2, NothingLeft, LearningAssumption DEF LoopTypeOK
        <3>3. CASE rules' = rules /\ Patches(rules, inc) = {}
            BY <3>3
        <3>4. CASE rules' = rules /\ Verdict(req, rules) \notin {"sanitize", "block_isolate"}
            BY <3>4
        <3> QED BY <2>1, <3>2, <3>3, <3>4 DEF Run
    <2>2. CASE UNCHANGED loopVars
        BY <1>2, <2>2 DEF loopVars, TaughtOnce
    <2> QED BY <1>2, <2>1, <2>2 DEF LoopNext
<1>3. ASSUME LoopTypeOK, TaughtOnce, LoopNext PROVE Idle
    <2>1. PICK req \in Inputs : Run(req)
        BY <1>3 DEF LoopNext
    <2> SUFFICES ASSUME answered' = answered, req.plain \subseteq req.input,
                        ~Full(rules.injection), ~Full(rules.exfil),
                        rules' # rules
                 PROVE  FALSE
        BY <2>1 DEF Run
    <2>2. answered = <<req>> /\ answered # <<>> /\ answered[1] = req
        BY <2>1 DEF Run
    <2>3. /\ healing /\ Verdict(req, rules) \in {"sanitize", "block_isolate"}
          /\ Patches(rules, IncidentOf(req, ThreatTypes(req, rules))) # {}
        BY <2>1 DEF Run
    <2> QED BY <1>3, <2>2, <2>3 DEF TaughtOnce
<1>4. [LoopNext]_loopVars /\ LoopTypeOK /\ TaughtOnce => [Idle]_loopVars
    BY <1>3
<1> QED BY <1>1, <1>2, <1>4, LoopTypeCorrect, PTL DEF LoopSpec, RepeatTeachesNothing

-------------------------------------------------------------------------------
\* More matches are at least as much evidence, and so is any list than none.
LEMMA MatchesWeigh ==
    ASSUME NEW threat \in Threats, NEW conf \in {70, 75},
           NEW m \in Nat, NEW n \in Nat, m <= n
    PROVE  LET On(k) == When(k > 0, Sig("sentinel", threat, MatchScore(k), conf))
           IN  AtLeast(Gathered(On(n)), Gathered(On(m)))
<1> DEFINE S(k) == Sig("sentinel", threat, MatchScore(k), conf)
           On(k) == When(k > 0, S(k))
<1> SUFFICES AtLeast(Gathered(On(n)), Gathered(On(m)))
    OBVIOUS
<1>1. ASSUME NEW k \in Nat
      PROVE  /\ k > 0 => S(k) \in Signal
             /\ On(k) = IF k > 0 THEN <<S(k)>> ELSE <<>>
             /\ On(k) \in Seq(Signal)
    <2>1. k > 0 => MatchScore(k) \in 0..100
        BY MatchScoreMonotone
    <2>2. k > 0 => S(k) \in Signal
        BY <2>1, AgentsAndThreats DEF Sig, Signal
    <2>3. On(k) = IF k > 0 THEN <<S(k)>> ELSE <<>>
        BY DEF When
    <2> HIDE DEF On, S
    <2> QED BY <2>2, <2>3, OneOrNone
<1>2. CASE m = 0
    <2>1. Gathered(On(m)) = NoEvidence
        BY <1>2, GatheredNothing DEF When
    <2>2. Gathered(On(n)) \in Evidence
        BY <1>1, GatheredType
    <2> HIDE DEF On
    <2> QED BY <2>1, <2>2 DEF AtLeast, NoEvidence, Evidence
<1>3. CASE m > 0
    <2>1. /\ Gathered(On(m)) = Weigh(NoEvidence, S(m))
          /\ Gathered(On(n)) = Weigh(NoEvidence, S(n))
        <3>1. m > 0 /\ n > 0
            BY <1>3
        <3> HIDE DEF S, On
        <3>2. S(m) \in Signal /\ On(m) = <<S(m)>>
            BY <1>1, <3>1
        <3>3. S(n) \in Signal /\ On(n) = <<S(n)>>
            BY <1>1, <3>1
        <3> QED BY <3>2, <3>3, GatheredOne
    <2>2. /\ MatchScore(m) \in 0..100 /\ MatchScore(n) \in 0..100
          /\ MatchScore(m) <= MatchScore(n)
        BY <1>3, MatchScoreMonotone
    <2>3. DefaultWeights["sentinel"] = 35
        BY DEF DefaultWeights
    <2>4. ASSUME NEW k \in {m, n}
          PROVE  Contribution(S(k)) = MatchScore(k) * 35 * (100 + conf)
        BY <2>3 DEF Contribution, Sig
    <2>5. /\ Contribution(S(m)) \in Nat /\ Contribution(S(n)) \in Nat
          /\ Contribution(S(m)) <= Contribution(S(n))
        <3>1. CASE conf = 70
            BY <2>2, <2>4, <3>1, SMT
        <3>2. CASE conf = 75
            BY <2>2, <2>4, <3>2, SMT
        <3> QED BY <3>1, <3>2
    <2>6. IsStrong(S(m)) => IsStrong(S(n))
        BY <2>2, SMT DEF IsStrong, Sig
    <2>7. S(m).threat = S(n).threat
        BY DEF Sig
    <2> HIDE DEF S, On
    <2> QED BY <2>1, <2>5, <2>6, <2>7 DEF AtLeast, Weigh, NoEvidence
<1> QED BY <1>2, <1>3

(***************************************************************************)
(* What the policy agent finds, it finds under more rules too, unless they *)
(* hide it.                                                                *)
(***************************************************************************)
LEMMA PolicyUnhidden ==
    ASSUME NEW req, ~Hideable(req),
           NEW d, NEW e, Learned(e) \subseteq AllSuggestions
    PROVE  AtLeast(Gathered(PolicySignals(SentinelText(req, e), Policy)),
                   Gathered(PolicySignals(SentinelText(req, d), Policy)))
<1> DEFINE found(x) == \E b \in Policy.blocked : Finds(b, SentinelText(req, x))
           s == Sig("policy", "policy_violation", 90, 85)
<1>1. ASSUME found(d) PROVE found(e)
    <2>1. PICK b \in Policy.blocked, p \in SentinelText(req, d) : <<b, p>> \in Matching
        BY <1>1 DEF Finds
    <2>2. /\ p \in req.input
          /\ \A r \in BaseInjection \union BaseJailbreak \union BaseExfil :
                <<r, p>> \notin Matching
        BY <2>1 DEF SentinelText, Redacted
    <2>3. ~req.role /\ \A r \in AllSuggestions : <<r, p>> \notin Matching
        BY <2>1, <2>2 DEF Hideable, AllSuggestions
    <2>4. SentinelText(req, e)
            = Redacted(req.input, BaseInjection \union BaseJailbreak \union BaseExfil
                                    \union Range(e.injection) \union Range(e.exfil))
        BY <2>3 DEF SentinelText
    <2>5. p \in SentinelText(req, e)
        BY <2>2, <2>3, <2>4 DEF Redacted, Learned
    <2> QED BY <2>1, <2>5 DEF Finds
<1>2. ASSUME NEW x
      PROVE  PolicySignals(SentinelText(req, x), Policy) = IF found(x) THEN <<s>> ELSE <<>>
    BY DEF PolicySignals, When
<1>3. Gathered(<<>>) = NoEvidence /\ Gathered(<<s>>) \in Evidence
    <2>1. s \in Signal
        BY AgentsAndThreats DEF Sig, Signal
    <2> HIDE DEF s
    <2> QED BY <2>1, OneOrNone, GatheredNothing, GatheredType
<1> HIDE DEF found, s
<1>4. AtLeast(Gathered(<<s>>), Gathered(<<>>)) /\ AtLeast(Gathered(<<s>>), Gathered(<<s>>))
      /\ AtLeast(Gathered(<<>>), Gathered(<<>>))
    BY <1>3 DEF AtLeast, NoEvidence, Evidence
<1> QED BY <1>1, <1>2, <1>4

LEMMA MoreRulesNoMilder ==
    ASSUME NEW req \in AnalyzeRequest, ~Hideable(req),
           NEW d \in DynamicRule, NEW inc \in Incident,
           Learned(Built(d, inc)) \subseteq AllSuggestions
    PROVE  Rank(Verdict(req, Built(d, inc))) >= Rank(Verdict(req, d))
<1> DEFINE e == Built(d, inc)
<1>1. e \in DynamicRule
    BY BuiltType
<1>2. /\ InjectionHits(req, d) <= InjectionHits(req, e)
      /\ ExfilHits(req, d) <= ExfilHits(req, e)
    <2>1. /\ Len(d.injection) <= Len(e.injection)
          /\ \A i \in 1..Len(d.injection) : e.injection[i] = d.injection[i]
          /\ Len(d.exfil) <= Len(e.exfil)
          /\ \A i \in 1..Len(d.exfil) : e.exfil[i] = d.exfil[i]
        BY BuiltExtends
    <2>2. /\ d.injection \in Seq(Regex) /\ e.injection \in Seq(Regex)
          /\ d.exfil \in Seq(Regex) /\ e.exfil \in Seq(Regex)
        BY <1>1, RulesAreLists
    <2> HIDE DEF e
    <2>3. Hits(BaseInjection, e.injection, req.input)
             >= Hits(BaseInjection, d.injection, req.input)
        BY <2>1, <2>2, BasesFinite, HitsGrow
    <2>4. Hits(BaseExfil, e.exfil, req.input) >= Hits(BaseExfil, d.exfil, req.input)
        BY <2>1, <2>2, BasesFinite, HitsGrow
    <2>5. /\ InjectionHits(req, d) \in Nat /\ InjectionHits(req, e) \in Nat
          /\ ExfilHits(req, d) \in Nat /\ ExfilHits(req, e) \in Nat
        BY <1>1, HitsNat
    <2> QED BY <2>3, <2>4, <2>5 DEF InjectionHits, ExfilHits
<1> DEFINE P(x) == Gathered(PolicySignals(SentinelText(req, x), Policy))
           S(x) == Gathered(SentinelSignals(req, x))
           A == Gathered(ArtifactSignals(req.artifacts))
           B == Gathered(BehaviorSignals(req))
           I(x) == Gathered(OnInjection(InjectionHits(req, x)))
           J == Gathered(OnJailbreak(JailbreakHits(req)))
           X(x) == Gathered(OnExfil(ExfilHits(req, x)))
           E == Gathered(OnEvasion(req.evasions))
           G(x) == Gathered(Signals(req, x))
<1>3. AtLeast(P(e), P(d))
    <2> HIDE DEF e
    <2> QED BY PolicyUnhidden DEF e
<1> HIDE DEF e
<1>4. AtLeast(I(e), I(d)) /\ AtLeast(X(e), X(d))
    BY <1>1, <1>2, HitsNat, MatchesWeigh, AgentsAndThreats DEF OnInjection, OnExfil
<1>5. ASSUME NEW x \in DynamicRule
      PROVE  /\ S(x) = AllFour(I(x), J, X(x), E)
             /\ I(x) \in Evidence /\ J \in Evidence /\ X(x) \in Evidence /\ E \in Evidence
             /\ G(x) = AllFour(A, P(x), S(x), B)
             /\ A \in Evidence /\ P(x) \in Evidence /\ S(x) \in Evidence /\ B \in Evidence
             /\ G(x) \in Evidence
    BY <1>5, SentinelGathered, SignalsGathered, SignalsType, GatheredType
<1>6. ActionFor(RiskOf(G(e)), DefaultThresholds) = Verdict(req, e)
      /\ ActionFor(RiskOf(G(d)), DefaultThresholds) = Verdict(req, d)
    BY VerdictIsLadder
<1> HIDE DEF P, S, A, B, I, J, X, E, G
<1>7. ASSUME NEW v \in Evidence PROVE AtLeast(v, v)
    BY DEF AtLeast, Evidence
<1>8. AtLeast(S(e), S(d))
    <2>1. /\ I(e) \in Evidence /\ X(e) \in Evidence /\ J \in Evidence /\ E \in Evidence
          /\ S(e) = AllFour(I(e), J, X(e), E)
        BY <1>1, <1>5
    <2>2. /\ I(d) \in Evidence /\ X(d) \in Evidence
          /\ S(d) = AllFour(I(d), J, X(d), E)
        BY <1>5
    <2>3. AtLeast(J, J) /\ AtLeast(E, E)
        BY <1>7, <2>1
    <2>4. AtLeast(AllFour(I(e), J, X(e), E), AllFour(I(d), J, X(d), E))
        BY <1>4, <2>1, <2>2, <2>3, AllFourMonotone
    <2> QED BY <2>1, <2>2, <2>4
<1>9. AtLeast(G(e), G(d))
    <2>1. /\ P(e) \in Evidence /\ S(e) \in Evidence /\ A \in Evidence /\ B \in Evidence
          /\ G(e) = AllFour(A, P(e), S(e), B)
        BY <1>1, <1>5
    <2>2. /\ P(d) \in Evidence /\ S(d) \in Evidence
          /\ G(d) = AllFour(A, P(d), S(d), B)
        BY <1>5
    <2>3. AtLeast(A, A) /\ AtLeast(B, B)
        BY <1>7, <2>1
    <2>4. AtLeast(AllFour(A, P(e), S(e), B), AllFour(A, P(d), S(d), B))
        BY <1>3, <1>8, <2>1, <2>2, <2>3, AllFourMonotone
    <2> QED BY <2>1, <2>2, <2>4
<1>10. Rank(Verdict(req, e)) >= Rank(Verdict(req, d))
    BY <1>1, <1>5, <1>6, <1>9, LadderAtLeast
<1> QED BY <1>10 DEF e

\* Nothing but the patterns of the _suggest_* functions is ever learned.
OnlySuggestions == Learned(rules) \subseteq AllSuggestions

(***************************************************************************)
(* Learning never weakens the verdict on a request, unless it can hide a   *)
(* policy violation of it.  OnlySuggestions is the invariant.              *)
(***************************************************************************)
THEOREM LearningOnlyHides == LoopSpec => LearningWeakensOnlyByHiding
<1> DEFINE NoMilder ==
        \A req \in Inputs :
          ~Hideable(req) =>
              Rank(Verdict(req, rules')) >= Rank(Verdict(req, rules))
<1>1. LoopInit => OnlySuggestions
    BY DEF LoopInit, OnlySuggestions, Learned, EmptyRules, Range
<1>2. ASSUME LoopTypeOK, OnlySuggestions, NEW req \in Inputs, Run(req)
      PROVE  /\ OnlySuggestions'
             /\ rules' = rules \/ \E inc \in Incident : rules' = Built(rules, inc)
    <2> DEFINE inc == IncidentOf(req, ThreatTypes(req, rules))
    <2>1. inc \in Incident /\ rules \in DynamicRule
        BY <1>2, IncidentType DEF LoopTypeOK
    <2>2. rules' = rules \/ rules' = Built(rules, inc)
        BY <1>2 DEF Run
    <2>3. Suggested(inc) \subseteq AllSuggestions
        BY SuggestedFinds
    <2> HIDE DEF inc
    <2>4. Learned(Built(rules, inc)) \subseteq AllSuggestions
        BY <1>2, <2>1, <2>3, BuiltLearned DEF OnlySuggestions
    <2> QED BY <1>2, <2>1, <2>2, <2>4 DEF OnlySuggestions
<1>3. ASSUME LoopTypeOK, OnlySuggestions, [LoopNext]_loopVars PROVE OnlySuggestions'
    BY <1>2, <1>3 DEF LoopNext, loopVars, OnlySuggestions
<1>4. ASSUME LoopTypeOK, OnlySuggestions, LoopNext PROVE NoMilder
    <2> SUFFICES ASSUME NEW req \in Inputs, ~Hideable(req)
                 PROVE  Rank(Verdict(req, rules')) >= Rank(Verdict(req, rules))
        OBVIOUS
    <2>1. req \in AnalyzeRequest /\ rules \in DynamicRule
        BY <1>4, LearningAssumption DEF LoopTypeOK
    <2>2. PICK last \in Inputs : Run(last)
        BY <1>4 DEF LoopNext
    <2>3. CASE rules' = rules
        <3>1. Verdict(req, rules) \in Action
            BY DEF Verdict, Enforced, ActionFor, Action
        <3> QED BY <2>3, <3>1 DEF Rank, Action
    <2>4. ASSUME NEW inc \in Incident, rules' = Built(rules, inc)
          PROVE  Rank(Verdict(req, rules')) >= Rank(Verdict(req, rules))
        <3>1. Learned(Built(rules, inc)) \subseteq AllSuggestions
            BY <1>2, <1>4, <2>2, <2>4 DEF OnlySuggestions
        <3> QED BY <2>1, <2>4, <3>1, MoreRulesNoMilder
    <2> QED BY <1>2, <1>4, <2>2, <2>3, <2>4
<1>5. [LoopNext]_loopVars /\ LoopTypeOK /\ OnlySuggestions => [NoMilder]_loopVars
    BY <1>4
<1> QED BY <1>1, <1>3, <1>5, LoopTypeCorrect, PTL
        DEF LoopSpec, LearningWeakensOnlyByHiding

===============================================================================
