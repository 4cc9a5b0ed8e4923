-------------------------- MODULE EventStreamProofs --------------------------
(***************************************************************************)
(* Proofs about EventStream, for any connections, limits and events.       *)
(***************************************************************************)
EXTENDS EventStream, FiniteSetTheorems, SequenceTheorems, TLAPS

(* The connections whose place is counted.                                 *)
Held == SseSessions \union {c \in SseConns : pc[c] = "lost"}

(* Where a handler is tells what it has read.                              *)
Batches ==
    \A c \in Conns :
        /\ pc[c] = "yield" => batch[c] # <<>>
        /\ pc[c] \in {"idle", "starting", "refusing", "read", "blocked"} =>
              batch[c] = <<>>

(* What a session has read follows what it has sent: batches without a gap,  *)
(* after the cursor but for what was trimmed, up to date while blocked.    *)
OrderOf(c) ==
    /\ cursor[c] = IF got[c] = <<>> THEN 0 ELSE got[c][Len(got[c])]
    /\ \A i \in 1..(Len(batch[c]) - 1) : batch[c][i + 1] = batch[c][i] + 1
    /\ batch[c] # <<>> /\ cursor[c] # 0 =>
          /\ cursor[c] < batch[c][1]
          /\ \A e \in (cursor[c] + 1)..(batch[c][1] - 1) : e < oldest
    /\ pc[c] = "blocked" /\ cursor[c] # 0 => cursor[c] = last
    /\ pc[c] \in {"idle", "starting", "refusing"} => cursor[c] = 0

Order ==
    /\ oldest <= IF last = 0 THEN 1 ELSE last
    /\ \A c \in Conns : OrderOf(c)

(* What the dashboard shows: nothing newer than what its session sent or    *)
(* GET /events answered.                                                   *)
Shown ==
    /\ fetch = "asked" => fetched = <<>>
    /\ \A i, j \in 1..Len(fetched) : i < j => fetched[i] < fetched[j]
    /\ Len(shown) <= MaxItems
    /\ ws # NoConn =>
          \A i \in 1..Len(shown) :
              shown[i] <= Position(ws) \/ (fetch = "shown" /\ shown[i] <= AsOf)

Dash == Shown /\ ShownInOrder /\ GapsAreExplained

Base == TypeOK /\ Batches /\ PlacesAreHeld /\ CapsHold /\ activeSse <= MaxSse

-------------------------------------------------------------------------------
(* The limits are positive.                                                *)
LEMMA Limits ==
    /\ MaxSse \in Nat /\ MaxWs \in Nat /\ StreamLen \in Nat
    /\ ReadCount \in Nat /\ FetchCount \in Nat /\ MaxItems \in Nat
    /\ MaxSse > 0 /\ MaxWs > 0 /\ StreamLen > 0
    /\ ReadCount > 0 /\ FetchCount > 0 /\ MaxItems > 0
    /\ NumEvents \in Nat
BY EventStreamAssumption

(* What sequences hold.                                                    *)
LEMMA Elements ==
    ASSUME NEW S, NEW s \in Seq(S)
    PROVE  /\ Len(s) \in Nat
           /\ \A i \in 1..Len(s) : s[i] \in S
           /\ s # <<>> => Len(s) > 0 /\ s[1] \in S /\ Head(s) = s[1]
           /\ Len(s) > 0 => s # <<>>
<1>1. Len(s) \in Nat /\ (s # <<>> => Len(s) > 0) /\ (Len(s) > 0 => s # <<>>)
    BY EmptySeq, LenProperties
<1>2. \A i \in 1..Len(s) : s[i] \in S
    BY ElementOfSeq
<1>3. s # <<>> => Head(s) = s[1]
    BY <1>1
<1> QED
    BY <1>1, <1>2, <1>3

(* A function on 1..n is a sequence.                                       *)
LEMMA FunctionSeq ==
    ASSUME NEW S, NEW n \in Int, NEW f \in [1..n -> S]
    PROVE  f \in Seq(S) /\ Len(f) = IF n < 0 THEN 0 ELSE n
<1> DEFINE k == IF n < 0 THEN 0 ELSE n
<1>1. k \in Nat /\ 1..n = 1..k
    OBVIOUS
<1>2. f \in [1..k -> S] /\ DOMAIN f = 1..k
    BY <1>1
<1> HIDE DEF k
<1>3. f \in Seq(S)
    BY <1>1, <1>2, SeqDef
<1>4. Len(f) = k
    BY <1>1, <1>2, <1>3, LenProperties
<1> QED
    BY <1>3, <1>4 DEF k

(* The newest items of a list.                                             *)
LEMMA CutType ==
    ASSUME NEW S, NEW s \in Seq(S)
    PROVE  /\ Cut(s) \in Seq(S)
           /\ Len(s) <= MaxItems => Cut(s) = s
           /\ Len(s) > MaxItems =>
                 /\ Len(Cut(s)) = MaxItems
                 /\ \A i \in 1..MaxItems : Cut(s)[i] = s[Len(s) - MaxItems + i]
<1>1. CASE Len(s) > MaxItems
  <2> DEFINE m == Len(s) - MaxItems + 1
  <2>1. m \in Int /\ m = Len(s) - MaxItems + 1 /\ Len(s) \in Int
      BY Limits, LenProperties
  <2> HIDE DEF m
  <2>2. \A i \in m..Len(s) : s[i] \in S
      BY <1>1, <2>1, Limits
  <2>3. /\ SubSeq(s, m, Len(s)) \in Seq(S)
        /\ Len(SubSeq(s, m, Len(s))) =
              IF m <= Len(s) THEN Len(s) - m + 1 ELSE 0
        /\ \A i \in 1..(Len(s) - m + 1) : SubSeq(s, m, Len(s))[i] = s[m + i - 1]
      BY <2>1, <2>2, SubSeqProperties
  <2>4. Cut(s) = SubSeq(s, m, Len(s))
      BY <1>1, <2>1 DEF Cut, m
  <2> QED
      BY <1>1, <2>1, <2>3, <2>4, Limits
<1>2. CASE ~(Len(s) > MaxItems)
    BY <1>2, Limits DEF Cut
<1> QED
    BY <1>1, <1>2

(* What XREAD answers: a range of events, none only when none is newer.    *)
LEMMA NewerType ==
    ASSUME last \in Nat, oldest \in Nat \ {0}, NEW e \in 0..last
    PROVE  LET first == IF e + 1 > oldest THEN e + 1 ELSE oldest
           IN  /\ Newer(e) \in Seq(1..last)
               /\ \A i \in 1..Len(Newer(e)) : Newer(e)[i] = first + i - 1
               /\ first <= last <=> Newer(e) # <<>>
<1> DEFINE first == IF e + 1 > oldest THEN e + 1 ELSE oldest
<1> DEFINE n == IF last - first + 1 > ReadCount THEN ReadCount ELSE last - first + 1
<1>1. first \in Nat \ {0} /\ n \in Int /\ first + n - 1 <= last
      /\ (n > 0 <=> first <= last)
    BY Limits
<1>2. Newer(e) = [i \in 1..n |-> first + i - 1]
    BY DEF Newer
<1> HIDE DEF first, n
<1>3. Newer(e) \in [1..n -> 1..last]
    BY <1>1, <1>2
<1>4. /\ Newer(e) \in Seq(1..last)
      /\ Len(Newer(e)) = IF n < 0 THEN 0 ELSE n
    BY <1>1, <1>3, FunctionSeq
<1>5. ASSUME NEW i \in 1..Len(Newer(e))
      PROVE  Newer(e)[i] = first + i - 1
  <2>1. i \in 1..n
      BY <1>1, <1>4
  <2> QED
      BY <1>2, <2>1
<1>6. Newer(e) # <<>> <=> Len(Newer(e)) > 0
    BY <1>4, EmptySeq
<1> QED
    BY <1>1, <1>4, <1>5, <1>6 DEF first

(* Who has a place is counted.                                             *)
LEMMA HeldIsCounted ==
    ASSUME PlacesAreHeld, NEW c \in Held
    PROVE  activeSse >= 1
<1>1. IsFiniteSet(Held) /\ Cardinality(Held) \in Nat
  <2>1. Held \in SUBSET SseConns /\ IsFiniteSet(SseConns)
      BY EventStreamAssumption DEF Held, SseSessions
  <2> QED
      BY <2>1, FS_Subset, FS_CardinalityType
<1>2. Cardinality(Held) # 0
    BY <1>1, FS_EmptySet
<1> QED
    BY <1>1, <1>2 DEF PlacesAreHeld, Held

-------------------------------------------------------------------------------
(* Types and what the handlers have read, step by step.                    *)
LEMMA BaseInit ==
    ASSUME Init
    PROVE  Base
<1>1. TypeOK
    BY Limits, EmptySeq, EventStreamAssumption
       DEF Init, TypeOK, Places, Conns
<1>2. Batches
    BY DEF Init, Batches
<1>3. PlacesAreHeld /\ CapsHold
  <2>1. /\ SseSessions = {}
        /\ WsSessions = {}
        /\ SseSessions \union {c \in SseConns : pc[c] = "lost"} = {}
      BY DEF Init, InSession, Conns, SseSessions, WsSessions
  <2>2. Cardinality({}) = 0
      BY FS_EmptySet
  <2>3. activeSse = 0 /\ activeWs = {}
      BY DEF Init
  <2>4. PlacesAreHeld
      BY <2>1, <2>2, <2>3, Zenon DEF PlacesAreHeld
  <2>5. Cardinality(SseSessions) = 0 /\ Cardinality(WsSessions) = 0
      BY <2>1, <2>2, Zenon
  <2>6. CapsHold
      BY <2>5, Limits DEF CapsHold
  <2> QED
      BY <2>4, <2>6
<1> QED
    BY <1>1, <1>2, <1>3, Limits DEF Base, Init

LEMMA TypeStep ==
    ASSUME Base, [Next]_vars
    PROVE  TypeOK' /\ Batches'
<1> USE Limits DEF Base
<1>1. CASE Publish
  <2>1. last' \in 1..NumEvents /\ last' = last + 1 /\ 1..last \subseteq 1..last'
      BY <1>1 DEF Publish, TypeOK
  <2>2. \A q \in Seq(1..last) : q \in Seq(1..last')
      BY <2>1, SeqMonotonic
  <2>3. <<last'>> \in Seq(1..last') /\ <<last'>> # <<>>
      BY <2>1
  <2>4. batch' \in [Conns -> Seq(1..last')]
      BY <1>1, <2>2, <2>3 DEF Publish, TypeOK
  <2>5. got' \in [Conns -> Seq(1..last')]
      BY <1>1, <2>2 DEF Publish, TypeOK
  <2>6. fetched' \in Seq(1..last') /\ shown' \in Seq(1..last')
      BY <1>1, <2>2 DEF Publish, TypeOK
  <2>7. /\ oldest' \in 1..(last' + 1)
        /\ cursor' \in [Conns -> 0..last']
        /\ missed' \in SUBSET (1..last')
      BY <1>1, <2>1 DEF Publish, TypeOK
  <2>8. /\ pc' \in [Conns -> Places]
        /\ \A c \in WsConns :
              pc'[c] \notin {"starting", "refusing", "closing", "lost"}
      BY <1>1 DEF Publish, TypeOK, Places, Conns
  <2>9. Batches'
      BY <1>1, <2>3 DEF Publish, TypeOK, Batches, Places
  <2>10. UNCHANGED <<expired, gone, activeSse, activeWs, ws, fetch>>
      BY <1>1 DEF Publish, slots
  <2>11. last' \in 0..NumEvents
      BY <2>1
  <2>12. TypeOK'
      BY <2>4, <2>5, <2>6, <2>7, <2>8, <2>10, <2>11 DEF TypeOK
  <2> QED
      BY <2>9, <2>12
<1>2. ASSUME NEW c \in SseConns, SseNext(c)
      PROVE  TypeOK' /\ Batches'
  <2>1. c \in Conns /\ c \notin WsConns /\ (c \in Held => activeSse >= 1)
      BY HeldIsCounted, EventStreamAssumption DEF Conns
  <2>2. activeSse' \in Nat
    <3>1. activeSse \in Nat
        BY DEF TypeOK
    <3>2. CASE SseRelease(c) \/ SseLeaves(c)
      <4>1. \/ activeSse' = activeSse
            \/ activeSse' = activeSse - 1 /\ InSession(c)
          BY <3>2 DEF SseRelease, SseLeaves, InSession
      <4> QED
          BY <2>1, <3>1, <4>1 DEF Held, SseSessions
    <3>3. CASE ~(SseRelease(c) \/ SseLeaves(c))
        BY <1>2, <3>1, <3>3
           DEF SseNext, SseStep, SseOpen, SseStart, SseRefused, slots
    <3> QED
        BY <3>2, <3>3
  <2>3. UNCHANGED <<last, oldest, cursor, batch, got, expired, activeWs, dash>>
      BY <1>2 DEF SseNext, SseStep, SseOpen, SseStart, SseRefused, SseRelease,
                  SseLeaves, slots, stream
  <2>4. \E p \in Places \ {"blocked", "idle"} :
           /\ Goto(c, p)
           /\ p = "yield" => FALSE
           /\ p \in {"starting", "refusing", "read"} =>
                 pc[c] \in {"idle", "starting"}
      BY <1>2 DEF SseNext, SseStep, SseOpen, SseStart, SseRefused, SseRelease,
                  SseLeaves, Places
  <2>5. gone' \in [Conns -> BOOLEAN]
      BY <1>2 DEF SseNext, SseStep, SseOpen, SseStart, SseRefused, SseRelease,
                  SseLeaves, TypeOK
  <2>6. pc' \in [Conns -> Places] /\ \A d \in Conns : d # c => pc'[d] = pc[d]
      BY <2>4 DEF TypeOK, Goto
  <2>7. TypeOK'
      BY <2>1, <2>2, <2>3, <2>5, <2>6 DEF TypeOK, dash, Conns
  <2>8. Batches'
      BY <2>1, <2>3, <2>4, <2>6 DEF TypeOK, Batches, Goto
  <2> QED
      BY <2>7, <2>8
<1>3. ASSUME NEW c \in WsConns, WsNext(c)
      PROVE  TypeOK' /\ Batches'
  <2>1. c \in Conns
      BY DEF Conns
  <2>2. UNCHANGED <<last, oldest, cursor, batch, got, expired, activeSse, fetch,
                    fetched, shown>>
      BY <1>3 DEF WsNext, WsOpen, WsBreaks, WsSendFails, slots, stream, dash
  <2>3. /\ gone' \in [Conns -> BOOLEAN]
        /\ activeWs' \in SUBSET WsConns
        /\ ws' \in WsConns \union {NoConn}
        /\ missed' \in SUBSET (1..last)
      BY <1>3 DEF WsNext, WsOpen, WsBreaks, WsSendFails, slots, dash, TypeOK, Pending
  <2>4. UNCHANGED pc \/ Goto(c, "done") \/ (pc[c] = "idle" /\ Goto(c, "read"))
      BY <1>3 DEF WsNext, WsOpen, WsBreaks, WsSendFails
  <2>5. pc' \in [Conns -> Places] /\ \A d \in Conns : d # c => pc'[d] = pc[d]
      BY <2>4 DEF TypeOK, Goto, Places
  <2>6. pc'[c] \in {pc[c], "done", "read"}
      BY <2>4 DEF TypeOK, Goto
  <2>7. TypeOK'
      BY <2>1, <2>2, <2>3, <2>5, <2>6 DEF TypeOK, Conns
  <2>8. Batches'
      BY <2>1, <2>2, <2>4, <2>5 DEF TypeOK, Batches, Goto
  <2> QED
      BY <2>7, <2>8
<1>4. ASSUME NEW c \in Conns, SessionNext(c)
      PROVE  TypeOK' /\ Batches'
  <2>1. CASE Read(c)
    <3>1. cursor[c] \in 0..last /\ last \in Nat /\ oldest \in Nat \ {0}
        BY DEF TypeOK
    <3>2. batch'[c] \in Seq(1..last)
        BY <2>1, <3>1, NewerType, EmptySeq DEF Read, TypeOK
    <3>3. batch' \in [Conns -> Seq(1..last)]
        BY <2>1, <3>2 DEF Read, TypeOK
    <3>4. \A d \in Conns : d # c => batch'[d] = batch[d]
        BY <2>1 DEF Read, TypeOK
    <3> QED
        BY <2>1, <3>3, <3>4
           DEF Read, TypeOK, Batches, Goto, Places, stream, slots, dash, Conns
  <2>2. CASE BlockExpires(c)
      BY <2>2 DEF BlockExpires, TypeOK, Batches, Goto, Places, stream, slots, dash,
                  Conns
  <2>3. CASE Yield(c)
    <3>1. batch[c] \in Seq(1..last) /\ batch[c] # <<>>
        BY <2>3 DEF Yield, TypeOK, Batches
    <3>2. Head(batch[c]) \in 1..last /\ Tail(batch[c]) \in Seq(1..last)
        BY <3>1, HeadTailProperties
    <3>3. /\ Append(got[c], Head(batch[c])) \in Seq(1..last)
          /\ Append(shown, Head(batch[c])) \in Seq(1..last)
        BY <3>2 DEF TypeOK
    <3>31. WithFrame(Head(batch[c])) \in Seq(1..last)
        BY <3>3, CutType DEF WithFrame
    <3>4. /\ cursor' \in [Conns -> 0..last]
          /\ batch' \in [Conns -> Seq(1..last)]
          /\ got' \in [Conns -> Seq(1..last)]
          /\ shown' \in Seq(1..last)
          /\ UNCHANGED <<last, oldest, expired, gone, fetch, fetched, activeSse>>
      <4>1. Head(batch[c]) \in 0..last
          BY <3>2
      <4> QED
          BY <2>3, <3>2, <3>3, <3>31, <4>1 DEF Yield, TypeOK, stream, slots, Close
    <3>5. /\ activeWs' \in SUBSET WsConns
          /\ ws' \in WsConns \union {NoConn}
          /\ missed' \in SUBSET (1..last)
        BY <2>3 DEF Yield, TypeOK, slots, Close
    <3>6. /\ batch'[c] = Tail(batch[c])
          /\ \A d \in Conns : d # c => batch'[d] = batch[d]
          /\ \/ Goto(c, IF c \in SseConns THEN "closing" ELSE "done")
             \/ Goto(c, IF Tail(batch[c]) = <<>> THEN "read" ELSE "yield")
        BY <2>3 DEF Yield, TypeOK, Close
    <3> QED
      <4>1. pc' \in [Conns -> Places] /\ \A d \in Conns : d # c => pc'[d] = pc[d]
          BY <3>6 DEF TypeOK, Goto, Places
      <4>2. /\ pc'[c] \in {"closing", "done", "read", "yield"}
            /\ pc'[c] = "closing" => c \notin WsConns
            /\ pc'[c] = "yield" => batch'[c] # <<>>
            /\ pc'[c] = "read" => batch'[c] = <<>>
          BY <3>6, EventStreamAssumption DEF TypeOK, Goto
      <4>3. TypeOK'
          BY <3>4, <3>5, <4>1, <4>2 DEF TypeOK, Conns
      <4>4. Batches'
          BY <3>6, <4>1, <4>2 DEF Batches
      <4> QED
          BY <4>3, <4>4
  <2>4. CASE ReadFails(c)
    <3>1. /\ UNCHANGED <<last, oldest, cursor, batch, got, expired, gone, activeSse,
                          fetch, fetched, shown>>
          /\ Goto(c, IF c \in SseConns THEN "closing" ELSE "done")
        BY <2>4 DEF ReadFails, Close, stream
    <3>2. /\ activeWs' \in SUBSET WsConns
          /\ ws' \in WsConns \union {NoConn}
          /\ missed' \in SUBSET (1..last)
        BY <2>4 DEF ReadFails, Close, TypeOK
    <3>3. pc' \in [Conns -> Places] /\ \A d \in Conns : d # c => pc'[d] = pc[d]
        BY <3>1 DEF TypeOK, Goto, Places
    <3>4. pc'[c] \in {"closing", "done"} /\ (pc'[c] = "closing" => c \notin WsConns)
        BY <3>1, EventStreamAssumption DEF TypeOK, Goto
    <3>5. TypeOK'
        BY <3>1, <3>2, <3>3, <3>4 DEF TypeOK, Conns
    <3>6. Batches'
        BY <3>1, <3>3, <3>4 DEF Batches
    <3> QED
        BY <3>5, <3>6
  <2>5. CASE Expire(c)
      BY <2>5 DEF Expire, TypeOK, Batches, stream, slots, dash
  <2> QED
      BY <1>4, <2>1, <2>2, <2>3, <2>4, <2>5 DEF SessionNext, Serve
<1>5. CASE FetchRead
  <2> DEFINE first == IF last - FetchCount + 1 > oldest
                      THEN last - FetchCount + 1 ELSE oldest
  <2>1. first \in Nat \ {0} /\ last \in Nat
      BY DEF TypeOK
  <2>2. fetched' \in [1..(last - first + 1) -> 1..last]
    <3>1. fetched' = [i \in 1..(last - first + 1) |-> first + i - 1]
        BY <1>5 DEF FetchRead
    <3> HIDE DEF first
    <3> QED
        BY <2>1, <3>1
  <2>3. fetched' \in Seq(1..last)
    <3> HIDE DEF first
    <3> QED
        BY <2>1, <2>2, FunctionSeq
  <2> QED
      BY <1>5, <2>3 DEF FetchRead, TypeOK, Batches, stream, slots
<1>6. CASE FetchArrives
  <2>1. Cut(fetched) \in Seq(1..last)
      BY CutType DEF TypeOK
  <2> QED
      BY <1>6, <2>1 DEF FetchArrives, TypeOK, Batches, stream, slots
<1>7. CASE FetchFails
    BY <1>7 DEF FetchFails, TypeOK, Batches, stream, slots
<1>8. CASE UNCHANGED vars
    BY <1>8 DEF vars, TypeOK, Batches, stream, slots, dash
<1> QED
    BY <1>1, <1>2, <1>3, <1>4, <1>5, <1>6, <1>7, <1>8 DEF Next

-------------------------------------------------------------------------------
(* Who is in a session, and who has a place, depends on pc alone.          *)
LEMMA SamePlaces ==
    ASSUME Base, UNCHANGED slots,
           \A c \in Conns : /\ InSession(c)' <=> InSession(c)
                            /\ pc'[c] = "lost" <=> pc[c] = "lost"
    PROVE  (PlacesAreHeld /\ CapsHold /\ activeSse <= MaxSse)'
<1>1. /\ SseSessions' = SseSessions
      /\ WsSessions' = WsSessions
      /\ {c \in SseConns : pc'[c] = "lost"} = {c \in SseConns : pc[c] = "lost"}
    BY DEF SseSessions, WsSessions, Conns
<1> QED
    BY <1>1 DEF Base, PlacesAreHeld, CapsHold, slots

(* A part of a finite set has at most its size.                            *)
LEMMA PartIsSmaller ==
    ASSUME NEW S, IsFiniteSet(S), NEW T \in SUBSET S, NEW n \in Nat,
           Cardinality(S) <= n
    PROVE  Cardinality(T) <= n
<1>1. Cardinality(T) <= Cardinality(S) /\ IsFiniteSet(T)
    BY FS_Subset
<1>2. Cardinality(T) \in Nat /\ Cardinality(S) \in Nat
    BY <1>1, FS_CardinalityType
<1> QED
    BY <1>1, <1>2

(* An SSE connection changes the count as it takes or leaves its place.    *)
LEMMA SsePlaces ==
    ASSUME Base, NEW c \in SseConns, SseNext(c), TypeOK'
    PROVE  (PlacesAreHeld /\ CapsHold /\ activeSse <= MaxSse)'
<1>1. /\ c \in Conns /\ c \notin WsConns
      /\ activeSse \in Nat /\ activeSse' \in Nat /\ pc[c] \in Places
      /\ IsFiniteSet(Held)
  <2>1. Held \in SUBSET SseConns
      BY DEF Held, SseSessions
  <2> QED
      BY <2>1, EventStreamAssumption, FS_Subset DEF Base, TypeOK, Conns
<1>2. \E p \in Places : Goto(c, p)
    BY DEF SseNext, SseStep, SseOpen, SseStart, SseRefused, SseRelease, SseLeaves,
           Places
<1>3. pc'[c] \in Places /\ \A d \in Conns : d # c => pc'[d] = pc[d]
    BY <1>1, <1>2 DEF Base, TypeOK, Goto
<1>4. WsSessions' = WsSessions /\ activeWs' = activeWs
  <2>1. activeWs' = activeWs
      BY DEF SseNext, SseStep, SseOpen, SseStart, SseRefused, SseRelease, SseLeaves,
             slots
  <2>2. \A d \in WsConns : pc'[d] = pc[d]
      BY <1>1, <1>3 DEF Conns
  <2> QED
      BY <2>1, <2>2 DEF WsSessions, InSession
<1>5. \/ pc[c] = "starting" /\ pc'[c] = "read"
         /\ activeSse < MaxSse /\ activeSse' = activeSse + 1
      \/ c \in Held /\ pc'[c] = "done" /\ activeSse' = activeSse - 1
      \/ /\ c \in Held <=> pc'[c] \in {"read", "blocked", "yield", "closing", "lost"}
         /\ activeSse' = activeSse
  <2>1. /\ c \in Held <=> InSession(c) \/ pc[c] = "lost"
        /\ pc \in [Conns -> Places] /\ MaxSse \in Nat
      BY Limits DEF Held, SseSessions, Base, TypeOK
  <2>2. CASE SseOpen(c)
      BY <1>1, <2>1, <2>2 DEF SseOpen, Goto, slots, InSession
  <2>3. CASE SseStart(c)
      BY <1>1, <2>1, <2>3 DEF SseStart, Goto, InSession
  <2>4. CASE SseRefused(c)
      BY <1>1, <2>1, <2>4 DEF SseRefused, Goto, slots, InSession
  <2>5. CASE SseRelease(c)
      BY <1>1, <2>1, <2>5 DEF SseRelease, Goto, InSession
  <2>6. CASE SseLeaves(c)
      BY <1>1, <2>1, <2>6 DEF SseLeaves, Goto, InSession
  <2> QED
      BY <2>2, <2>3, <2>4, <2>5, <2>6 DEF SseNext, SseStep
<1>6. Held' = IF pc'[c] \in {"read", "blocked", "yield", "closing", "lost"}
              THEN Held \union {c} ELSE Held \ {c}
    BY <1>3 DEF Held, SseSessions, InSession, Conns
<1>7. activeSse = Cardinality(Held)
    BY DEF Base, PlacesAreHeld, Held
<1>8. activeSse' = Cardinality(Held') /\ activeSse' <= MaxSse
  <2>1. CASE pc[c] = "starting" /\ pc'[c] = "read"
             /\ activeSse < MaxSse /\ activeSse' = activeSse + 1
    <3>1. c \notin Held /\ Held' = Held \union {c}
        BY <1>6, <2>1 DEF Held, SseSessions, InSession
    <3>2. Cardinality(Held') = Cardinality(Held) + 1
        BY <1>1, <3>1, FS_AddElement
    <3> QED
        BY <1>1, <1>7, <2>1, <3>2, Limits
  <2>2. CASE c \in Held /\ pc'[c] = "done" /\ activeSse' = activeSse - 1
    <3>1. Held' = Held \ {c}
        BY <1>6, <2>2
    <3>2. Cardinality(Held') = Cardinality(Held) - 1
        BY <1>1, <2>2, <3>1, FS_RemoveElement
    <3> QED
        BY <1>1, <1>7, <2>2, <3>2, Limits DEF Base
  <2>3. CASE /\ c \in Held <=> pc'[c] \in {"read", "blocked", "yield", "closing",
                                          "lost"}
             /\ activeSse' = activeSse
    <3>1. Held' = Held
        BY <1>6, <2>3
    <3> QED
        BY <1>7, <2>3, <3>1 DEF Base
  <2> QED
      BY <1>5, <2>1, <2>2, <2>3
<1>9. PlacesAreHeld'
    BY <1>4, <1>8 DEF Base, PlacesAreHeld, Held
<1>10. Cardinality(SseSessions') <= MaxSse
  <2>1. SseSessions' \in SUBSET Held' /\ Held' \in SUBSET SseConns
      BY DEF Held, SseSessions
  <2>2. IsFiniteSet(Held') /\ Cardinality(Held') <= MaxSse
      BY <1>8, <2>1, EventStreamAssumption, FS_Subset
  <2> QED
      BY <2>1, <2>2, PartIsSmaller, Limits
<1> QED
    BY <1>4, <1>8, <1>9, <1>10 DEF Base, CapsHold

(* A WebSocket connection does so in one step with its set.                *)
LEMMA WsPlaces ==
    ASSUME Base, NEW c \in WsConns, UNCHANGED activeSse,
           \/ /\ pc[c] = "idle" /\ Goto(c, "read")
              /\ activeWs' = activeWs \union {c} /\ Cardinality(activeWs) < MaxWs
           \/ Goto(c, "done") /\ activeWs' = activeWs \ {c}
    PROVE  (PlacesAreHeld /\ CapsHold /\ activeSse <= MaxSse)'
<1>1. c \in Conns /\ c \notin SseConns /\ pc \in [Conns -> Places]
    BY EventStreamAssumption DEF Conns, Base, TypeOK
<1>2. \A d \in SseConns : pc'[d] = pc[d]
    BY <1>1 DEF Goto, Conns
<1>3. /\ SseSessions' = SseSessions
      /\ {d \in SseConns : pc'[d] = "lost"} = {d \in SseConns : pc[d] = "lost"}
    BY <1>2 DEF SseSessions, InSession
<1>4. activeWs = WsSessions /\ IsFiniteSet(activeWs) /\ Cardinality(activeWs) \in Nat
      /\ Cardinality(activeWs) <= MaxWs
  <2>1. activeWs = WsSessions /\ activeWs \in SUBSET WsConns
        /\ Cardinality(activeWs) <= MaxWs
      BY DEF Base, PlacesAreHeld, TypeOK, CapsHold
  <2> QED
      BY <2>1, EventStreamAssumption, FS_Subset, FS_CardinalityType
<1>5. activeWs' = WsSessions' /\ Cardinality(WsSessions') <= MaxWs
  <2>1. CASE /\ pc[c] = "idle" /\ Goto(c, "read")
             /\ activeWs' = activeWs \union {c} /\ Cardinality(activeWs) < MaxWs
    <3>1. WsSessions' = activeWs \union {c} /\ c \notin activeWs
        BY <1>1, <1>4, <2>1 DEF WsSessions, InSession, Goto, Conns
    <3>2. Cardinality(WsSessions') = Cardinality(activeWs) + 1
        BY <1>4, <3>1, FS_AddElement
    <3> QED
        BY <1>4, <2>1, <3>1, <3>2, Limits
  <2>2. CASE Goto(c, "done") /\ activeWs' = activeWs \ {c}
    <3>1. WsSessions' = activeWs \ {c}
        BY <1>1, <1>4, <2>2 DEF WsSessions, InSession, Goto, Conns
    <3>2. activeWs \ {c} \in SUBSET activeWs
        OBVIOUS
    <3>3. Cardinality(activeWs \ {c}) <= MaxWs
        BY <1>4, <3>2, PartIsSmaller, Limits
    <3> QED
        BY <2>2, <3>1, <3>3
  <2> QED
      BY <2>1, <2>2
<1> QED
    BY <1>3, <1>5 DEF Base, PlacesAreHeld, CapsHold

LEMMA BaseStep ==
    ASSUME Base, [Next]_vars
    PROVE  Base'
<1>1. TypeOK' /\ Batches'
    BY TypeStep
<1>2. CASE Publish
  <2>1. \A c \in Conns : /\ InSession(c)' <=> InSession(c)
                         /\ pc'[c] = "lost" <=> pc[c] = "lost"
      BY <1>2 DEF Publish, InSession
  <2> QED
      BY <1>1, <1>2, <2>1, SamePlaces DEF Publish, Base
<1>3. ASSUME NEW c \in SseConns, SseNext(c)
      PROVE  Base'
    BY <1>1, <1>3, SsePlaces DEF Base
<1>4. ASSUME NEW c \in WsConns, WsNext(c)
      PROVE  Base'
  <2>1. CASE WsOpen(c)
    <3>1. CASE Cardinality(activeWs) >= MaxWs
      <4>1. UNCHANGED slots /\ Goto(c, "done") /\ pc[c] = "idle"
          BY <2>1, <3>1 DEF WsOpen, slots
      <4>2. \A d \in Conns : /\ InSession(d)' <=> InSession(d)
                             /\ pc'[d] = "lost" <=> pc[d] = "lost"
          BY <4>1 DEF Goto, InSession, Base, TypeOK
      <4> QED
          BY <1>1, <4>1, <4>2, SamePlaces DEF Base
    <3>2. CASE ~(Cardinality(activeWs) >= MaxWs)
      <4>1. Cardinality(activeWs) \in Nat
          BY EventStreamAssumption, FS_Subset, FS_CardinalityType DEF Base, TypeOK
      <4>2. Cardinality(activeWs) < MaxWs
          BY <3>2, <4>1, Limits
      <4> QED
          BY <1>1, <2>1, <3>2, <4>2, WsPlaces DEF WsOpen, Base
    <3> QED
        BY <3>1, <3>2
  <2>2. CASE WsBreaks(c)
    <3>1. UNCHANGED slots /\ UNCHANGED pc
        BY <2>2 DEF WsBreaks
    <3> QED
        BY <1>1, <3>1, SamePlaces DEF Base, InSession
  <2>3. CASE WsSendFails(c)
      BY <1>1, <2>3, WsPlaces DEF WsSendFails, Base
  <2> QED
      BY <1>4, <2>1, <2>2, <2>3 DEF WsNext
<1>5. ASSUME NEW c \in Conns, SessionNext(c)
      PROVE  Base'
  <2>1. pc \in [Conns -> Places]
      BY DEF Base, TypeOK
  <2>2. ASSUME NEW p \in {"read", "blocked", "yield", "closing"}, Goto(c, p),
               InSession(c), UNCHANGED slots
        PROVE  Base'
    <3>1. \A d \in Conns : /\ InSession(d)' <=> InSession(d)
                           /\ pc'[d] = "lost" <=> pc[d] = "lost"
        BY <2>1, <2>2 DEF Goto, InSession
    <3>2. (PlacesAreHeld /\ CapsHold /\ activeSse <= MaxSse)'
        BY <2>2, <3>1, SamePlaces
    <3> QED
        BY <1>1, <3>2 DEF Base
  <2>3. ASSUME NEW e, Close(c, e), InSession(c)
        PROVE  Base'
    <3>1. CASE c \in SseConns
      <4>1. activeWs' = activeWs
        <5>1. activeWs \subseteq WsConns
            BY DEF Base, TypeOK
        <5>2. c \notin WsConns
            BY <3>1, EventStreamAssumption
        <5>3. activeWs' = activeWs \ {c}
            BY <2>3 DEF Close
        <5> QED
            BY <5>1, <5>2, <5>3
      <4> QED
          BY <2>2, <2>3, <3>1, <4>1 DEF Close, slots
    <3>2. CASE c \in WsConns
        BY <1>1, <2>3, <3>2, WsPlaces, EventStreamAssumption DEF Close, Base
    <3> QED
        BY <3>1, <3>2 DEF Conns
  <2>4. CASE Read(c) \/ BlockExpires(c)
      BY <2>2, <2>4 DEF Read, BlockExpires, InSession
  <2>5. CASE Yield(c)
      BY <2>2, <2>3, <2>5 DEF Yield, InSession
  <2>6. CASE ReadFails(c)
      BY <2>3, <2>6 DEF ReadFails, InSession
  <2>7. CASE Expire(c)
    <3>1. UNCHANGED slots /\ UNCHANGED pc
        BY <2>7 DEF Expire
    <3> QED
        BY <1>1, <3>1, SamePlaces DEF Base, InSession
  <2> QED
      BY <1>5, <2>4, <2>5, <2>6, <2>7 DEF SessionNext, Serve
<1>6. CASE FetchRead \/ FetchArrives \/ FetchFails \/ UNCHANGED vars
  <2>1. UNCHANGED slots /\ UNCHANGED pc
      BY <1>6 DEF FetchRead, FetchArrives, FetchFails, vars
  <2> QED
      BY <1>1, <2>1, SamePlaces DEF Base, InSession
<1> QED
    BY <1>2, <1>3, <1>4, <1>5, <1>6 DEF Next

(* Types, for any connections, limits and events.                          *)
THEOREM TypeCorrect == Spec => []TypeOK
<1>1. Init => Base
    BY BaseInit
<1>2. Base /\ [Next]_vars => Base'
    BY BaseStep
<1>3. Base => TypeOK
    BY DEF Base
<1> QED
    BY <1>1, <1>2, <1>3, PTL DEF Spec

(* Places are counted exactly while they are held.                         *)
THEOREM PlacesCounted == Spec => []PlacesAreHeld
<1>1. Init => Base
    BY BaseInit
<1>2. Base /\ [Next]_vars => Base'
    BY BaseStep
<1>3. Base => PlacesAreHeld
    BY DEF Base
<1> QED
    BY <1>1, <1>2, <1>3, PTL DEF Spec

(* No more sessions than configured, whatever requests race for a place.   *)
THEOREM CapsRespected == Spec => []CapsHold
<1>1. Init => Base
    BY BaseInit
<1>2. Base /\ [Next]_vars => Base'
    BY BaseStep
<1>3. Base => CapsHold
    BY DEF Base
<1> QED
    BY <1>1, <1>2, <1>3, PTL DEF Spec

-------------------------------------------------------------------------------
(* A step that neither reads, sends nor publishes keeps the order.         *)
LEMMA OrderKept ==
    ASSUME Order, SentInOrder, UNCHANGED <<last, oldest, cursor, batch, got>>,
           \A c \in Conns :
              \/ pc'[c] = pc[c]
              \/ pc'[c] \in {"starting", "refusing"} /\ pc[c] \in {"idle", "starting"}
              \/ pc'[c] \in {"read", "yield", "closing", "done", "lost"}
    PROVE  Order' /\ SentInOrder'
BY DEF Order, OrderOf, SentInOrder

LEMMA OrderStep ==
    ASSUME Base, Order, SentInOrder, [Next]_vars
    PROVE  Order' /\ SentInOrder'
<1>1. /\ last \in Nat /\ oldest \in Nat \ {0} /\ pc \in [Conns -> Places]
      /\ cursor \in [Conns -> 0..last]
      /\ batch \in [Conns -> Seq(1..last)] /\ got \in [Conns -> Seq(1..last)]
    BY Limits DEF Base, TypeOK
<1>2. CASE Publish
  <2>1. last' = last + 1 /\ oldest' \in oldest..last' /\ UNCHANGED <<cursor, got>>
      BY <1>2 DEF Publish
  <2>2. ASSUME NEW c \in Conns
        PROVE  /\ batch'[c] = IF pc[c] = "blocked" THEN <<last'>> ELSE batch[c]
               /\ pc'[c] = IF pc[c] = "blocked" THEN "yield" ELSE pc[c]
      BY <1>2, <2>2 DEF Publish
  <2>3. oldest' <= IF last' = 0 THEN 1 ELSE last'
      BY <1>1, <2>1
  <2>4. ASSUME NEW c \in Conns
        PROVE  OrderOf(c)'
    <3>1. OrderOf(c) /\ batch[c] \in Seq(1..last) /\ cursor[c] \in 0..last
        BY <1>1 DEF Order
    <3>2. CASE pc[c] = "blocked"
      <4>1. batch'[c] = <<last'>> /\ pc'[c] = "yield"
            /\ Len(<<last'>>) = 1 /\ <<last'>>[1] = last'
          BY <2>2, <3>2
      <4>2. cursor[c] # 0 => cursor[c] = last
          BY <3>1, <3>2 DEF OrderOf
      <4> QED
          BY <1>1, <2>1, <3>1, <4>1, <4>2 DEF OrderOf
    <3>3. CASE pc[c] # "blocked"
      <4>1. batch'[c] = batch[c] /\ pc'[c] = pc[c]
          BY <2>2, <3>3
      <4>2. batch[c] # <<>> => batch[c][1] \in 1..last
          BY <3>1, Elements
      <4>3. oldest <= oldest' /\ oldest' \in Nat
          BY <1>1, <2>1
      <4> QED
          BY <1>1, <2>1, <3>1, <3>3, <4>1, <4>2, <4>3 DEF OrderOf
    <3> QED
        BY <3>2, <3>3
  <2>5. SentInOrder'
    <3>1. ASSUME NEW c \in Conns, NEW i \in 1..(Len(got[c]) - 1)
          PROVE  /\ got[c][i] < got[c][i + 1]
                 /\ \A e \in (got[c][i] + 1)..(got[c][i + 1] - 1) : e < oldest'
      <4>1. got[c] \in Seq(1..last) /\ Len(got[c]) \in Nat
          BY <1>1
      <4>2. got[c][i] \in 1..last /\ got[c][i + 1] \in 1..last
        <5>1. \A k \in 1..Len(got[c]) : got[c][k] \in 1..last
            BY <4>1, Elements
        <5>2. i \in 1..Len(got[c]) /\ i + 1 \in 1..Len(got[c])
            BY <4>1
        <5> QED
            BY <5>1, <5>2
      <4>3. /\ got[c][i] < got[c][i + 1]
            /\ \A e \in (got[c][i] + 1)..(got[c][i + 1] - 1) : e < oldest
          BY <3>1 DEF SentInOrder
      <4>4. oldest \in Nat /\ oldest' \in Nat /\ oldest <= oldest'
          BY <1>1, <2>1
      <4>5. \A e \in (got[c][i] + 1)..(got[c][i + 1] - 1) : e \in Int
          BY <4>2
      <4> QED
          BY <4>3, <4>4, <4>5
    <3> QED
        BY <2>1, <3>1 DEF SentInOrder
  <2> QED
      BY <2>3, <2>4, <2>5 DEF Order
<1>3. ASSUME NEW c \in Conns, Read(c)
      PROVE  Order' /\ SentInOrder'
  <2>1. /\ UNCHANGED <<last, oldest, cursor, got>>
        /\ \A d \in Conns : d # c => batch'[d] = batch[d] /\ pc'[d] = pc[d]
        /\ batch'[c] = IF cursor[c] = 0 THEN <<>> ELSE Newer(cursor[c])
        /\ pc'[c] = IF batch'[c] = <<>> THEN "blocked" ELSE "yield"
      BY <1>1, <1>3 DEF Read, Goto, stream
  <2>11. \A d \in Conns : d # c => OrderOf(d)'
      BY <2>1 DEF Order, OrderOf
  <2>12. SentInOrder' /\ (OrderOf(c)' => Order')
      BY <2>1, <2>11 DEF SentInOrder, Order
  <2>2. CASE cursor[c] = 0
    <3>1. batch'[c] = <<>> /\ pc'[c] = "blocked" /\ Len(<<>>) = 0
        BY <2>1, <2>2
    <3>2. cursor[c] = IF got[c] = <<>> THEN 0 ELSE got[c][Len(got[c])]
        BY <1>1 DEF Order, OrderOf
    <3>3. OrderOf(c)'
        BY <2>1, <2>2, <3>1, <3>2 DEF OrderOf
    <3> QED
        BY <2>12, <3>3
  <2>3. CASE cursor[c] # 0
    <3> DEFINE first == IF cursor[c] + 1 > oldest THEN cursor[c] + 1 ELSE oldest
    <3>1. cursor[c] \in 1..last /\ first \in Nat /\ first > cursor[c]
          /\ (first > last => cursor[c] = last)
          /\ \A e \in (cursor[c] + 1)..(first - 1) : e < oldest
        BY <1>1, <2>3 DEF Order, OrderOf
    <3>2. /\ batch'[c] \in Seq(1..last)
          /\ \A i \in 1..Len(batch'[c]) : batch'[c][i] = first + i - 1
          /\ first <= last <=> batch'[c] # <<>>
      <4>1. batch'[c] = Newer(cursor[c])
          BY <2>1, <2>3
      <4>2. cursor[c] \in 0..last
          BY <1>1
      <4>3. /\ Newer(cursor[c]) \in Seq(1..last)
            /\ \A i \in 1..Len(Newer(cursor[c])) : Newer(cursor[c])[i] = first + i - 1
            /\ first <= last <=> Newer(cursor[c]) # <<>>
          BY <1>1, <4>2, NewerType
      <4> HIDE DEF first
      <4> QED
          BY <4>1, <4>3
    <3> HIDE DEF first
    <3>3. Len(batch'[c]) \in Nat /\ (batch'[c] # <<>> => Len(batch'[c]) > 0)
        BY <3>2, Elements
    <3>4. batch'[c] # <<>> => batch'[c][1] = first
        BY <3>1, <3>2, <3>3
    <3>5. ASSUME NEW i \in 1..(Len(batch'[c]) - 1)
          PROVE  batch'[c][i + 1] = batch'[c][i] + 1
      <4>1. i \in Nat /\ i \in 1..Len(batch'[c]) /\ i + 1 \in 1..Len(batch'[c])
          BY <3>3
      <4>2. batch'[c][i] = first + i - 1 /\ batch'[c][i + 1] = first + (i + 1) - 1
          BY <3>2, <4>1
      <4> QED
          BY <3>1, <4>1, <4>2
    <3>6. pc'[c] = "blocked" => cursor[c] = last
        BY <1>1, <2>1, <3>1, <3>2
    <3>7. OrderOf(c)'
        BY <2>1, <2>3, <3>1, <3>4, <3>5, <3>6 DEF Order, OrderOf
    <3> QED
        BY <2>12, <3>7
  <2> QED
      BY <2>2, <2>3
<1>4. ASSUME NEW c \in Conns, Yield(c)
      PROVE  Order' /\ SentInOrder'
  <2> DEFINE e == batch[c][1]
  <2>1. batch[c] \in Seq(1..last) /\ batch[c] # <<>> /\ Len(batch[c]) > 0
        /\ Head(batch[c]) = e /\ e \in 1..last
      BY <1>1, <1>4, Elements DEF Yield, Base, Batches
  <2>2. /\ Tail(batch[c]) \in Seq(1..last)
        /\ Len(Tail(batch[c])) = Len(batch[c]) - 1
        /\ \A i \in 1..Len(Tail(batch[c])) : Tail(batch[c])[i] = batch[c][i + 1]
      BY <2>1, HeadTailProperties
  <2>3. /\ UNCHANGED <<last, oldest>>
        /\ \A d \in Conns : d # c => /\ batch'[d] = batch[d] /\ cursor'[d] = cursor[d]
                                     /\ got'[d] = got[d] /\ pc'[d] = pc[d]
        /\ cursor'[c] = e /\ batch'[c] = Tail(batch[c])
        /\ got'[c] = Append(got[c], e)
        /\ pc'[c] \in {"closing", "done", "read", "yield"}
      BY <1>1, <1>4, <2>1 DEF Yield, Goto, stream, Close
  <2> HIDE DEF e
  <2>4. got[c] \in Seq(1..last) /\ Len(got[c]) \in Nat
        /\ Len(got'[c]) = Len(got[c]) + 1 /\ got'[c][Len(got'[c])] = e
        /\ \A i \in 1..Len(got[c]) : got'[c][i] = got[c][i]
      BY <1>1, <2>1, <2>3
  <2>5. got'[c] # <<>>
      BY <2>4
  <2>6. \A i \in 1..(Len(batch'[c]) - 1) : batch'[c][i + 1] = batch'[c][i] + 1
    <3>1. \A i \in 1..(Len(batch[c]) - 1) : batch[c][i + 1] = batch[c][i] + 1
        BY <1>1 DEF Order, OrderOf
    <3>2. Len(batch[c]) \in Nat /\ batch'[c] = Tail(batch[c])
        BY <2>1, <2>3, Elements
    <3>3. TAKE i \in 1..(Len(batch'[c]) - 1)
    <3>4. /\ i \in Nat /\ i \in 1..Len(Tail(batch[c])) /\ i + 1 \in 1..Len(Tail(batch[c]))
          /\ i + 1 \in 1..(Len(batch[c]) - 1)
        BY <2>2, <3>2, <3>3
    <3>5. Tail(batch[c])[i] = batch[c][i + 1]
          /\ Tail(batch[c])[i + 1] = batch[c][i + 1 + 1]
        BY <2>2, <3>4
    <3> QED
        BY <3>1, <3>2, <3>4, <3>5
  <2>7. batch'[c] # <<>> => batch'[c][1] = e + 1
    <3>1. batch'[c] # <<>> => Len(batch[c]) - 1 > 0
        BY <2>1, <2>2, <2>3, Elements
    <3> QED
        BY <2>1, <2>2, <2>3, <3>1 DEF Order, OrderOf, e
  <2>8. Order'
    <3>1. \A d \in Conns : d # c => OrderOf(d)'
        BY <2>3 DEF Order, OrderOf
    <3>2. OrderOf(c)'
      <4>1. batch'[c] # <<>> => cursor'[c] + 1 = batch'[c][1] /\ cursor'[c] \in Nat
        <5>1. cursor'[c] = e /\ e \in Nat
            BY <1>1, <2>1, <2>3
        <5> QED
            BY <2>7, <5>1
      <4>2. cursor'[c] = got'[c][Len(got'[c])]
          BY <2>3, <2>4
      <4>3. batch'[c] # <<>> =>
               /\ cursor'[c] < batch'[c][1]
               /\ \A n \in (cursor'[c] + 1)..(batch'[c][1] - 1) : n < oldest'
          BY <4>1
      <4>4. pc'[c] \notin {"blocked", "idle", "starting", "refusing"}
          BY <2>3
      <4>5. cursor'[c] = IF got'[c] = <<>> THEN 0 ELSE got'[c][Len(got'[c])]
          BY <2>5, <4>2
      <4> QED
          BY <2>6, <4>3, <4>4, <4>5 DEF OrderOf
    <3> QED
        BY <2>3, <3>1, <3>2 DEF Order
  <2>9. ASSUME NEW i \in 1..(Len(got'[c]) - 1)
        PROVE  /\ got'[c][i] < got'[c][i + 1]
               /\ \A n \in (got'[c][i] + 1)..(got'[c][i + 1] - 1) : n < oldest
    <3>1. CASE i < Len(got[c])
      <4>1. i \in 1..(Len(got[c]) - 1) /\ i \in 1..Len(got[c]) /\ i + 1 \in 1..Len(got[c])
          BY <2>4, <3>1
      <4>2. got'[c][i] = got[c][i] /\ got'[c][i + 1] = got[c][i + 1]
          BY <2>4, <4>1
      <4> QED
          BY <4>1, <4>2 DEF SentInOrder
    <3>2. CASE i = Len(got[c])
      <4>1. got[c] # <<>> /\ got'[c][i] = cursor[c] /\ got'[c][i + 1] = e
        <5>1. got[c] # <<>>
            BY <2>4, <3>2, EmptySeq
        <5> QED
            BY <2>4, <3>2, <5>1 DEF Order, OrderOf
      <4>2. cursor[c] # 0
        <5>1. \A k \in 1..Len(got[c]) : got[c][k] \in 1..last
            BY <2>4, Elements
        <5>2. i \in 1..Len(got[c]) /\ got'[c][i] = got[c][i]
            BY <2>4, <3>2
        <5> QED
            BY <1>1, <4>1, <5>1, <5>2
      <4> QED
          BY <2>1, <4>1, <4>2 DEF Order, OrderOf, e
    <3> QED
        BY <2>4, <3>1, <3>2
  <2> QED
      BY <2>3, <2>8, <2>9 DEF SentInOrder
<1>5. CASE ~Publish /\ ~(\E c \in Conns : Read(c) \/ Yield(c))
  <2>1. UNCHANGED <<last, oldest, cursor, batch, got>>
      BY <1>5 DEF Next, SseNext, SseStep, SseOpen, SseStart, SseRefused, SseRelease,
         SseLeaves, WsNext, WsOpen, WsBreaks, WsSendFails, SessionNext, Serve,
         BlockExpires, ReadFails, Expire, FetchRead, FetchArrives, FetchFails,
         vars, stream
  <2>2. ASSUME NEW d \in Conns
        PROVE  \/ pc'[d] = pc[d]
               \/ pc'[d] \in {"starting", "refusing"} /\ pc[d] \in {"idle", "starting"}
               \/ pc'[d] \in {"read", "yield", "closing", "done", "lost"}
    <3>1. ASSUME NEW c \in SseConns, SseNext(c)
          PROVE  \/ UNCHANGED pc
                 \/ Goto(c, "starting") /\ pc[c] = "idle"
                 \/ Goto(c, "refusing") /\ pc[c] = "starting"
                 \/ \E p \in {"read", "closing", "done", "lost"} : Goto(c, p)
        BY <3>1 DEF SseNext, SseStep, SseOpen, SseStart, SseRefused, SseRelease,
           SseLeaves
    <3>2. ASSUME NEW c \in WsConns, WsNext(c)
          PROVE  UNCHANGED pc \/ Goto(c, "done") \/ Goto(c, "read")
        BY <3>2 DEF WsNext, WsOpen, WsBreaks, WsSendFails
    <3>3. ASSUME NEW c \in Conns, SessionNext(c)
          PROVE  UNCHANGED pc \/ \E p \in {"read", "closing", "done"} : Goto(c, p)
        BY <1>5, <3>3 DEF SessionNext, Serve, BlockExpires, ReadFails, Expire, Close
    <3>4. CASE FetchRead \/ FetchArrives \/ FetchFails \/ UNCHANGED vars
        BY <3>4 DEF FetchRead, FetchArrives, FetchFails, vars
    <3> QED
        BY <1>1, <1>5, <3>1, <3>2, <3>3, <3>4 DEF Next, Goto
  <2> QED
      BY <2>1, <2>2, OrderKept
<1> QED
    BY <1>2, <1>3, <1>4, <1>5

(* Every session is sent the events after its first in order, and all of   *)
(* them but those trimmed before it could read them.                       *)
THEOREM OrderHolds == Spec => []SentInOrder
<1>1. Init => Base /\ Order /\ SentInOrder
  <2>1. Init => Base
      BY BaseInit
  <2>2. Init => Order /\ SentInOrder
      BY DEF Init, Order, OrderOf, SentInOrder
  <2> QED
      BY <2>1, <2>2
<1>2. Base /\ Order /\ SentInOrder /\ [Next]_vars => Base' /\ Order' /\ SentInOrder'
    BY BaseStep, OrderStep
<1> QED
    BY <1>1, <1>2, PTL DEF Spec

-------------------------------------------------------------------------------
LEMMA PositionType ==
    ASSUME Base, Order, NEW c \in Conns
    PROVE  Position(c) \in 0..last /\ last \in Nat
<1>1. last \in Nat /\ cursor[c] \in 0..last /\ batch[c] \in Seq(1..last)
    BY Limits DEF Base, TypeOK
<1>2. batch[c] # <<>> => Head(batch[c]) \in 1..last
    BY <1>1, Elements
<1> QED
    BY <1>1, <1>2 DEF Position

LEMMA AsOfType ==
    ASSUME Base, Shown
    PROVE  AsOf \in 0..last /\ \A i \in 1..Len(fetched) : fetched[i] <= AsOf
<1>1. fetched \in Seq(1..last) /\ last \in Nat
    BY Limits DEF Base, TypeOK
<1>2. CASE fetched = <<>>
  <2>1. Len(fetched) = 0
      BY <1>2
  <2> QED
      BY <1>1, <1>2, <2>1 DEF AsOf
<1>3. CASE fetched # <<>>
  <2>1. /\ Len(fetched) \in Nat /\ Len(fetched) > 0
        /\ \A i \in 1..Len(fetched) : fetched[i] \in 1..last
      BY <1>1, <1>3, Elements
  <2>2. AsOf = fetched[Len(fetched)]
      BY <1>3 DEF AsOf
  <2>3. ASSUME NEW i \in 1..Len(fetched)
        PROVE  fetched[i] <= AsOf
    <3>1. i < Len(fetched) => fetched[i] < fetched[Len(fetched)]
        BY <2>1 DEF Shown
    <3>2. fetched[i] \in 1..last /\ fetched[Len(fetched)] \in 1..last
        BY <2>1
    <3> QED
        BY <1>1, <2>1, <2>2, <3>1, <3>2
  <2> QED
      BY <1>1, <2>1, <2>2, <2>3
<1> QED
    BY <1>2, <1>3

(* One more frame: it is shown last, and when the list is full the first   *)
(* item goes.                                                              *)
LEMMA FrameShown ==
    ASSUME NEW e \in 1..last, shown \in Seq(1..last), Len(shown) <= MaxItems
    PROVE  \E k \in {0, 1} :
              /\ Len(WithFrame(e)) = Len(shown) + 1 - k
              /\ \A i \in 1..Len(WithFrame(e)) :
                    WithFrame(e)[i] = IF i + k <= Len(shown) THEN shown[i + k] ELSE e
              /\ k = IF Len(shown) = MaxItems THEN 1 ELSE 0
<1> DEFINE S == 1..last
<1> DEFINE s == Append(shown, e)
<1> SUFFICES ASSUME shown \in Seq(S), e \in S
             PROVE  \E k \in {0, 1} :
                       /\ Len(WithFrame(e)) = Len(shown) + 1 - k
                       /\ \A i \in 1..Len(WithFrame(e)) :
                             WithFrame(e)[i] =
                                 IF i + k <= Len(shown) THEN shown[i + k] ELSE e
                       /\ k = IF Len(shown) = MaxItems THEN 1 ELSE 0
    OBVIOUS
<1> HIDE DEF S
<1>1. /\ s \in Seq(S) /\ Len(s) = Len(shown) + 1 /\ Len(shown) \in Nat
      /\ \A i \in 1..Len(s) : s[i] = IF i <= Len(shown) THEN shown[i] ELSE e
    OBVIOUS
<1>2. WithFrame(e) = Cut(s)
    BY DEF WithFrame
<1> HIDE DEF s
<1>3. CASE Len(shown) = MaxItems
  <2>1. Len(s) - MaxItems = 1 /\ Len(s) > MaxItems
      BY <1>1, <1>3, Limits
  <2>2. Len(Cut(s)) = MaxItems /\ \A i \in 1..MaxItems : Cut(s)[i] = s[1 + i]
    <3>1. /\ Len(Cut(s)) = MaxItems
          /\ \A i \in 1..MaxItems : Cut(s)[i] = s[Len(s) - MaxItems + i]
        BY <1>1, <2>1, CutType
    <3> QED
        BY <2>1, <3>1
  <2>3. \A i \in 1..MaxItems : s[1 + i] = IF i + 1 <= Len(shown) THEN shown[i + 1] ELSE e
      BY <1>1, <1>3, Limits
  <2> QED
      BY <1>1, <1>2, <1>3, <2>2, <2>3, Limits
<1>4. CASE Len(shown) # MaxItems
  <2>1. Len(s) <= MaxItems
      BY <1>1, <1>4, Limits
  <2>2. Cut(s) = s
      BY <1>1, <2>1, CutType
  <2> QED
      BY <1>1, <1>2, <1>4, <2>2
<1> QED
    BY <1>3, <1>4

(* A step that changes nothing the dashboard's properties speak of.        *)
LEMMA DashKept ==
    ASSUME Dash, UNCHANGED <<last, oldest, cursor, batch, dash>>
    PROVE  Dash'
BY DEF Dash, Shown, ShownInOrder, GapsAreExplained, Position, AsOf, ShownItems,
       OnItsWay, dash

LEMMA DashPublish ==
    ASSUME Base, Order, Dash, Publish
    PROVE  Dash'
<1>1. /\ last \in Nat /\ last' = last + 1 /\ oldest \in Nat /\ oldest' \in Int
      /\ oldest' >= oldest
      /\ UNCHANGED <<cursor, ws, fetch, fetched, shown>>
    BY Limits DEF Publish, Base, TypeOK
<1>2. ASSUME ws # NoConn
      PROVE  /\ Position(ws)' \in Int /\ Position(ws)' >= Position(ws)
             /\ Position(ws) \in 0..last
             /\ Listening(ws) => Position(ws)' = Position(ws)
             /\ ~Listening(ws) => Position(ws) = last
  <2>1. ws \in Conns
      BY <1>2 DEF Base, TypeOK, Conns
  <2>2. /\ batch'[ws] = IF pc[ws] = "blocked" THEN <<last'>> ELSE batch[ws]
        /\ pc[ws] = "blocked" => batch[ws] = <<>>
        /\ pc[ws] = "blocked" /\ cursor[ws] # 0 => cursor[ws] = last
        /\ cursor[ws] \in 0..last
      BY <2>1 DEF Publish, Base, Batches, Order, OrderOf, TypeOK
  <2>3. Position(ws) \in 0..last
      BY <2>1, PositionType
  <2>4. CASE cursor[ws] # 0
      BY <1>1, <2>2, <2>3, <2>4 DEF Position, Listening
  <2>5. CASE cursor[ws] = 0 /\ pc[ws] = "blocked"
    <3>1. batch'[ws] # <<>> /\ Head(batch'[ws]) = last + 1
        BY <1>1, <2>2, <2>5
    <3> QED
        BY <1>1, <2>2, <2>3, <2>5, <3>1 DEF Position, Listening
  <2>6. CASE cursor[ws] = 0 /\ pc[ws] # "blocked" /\ batch[ws] # <<>>
      BY <1>1, <2>2, <2>3, <2>6 DEF Position, Listening
  <2>7. CASE cursor[ws] = 0 /\ pc[ws] # "blocked" /\ batch[ws] = <<>>
      BY <1>1, <2>2, <2>3, <2>7 DEF Position, Listening
  <2> QED
      BY <2>4, <2>5, <2>6, <2>7
<1>3. AsOf' = AsOf /\ ShownItems' = ShownItems
    BY <1>1 DEF AsOf, ShownItems
<1>4. shown \in Seq(1..last) /\ \A i \in 1..Len(shown) : shown[i] \in 1..last
    BY Elements DEF Base, TypeOK
<1>5. Shown'
    BY <1>1, <1>2, <1>3, <1>4 DEF Dash, Shown
<1>6. ShownInOrder'
    BY <1>1, <1>3 DEF Dash, ShownInOrder
<1>7. ASSUME NEW e \in 1..last'
      PROVE  \/ e \in ShownItems \union missed'
             \/ OnItsWay(e)'
             \/ fetch = "shown" /\ e <= AsOf
             \/ Len(shown) = MaxItems /\ \E n \in ShownItems : n > e
             \/ e < oldest'
  <2>1. missed' = IF ws # NoConn /\ Listening(ws) THEN missed
                  ELSE missed \union {last'}
      BY DEF Publish
  <2>2. CASE e = last'
    <3>1. CASE ws # NoConn /\ Listening(ws)
        BY <1>1, <1>2, <2>2, <3>1 DEF OnItsWay
    <3>2. CASE ~(ws # NoConn /\ Listening(ws))
        BY <2>1, <2>2, <3>2
    <3> QED
        BY <3>1, <3>2
  <2>3. CASE e \in 1..last
    <3>1. OnItsWay(e) => OnItsWay(e)'
        BY <1>1, <1>2, <2>3 DEF OnItsWay
    <3>2. e < oldest => e < oldest'
        BY <1>1, <2>3
    <3>3. missed \subseteq missed'
        BY <2>1
    <3> QED
        BY <2>3, <3>1, <3>2, <3>3 DEF Dash, GapsAreExplained
  <2> QED
      BY <1>1, <2>2, <2>3
<1>8. GapsAreExplained'
    BY <1>1, <1>3, <1>7 DEF GapsAreExplained
<1> QED
    BY <1>5, <1>6, <1>8 DEF Dash

(* A frame of the dashboard's session: what it leaves unshown between the  *)
(* session's position and e was trimmed, what it cuts is older than e.     *)
LEMMA DashFrame ==
    ASSUME Base, Order, Dash, NEW c \in Conns, ws = c, Yield(c)
    PROVE  Dash'
<1> DEFINE e == batch[c][1]
<1>1. /\ batch[c] \in Seq(1..last) /\ batch[c] # <<>> /\ Head(batch[c]) = e
      /\ e \in 1..last /\ last \in Nat /\ oldest \in Nat
      /\ cursor \in [Conns -> 0..last] /\ c # NoConn
  <2>1. batch[c] \in Seq(1..last) /\ batch[c] # <<>>
      BY DEF Yield, Base, Batches, TypeOK
  <2> QED
      BY <2>1, Elements, Limits, EventStreamAssumption DEF Base, TypeOK
<1>2. /\ UNCHANGED <<last, oldest, fetch, fetched>>
      /\ cursor'[c] = e /\ shown' = WithFrame(e)
      /\ \/ ws' = c /\ missed' = missed
         \/ ws' = NoConn /\ missed' = missed \union {n \in 1..last : n > e}
    BY <1>1 DEF Yield, Close, stream
<1>3. Position(c) \in 0..last /\ Position(c) < e
      /\ \A n \in (Position(c) + 1)..(e - 1) : n < oldest
  <2>1. CASE cursor[c] # 0
      BY <1>1, <2>1 DEF Order, OrderOf, Position
  <2>2. CASE cursor[c] = 0
    <3>1. Position(c) = e - 1
        BY <1>1, <2>2 DEF Position
    <3> QED
        BY <1>1, <3>1
  <2> QED
      BY <2>1, <2>2
<1> HIDE DEF e
<1>4. Position(c)' = e
    BY <1>1, <1>2 DEF Position
<1>5. AsOf' = AsOf /\ AsOf \in 0..last
    BY <1>2, AsOfType DEF AsOf, Dash
<1>6. shown \in Seq(1..last) /\ Len(shown) \in Nat /\ Len(shown) <= MaxItems
      /\ \A i \in 1..Len(shown) : shown[i] \in 1..last
    BY Elements DEF Base, TypeOK, Dash, Shown
<1>7. PICK k \in {0, 1} :
         /\ Len(shown') = Len(shown) + 1 - k
         /\ \A i \in 1..Len(shown') :
               shown'[i] = IF i + k <= Len(shown) THEN shown[i + k] ELSE e
         /\ k = IF Len(shown) = MaxItems THEN 1 ELSE 0
  <2>1. \E k \in {0, 1} :
           /\ Len(WithFrame(e)) = Len(shown) + 1 - k
           /\ \A i \in 1..Len(WithFrame(e)) :
                 WithFrame(e)[i] = IF i + k <= Len(shown) THEN shown[i + k] ELSE e
           /\ k = IF Len(shown) = MaxItems THEN 1 ELSE 0
    <3>1. shown \in Seq(1..last) /\ e \in 1..last /\ Len(shown) <= MaxItems
        BY <1>1, <1>6
    <3> QED
        BY <3>1, FrameShown
  <2> QED
      BY <1>2, <2>1
<1>8. \A i \in 1..Len(shown) :
         shown[i] <= Position(c) \/ (fetch = "shown" /\ shown[i] <= AsOf)
    BY <1>1 DEF Dash, Shown
<1>9. Len(shown') <= MaxItems
    BY <1>6, <1>7, Limits
<1>10. \A i \in 1..Len(shown') :
          shown'[i] <= e \/ (fetch = "shown" /\ shown'[i] <= AsOf)
  <2>1. ASSUME NEW i \in 1..Len(shown'), i + k <= Len(shown)
        PROVE  shown'[i] <= e \/ (fetch = "shown" /\ shown'[i] <= AsOf)
    <3>1. i + k \in 1..Len(shown) /\ shown'[i] = shown[i + k]
        BY <1>6, <1>7, <2>1
    <3>2. shown[i + k] <= Position(c) \/ (fetch = "shown" /\ shown[i + k] <= AsOf)
        BY <1>8, <3>1
    <3>3. shown[i + k] \in Int /\ Position(c) \in Int /\ Position(c) < e /\ e \in Int
        BY <1>1, <1>3, <1>6, <3>1
    <3> QED
        BY <3>1, <3>2, <3>3
  <2>2. ASSUME NEW i \in 1..Len(shown'), ~(i + k <= Len(shown))
        PROVE  shown'[i] <= e
      BY <1>1, <1>7, <2>2
  <2> QED
      BY <2>1, <2>2
<1>11. Shown'
    BY <1>2, <1>4, <1>5, <1>9, <1>10 DEF Dash, Shown
<1>12. DOMAIN shown = 1..Len(shown) /\ DOMAIN shown' = 1..Len(shown')
  <2>1. shown' \in Seq(1..last')
      BY BaseStep DEF Base, TypeOK, Next, SessionNext, Serve
  <2> QED
      BY <1>6, <2>1
<1>13. ASSUME NEW i \in 1..Len(shown'), NEW j \in 1..Len(shown'), i < j
       PROVE  shown'[i] < shown'[j] \/ (fetch = "shown" /\ shown'[j] <= AsOf)
  <2>1. i + k \in 1..Len(shown) /\ shown'[i] = shown[i + k]
      BY <1>6, <1>7, <1>13
  <2>2. CASE j + k <= Len(shown)
    <3>1. j + k \in 1..Len(shown) /\ shown'[j] = shown[j + k] /\ i + k < j + k
        BY <1>6, <1>7, <1>13, <2>2
    <3> QED
        BY <1>12, <2>1, <3>1 DEF Dash, ShownInOrder
  <2>3. CASE ~(j + k <= Len(shown))
    <3>1. shown'[j] = e
        BY <1>7, <2>3
    <3>2. shown[i + k] \in 1..last
        BY <1>6, <2>1
    <3>3. shown[i + k] <= Position(c) \/ (fetch = "shown" /\ shown[i + k] <= AsOf)
        BY <1>8, <2>1
    <3>4. CASE shown[i + k] <= Position(c)
      <4>1. shown[i + k] < e
          BY <1>1, <1>3, <3>2, <3>4
      <4> QED
          BY <2>1, <3>1, <4>1
    <3>5. CASE fetch = "shown" /\ shown[i + k] <= AsOf
      <4>1. shown[i + k] < e \/ e <= AsOf
          BY <1>1, <1>5, <3>2, <3>5
      <4> QED
          BY <2>1, <3>1, <3>5, <4>1
    <3> QED
        BY <3>3, <3>4, <3>5
  <2> QED
      BY <2>2, <2>3
<1>14. ShownInOrder'
    BY <1>2, <1>5, <1>12, <1>13 DEF ShownInOrder
<1>15. e \in ShownItems'
  <2>1. Len(shown') \in 1..Len(shown') /\ ~(Len(shown') + k <= Len(shown))
      BY <1>6, <1>7, Limits
  <2> QED
      BY <1>7, <1>12, <2>1 DEF ShownItems
<1>16. ASSUME NEW n \in ShownItems
       PROVE  \/ n \in ShownItems'
              \/ /\ Len(shown) = MaxItems
                 /\ n < e \/ (fetch = "shown" /\ n <= AsOf)
  <2>1. PICK i \in 1..Len(shown) : n = shown[i]
      BY <1>12 DEF ShownItems
  <2>2. CASE i > k
    <3>1. i - k \in 1..Len(shown') /\ (i - k) + k = i
        BY <1>6, <1>7, <2>2
    <3>2. PICK j \in 1..Len(shown') : j = i - k
        BY <3>1
    <3>3. j + k = i /\ i <= Len(shown)
        BY <1>6, <3>1, <3>2
    <3>4. shown'[j] = shown[i]
        BY <1>7, <3>3
    <3> QED
        BY <1>12, <2>1, <3>2, <3>4 DEF ShownItems
  <2>3. CASE ~(i > k)
    <3>1. Len(shown) = MaxItems
        BY <1>7, <2>3
    <3>2. n \in 1..last
        BY <1>6, <2>1
    <3>3. n <= Position(c) \/ (fetch = "shown" /\ n <= AsOf)
        BY <1>8, <2>1
    <3> QED
        BY <1>1, <1>3, <3>1, <3>2, <3>3
  <2> QED
      BY <2>2, <2>3
<1>17. Len(shown) = MaxItems => Len(shown') = MaxItems
    BY <1>6, <1>7
<1>18. ASSUME NEW x \in 1..last
       PROVE  \/ x \in ShownItems' \union missed'
              \/ OnItsWay(x)'
              \/ fetch = "shown" /\ x <= AsOf
              \/ Len(shown') = MaxItems /\ \E n \in ShownItems' : n > x
              \/ x < oldest
  <2>1. CASE x \in ShownItems
      BY <1>1, <1>15, <1>16, <1>17, <2>1
  <2>2. CASE x \in missed
      BY <1>2, <2>2
  <2>3. CASE OnItsWay(x)
    <3>1. CASE x < e
        BY <1>1, <1>3, <2>3, <3>1 DEF OnItsWay
    <3>2. CASE x = e
        BY <1>15, <3>2
    <3>3. CASE x > e
        BY <1>1, <1>2, <1>4, <3>3 DEF OnItsWay
    <3> QED
        BY <1>1, <3>1, <3>2, <3>3
  <2>4. CASE fetch = "shown" /\ x <= AsOf
      BY <2>4
  <2>5. CASE Len(shown) = MaxItems /\ \E n \in ShownItems : n > x
    <3>1. PICK n \in ShownItems : n > x
        BY <2>5
    <3>2. n \in 1..last
        BY <1>6, <1>12 DEF ShownItems
    <3> QED
        BY <1>1, <1>5, <1>15, <1>16, <1>17, <2>5, <3>1, <3>2
  <2>6. CASE x < oldest
      BY <2>6
  <2> QED
      BY <2>1, <2>2, <2>3, <2>4, <2>5, <2>6 DEF Dash, GapsAreExplained
<1>19. GapsAreExplained'
    BY <1>2, <1>5, <1>18 DEF GapsAreExplained
<1> QED
    BY <1>11, <1>14, <1>19 DEF Dash

(* A session of another connection, or one that ends, shows nothing new.   *)
LEMMA DashClosed ==
    ASSUME Base, Order, Dash, NEW e \in Int,
           UNCHANGED <<last, oldest, fetch, fetched, shown>>,
           /\ ws' = NoConn
           /\ ws # NoConn => e <= Position(ws)
           /\ missed' = missed \union {n \in 1..last : n > e}
    PROVE  Dash'
<1>1. AsOf' = AsOf /\ ShownItems' = ShownItems /\ last \in Nat
    BY Limits DEF AsOf, ShownItems, Base, TypeOK
<1>2. Shown' /\ ShownInOrder'
    BY <1>1 DEF Dash, Shown, ShownInOrder
<1>3. ASSUME NEW n \in 1..last, OnItsWay(n)
      PROVE  n \in missed'
  <2>1. Position(ws) \in 0..last
      BY <1>3, PositionType DEF OnItsWay, Base, TypeOK, Conns
  <2> QED
      BY <1>1, <1>3, <2>1 DEF OnItsWay
<1>4. GapsAreExplained'
    BY <1>1, <1>3 DEF Dash, GapsAreExplained
<1> QED
    BY <1>2, <1>4 DEF Dash

(* A session other than the dashboard's goes on.                           *)
LEMMA DashElsewhere ==
    ASSUME Dash, UNCHANGED <<last, oldest, dash>>,
           ws # NoConn => cursor'[ws] = cursor[ws] /\ batch'[ws] = batch[ws]
    PROVE  Dash'
<1>1. ws # NoConn => Position(ws)' = Position(ws)
    BY DEF Position, dash
<1>2. AsOf' = AsOf /\ ShownItems' = ShownItems
    BY DEF AsOf, ShownItems, dash
<1>3. \A e \in 1..last : OnItsWay(e)' <=> OnItsWay(e)
    BY <1>1 DEF OnItsWay, dash
<1> QED
    BY <1>1, <1>2, <1>3 DEF Dash, Shown, ShownInOrder, GapsAreExplained, dash

LEMMA DashSession ==
    ASSUME Base, Order, Dash, NEW c \in Conns, SessionNext(c)
    PROVE  Dash'
<1>1. ws \in WsConns \union {NoConn} /\ c # NoConn /\ last \in Nat
      /\ cursor \in [Conns -> 0..last] /\ batch \in [Conns -> Seq(1..last)]
      /\ WsConns \subseteq Conns
    BY Limits, EventStreamAssumption DEF Base, TypeOK, Conns
<1>2. CASE Read(c)
  <2>1. CASE ws # c
    <3>1. UNCHANGED <<last, oldest, dash>>
        BY <1>2 DEF Read, stream
    <3>2. ws # NoConn => cursor'[ws] = cursor[ws] /\ batch'[ws] = batch[ws]
        BY <1>1, <1>2, <2>1 DEF Read
    <3> QED
        BY <3>1, <3>2, DashElsewhere
  <2>2. CASE ws = c
    <3>1. batch[c] = <<>> /\ (cursor[c] = 0 => batch'[c] = <<>>)
          /\ UNCHANGED <<last, oldest, cursor, dash>>
        BY <1>1, <1>2 DEF Read, stream, Base, Batches
    <3>2. Position(ws)' = Position(ws)
        BY <2>2, <3>1 DEF Position, dash
    <3>3. AsOf' = AsOf /\ ShownItems' = ShownItems
        BY <3>1 DEF AsOf, ShownItems, dash
    <3>4. \A e \in 1..last : OnItsWay(e)' <=> OnItsWay(e)
        BY <3>1, <3>2 DEF OnItsWay, dash
    <3> QED
        BY <3>1, <3>2, <3>3, <3>4
           DEF Dash, Shown, ShownInOrder, GapsAreExplained, dash
  <2> QED
      BY <2>1, <2>2
<1>3. CASE BlockExpires(c) \/ Expire(c)
  <2>1. UNCHANGED <<last, oldest, cursor, batch, dash>>
      BY <1>3 DEF BlockExpires, Expire, stream
  <2> QED
      BY <2>1, DashKept
<1>4. CASE Yield(c)
  <2>1. CASE ws # c
    <3>1. UNCHANGED <<last, oldest, dash>>
        BY <1>4, <2>1 DEF Yield, Close, stream, dash, slots
    <3>2. ws # NoConn => cursor'[ws] = cursor[ws] /\ batch'[ws] = batch[ws]
        BY <1>1, <1>4, <2>1 DEF Yield
    <3> QED
        BY <3>1, <3>2, DashElsewhere
  <2>2. CASE ws = c
      BY <1>4, <2>2, DashFrame
  <2> QED
      BY <2>1, <2>2
<1>5. CASE ReadFails(c)
  <2>1. CASE ws # c
    <3>1. UNCHANGED <<last, oldest, cursor, batch, dash>>
        BY <1>5, <2>1 DEF ReadFails, Close, stream, dash
    <3> QED
        BY <3>1, DashKept
  <2>2. CASE ws = c
    <3>1. Position(c) \in 0..last
        BY PositionType
    <3>2. Position(c) \in Int /\ Position(ws) = Position(c) /\ Position(c) <= Position(ws)
        BY <1>1, <2>2, <3>1
    <3>3. /\ UNCHANGED <<last, oldest, fetch, fetched, shown>>
          /\ ws' = NoConn
          /\ missed' = missed \union {n \in 1..last : n > Position(c)}
        BY <1>5, <2>2 DEF ReadFails, Close, stream
    <3> QED
        BY <3>2, <3>3, DashClosed
  <2> QED
      BY <2>1, <2>2
<1> QED
    BY <1>2, <1>3, <1>4, <1>5 DEF SessionNext, Serve

LEMMA DashStep ==
    ASSUME Base, Order, Dash, [Next]_vars
    PROVE  Dash'
<1>1. /\ ws \in WsConns \union {NoConn} /\ last \in Nat /\ WsConns \subseteq Conns
      /\ NoConn \notin WsConns
    BY Limits, EventStreamAssumption DEF Base, TypeOK, Conns
<1>2. CASE Publish
    BY <1>2, DashPublish
<1>3. ASSUME NEW c \in SseConns, SseNext(c)
      PROVE  Dash'
  <2>1. UNCHANGED <<last, oldest, cursor, batch, dash>>
      BY <1>3 DEF SseNext, SseStep, SseOpen, SseStart, SseRefused, SseRelease,
                  SseLeaves, stream
  <2> QED
      BY <2>1, DashKept
<1>4. ASSUME NEW c \in WsConns, WsNext(c)
      PROVE  Dash'
  <2>1. CASE WsOpen(c)
    <3>1. CASE Cardinality(activeWs) >= MaxWs
        BY <2>1, <3>1, DashKept DEF WsOpen, stream, dash
    <3>2. CASE ~(Cardinality(activeWs) >= MaxWs)
      <4>1. /\ ws = NoConn /\ ws' = c
            /\ UNCHANGED <<last, oldest, cursor, batch, fetch, fetched, shown, missed>>
            /\ cursor[c] = 0 /\ batch[c] = <<>>
          BY <1>1, <2>1, <3>2 DEF WsOpen, stream, Order, OrderOf, Base, Batches
      <4>2. Position(c)' = last
          BY <4>1 DEF Position
      <4>3. AsOf' = AsOf /\ ShownItems' = ShownItems
          BY <4>1 DEF AsOf, ShownItems
      <4>4. \A i \in 1..Len(shown) : shown[i] <= last
        <5>1. \A i \in 1..Len(shown) : shown[i] \in 1..last
            BY Elements DEF Base, TypeOK
        <5> QED
            BY <1>1, <5>1
      <4>5. Shown' /\ ShownInOrder'
          BY <4>1, <4>2, <4>3, <4>4 DEF Dash, Shown, ShownInOrder
      <4>6. GapsAreExplained'
          BY <4>1, <4>3 DEF Dash, GapsAreExplained, OnItsWay
      <4> QED
          BY <4>5, <4>6 DEF Dash
    <3> QED
        BY <3>1, <3>2
  <2>2. CASE WsBreaks(c)
    <3>1. Position(c) \in 0..last /\ ws = c
        BY <1>1, <2>2, PositionType DEF WsBreaks
    <3>2. Position(c) \in Int /\ Position(c) <= Position(ws)
        BY <1>1, <3>1
    <3>3. /\ UNCHANGED <<last, oldest, fetch, fetched, shown>>
          /\ ws' = NoConn
          /\ missed' = missed \union {n \in 1..last : n > Position(c)}
        BY <2>2 DEF WsBreaks, stream, Pending
    <3> QED
        BY <3>2, <3>3, DashClosed
  <2>3. CASE WsSendFails(c)
      BY <2>3, DashKept DEF WsSendFails, stream
  <2> QED
      BY <1>4, <2>1, <2>2, <2>3 DEF WsNext
<1>5. ASSUME NEW c \in Conns, SessionNext(c)
      PROVE  Dash'
    BY <1>5, DashSession
<1>6. CASE FetchRead
  <2> DEFINE first == IF last - FetchCount + 1 > oldest
                      THEN last - FetchCount + 1 ELSE oldest
  <2>1. /\ fetch = "asked" /\ fetch' = "answered"
        /\ fetched' = [i \in 1..(last - first + 1) |-> first + i - 1]
        /\ UNCHANGED <<last, oldest, cursor, batch, ws, shown, missed>>
      BY <1>6 DEF FetchRead, stream
  <2>2. first \in Int
      BY <1>1, Limits DEF Base, TypeOK
  <2> HIDE DEF first
  <2>3. Len(fetched') \in Nat /\ DOMAIN fetched' = 1..Len(fetched')
        /\ DOMAIN fetched' = 1..(last - first + 1)
    <3>1. fetched' \in Seq(1..last')
        BY <1>6, TypeStep DEF Next, TypeOK
    <3> QED
        BY <2>1, <3>1, LenProperties
  <2>4. ASSUME NEW i \in 1..Len(fetched')
        PROVE  fetched'[i] = first + i - 1 /\ i \in Nat
    <3>1. i \in 1..(last - first + 1)
        BY <2>3
    <3> QED
        BY <2>1, <2>3, <3>1
  <2>5. \A i, j \in 1..Len(fetched') : i < j => fetched'[i] < fetched'[j]
      BY <2>2, <2>4
  <2>6. Position(ws)' = Position(ws) /\ ShownItems' = ShownItems
      BY <2>1 DEF Position, ShownItems
  <2>7. Shown' /\ ShownInOrder'
    <3>1. Shown'
        BY <2>1, <2>5, <2>6 DEF Dash, Shown
    <3>2. ShownInOrder'
        BY <2>1 DEF Dash, ShownInOrder
    <3> QED
        BY <3>1, <3>2
  <2>8. GapsAreExplained'
      BY <2>1, <2>6 DEF Dash, GapsAreExplained, OnItsWay
  <2> QED
      BY <2>7, <2>8 DEF Dash
<1>7. CASE FetchArrives
  <2>1. /\ fetch' = "shown" /\ shown' = Cut(fetched)
        /\ UNCHANGED <<last, oldest, cursor, batch, ws, fetched>>
        /\ missed' = missed \union {e \in 1..last : e > AsOf /\ ~OnItsWay(e)}
      BY <1>7 DEF FetchArrives, stream
  <2>2. AsOf' = AsOf /\ AsOf \in 0..last
        /\ \A i \in 1..Len(fetched) : fetched[i] <= AsOf
      BY <2>1, AsOfType DEF AsOf, Dash
  <2>3. fetched \in Seq(1..last) /\ Len(fetched) \in Nat
      BY Elements DEF Base, TypeOK
  <2>4. /\ Len(Cut(fetched)) <= MaxItems
        /\ \A i \in 1..Len(Cut(fetched)) :
              \E j \in 1..Len(fetched) : Cut(fetched)[i] = fetched[j]
    <3>1. CASE Len(fetched) <= MaxItems
      <4>1. Cut(fetched) = fetched
          BY <2>3, <3>1, CutType
      <4> QED
          BY <3>1, <4>1
    <3>2. CASE Len(fetched) > MaxItems
      <4>1. /\ Len(Cut(fetched)) = MaxItems
            /\ \A i \in 1..MaxItems :
                  Cut(fetched)[i] = fetched[Len(fetched) - MaxItems + i]
          BY <2>3, <3>2, CutType
      <4>2. \A i \in 1..MaxItems : Len(fetched) - MaxItems + i \in 1..Len(fetched)
          BY <2>3, <3>2, Limits
      <4>3. Len(Cut(fetched)) <= MaxItems
          BY <4>1, Limits
      <4>4. ASSUME NEW i \in 1..Len(Cut(fetched))
            PROVE  \E j \in 1..Len(fetched) : Cut(fetched)[i] = fetched[j]
        <5>1. i \in 1..MaxItems
            BY <4>1
        <5>2. Len(fetched) - MaxItems + i \in 1..Len(fetched)
            BY <4>2, <5>1
        <5>3. Cut(fetched)[i] = fetched[Len(fetched) - MaxItems + i]
            BY <4>1, <5>1
        <5> QED
            BY <5>2, <5>3
      <4> QED
          BY <4>3, <4>4
    <3>3. Len(fetched) <= MaxItems \/ Len(fetched) > MaxItems
        BY <2>3, Limits
    <3> QED
        BY <3>1, <3>2, <3>3
  <2>5. \A i \in 1..Len(shown') : shown'[i] <= AsOf
      BY <2>1, <2>2, <2>4
  <2>6. shown' \in Seq(1..last)
      BY <2>1, <2>3, CutType
  <2>7. DOMAIN shown' = 1..Len(shown')
      BY <2>6, LenProperties
  <2>8. Shown' /\ ShownInOrder'
      BY <2>1, <2>2, <2>4, <2>5, <2>7 DEF Dash, Shown, ShownInOrder
  <2>9. \A e \in 1..last : OnItsWay(e)' <=> OnItsWay(e)
      BY <2>1 DEF OnItsWay, Position
  <2>10. ASSUME NEW e \in 1..last
         PROVE  e <= AsOf \/ OnItsWay(e)' \/ e \in missed'
      BY <1>1, <2>1, <2>2, <2>9
  <2>11. GapsAreExplained'
      BY <2>1, <2>2, <2>10 DEF GapsAreExplained
  <2> QED
      BY <2>8, <2>11 DEF Dash
<1>8. CASE FetchFails
  <2>1. /\ fetch # "shown" /\ fetch' = "failed"
        /\ UNCHANGED <<last, oldest, cursor, batch, ws, fetched, shown, missed>>
      BY <1>8 DEF FetchFails, stream
  <2>2. Position(ws)' = Position(ws) /\ ShownItems' = ShownItems
      BY <2>1 DEF Position, ShownItems
  <2> QED
      BY <2>1, <2>2 DEF Dash, Shown, ShownInOrder, GapsAreExplained, OnItsWay
<1>9. CASE UNCHANGED vars
    BY <1>9, DashKept DEF vars, stream
<1> QED
    BY <1>2, <1>3, <1>4, <1>5, <1>6, <1>7, <1>8, <1>9 DEF Next

LEMMA DashInvariant == Spec => [](Base /\ Order /\ SentInOrder /\ Dash)
<1>1. Init => Base /\ Order /\ SentInOrder /\ Dash
  <2>1. Init => Base
      BY BaseInit
  <2>2. Init => Order /\ SentInOrder
      BY DEF Init, Order, OrderOf, SentInOrder
  <2>3. Init => Dash
    <3>1. Len(<<>>) = 0 /\ 1..0 = {}
        OBVIOUS
    <3> QED
        BY <3>1, Limits DEF Init, Dash, Shown, ShownInOrder, GapsAreExplained
  <2> QED
      BY <2>1, <2>2, <2>3
<1>2. /\ Base /\ Order /\ SentInOrder /\ Dash
      /\ [Next]_vars
      => (Base /\ Order /\ SentInOrder /\ Dash)'
    BY BaseStep, OrderStep, DashStep
<1> QED
    BY <1>1, <1>2, PTL DEF Spec

(* Losing and opening connections never repeats an event on the dashboard: *)
(* only GET /events' answer can overlap with the frames.                   *)
THEOREM ShownHolds == Spec => []ShownInOrder
<1>1. Base /\ Order /\ SentInOrder /\ Dash => ShownInOrder
    BY DEF Dash
<1> QED
    BY <1>1, DashInvariant, PTL

(* No event is lost between the stream and the dashboard but for the       *)
(* reasons the property lists.                                             *)
THEOREM GapsHold == Spec => []GapsAreExplained
<1>1. Base /\ Order /\ SentInOrder /\ Dash => GapsAreExplained
    BY DEF Dash
<1> QED
    BY <1>1, DashInvariant, PTL
===============================================================================
