------------------------------ MODULE EventStream ------------------------------
(***************************************************************************)
(* Live events: EventBus (backend/app/core/event_bus.py), GET              *)
(* /events, SSE and WebSocket sessions (backend/app/api/routes/events.py)  *)
(* and the dashboard's useEventStream (frontend/src/lib).  Events are      *)
(* numbered as Redis orders them.  A session is the server's side of one   *)
(* connection, one action from await to await; the WebSocket connections   *)
(* are the dashboard's, which opens the next when it has lost the last.    *)
(* Checks of the API key happen before any of this.                        *)
(***************************************************************************)
EXTENDS Integers, Sequences, FiniteSets

CONSTANTS
    SseConns, WsConns,  \* connections, each used once
    NoConn,
    MaxSse, MaxWs,      \* settings.max_sse_connections, max_ws_connections
    StreamLen,          \* maxlen=5000, approximate: more may stay
    ReadCount,          \* count=100 of XREAD
    FetchCount,         \* count=200 of GET /events
    MaxItems,           \* useEventStream(600)
    NumEvents,          \* bound: events published
    Openings            \* bound: the connections opened in one behaviour

Conns == SseConns \union WsConns

ASSUME EventStreamAssumption ==
    /\ IsFiniteSet(SseConns)
    /\ IsFiniteSet(WsConns)
    /\ SseConns \intersect WsConns = {}
    /\ NoConn \notin Conns
    /\ {MaxSse, MaxWs, StreamLen, ReadCount, FetchCount, MaxItems}
           \subseteq Nat \ {0}
    /\ NumEvents \in Nat
    /\ Openings \subseteq SUBSET Conns

VARIABLES
    last,       \* the newest event, 0 before any
    oldest,     \* the oldest the stream still holds
    pc,         \* pc[c]: the await c's handler is at
    cursor,     \* cursor[c]: last_id, 0 for "$"
    batch,      \* batch[c]: events read and not yet sent
    got,        \* got[c]: events sent to c
    expired,    \* expired[c]: sse_timeout_seconds have passed
    gone,       \* gone[c]: the client has left
    activeSse,  \* _active_sse
    activeWs,   \* _active_ws
    ws,         \* the dashboard's connection
    fetch,      \* its GET /events
    fetched,    \* what that answered
    shown,      \* the events it shows
    missed      \* events it had no chance to show (history)

stream == <<last, oldest>>
slots == <<activeSse, activeWs>>
dash == <<ws, fetch, fetched, shown, missed>>
vars == <<stream, pc, cursor, batch, got, expired, gone, slots, dash>>

InSession(c) == pc[c] \in {"read", "blocked", "yield", "closing"}

SseSessions == {c \in SseConns : InSession(c)}
WsSessions == {c \in WsConns : InSession(c)}

\* "lost" has ended without giving its place back.
Ended(c) == pc[c] \in {"done", "lost"}

\* _sse_lock is held over an await only by a generator that refuses.
LockFree == \A c \in SseConns : pc[c] # "refusing"

\* The newest event c will not be sent any more, as far as XREAD is concerned.
Position(c) ==
    IF cursor[c] # 0 THEN cursor[c]
    ELSE IF batch[c] # <<>> THEN Head(batch[c]) - 1
    ELSE last

Pending(c) == {e \in 1..last : e > Position(c)}

OnItsWay(e) == ws # NoConn /\ e > Position(ws)

\* The next event will reach c.
Listening(c) == pc[c] = "blocked" \/ cursor[c] # 0 \/ batch[c] # <<>>

Init ==
    /\ last = 0
    /\ oldest = 1
    /\ \E opened \in Openings :
          pc = [c \in Conns |-> IF c \in opened THEN "idle" ELSE "done"]
    /\ cursor = [c \in Conns |-> 0]
    /\ batch = [c \in Conns |-> <<>>]
    /\ got = [c \in Conns |-> <<>>]
    /\ expired = [c \in Conns |-> FALSE]
    /\ gone = [c \in Conns |-> FALSE]
    /\ activeSse = 0
    /\ activeWs = {}
    /\ ws = NoConn
    /\ fetch = "asked"
    /\ fetched = <<>>
    /\ shown = <<>>
    /\ missed = {}

Goto(c, place) == pc' = [pc EXCEPT ![c] = place]

-------------------------------------------------------------------------------
\* xadd with maxlen: the sessions blocked in XREAD are answered at once.
Publish ==
    /\ last < NumEvents
    /\ last' = last + 1
    /\ \E first \in oldest..last' :
          /\ first > oldest => last' - first + 1 >= StreamLen
          /\ oldest' = first
    /\ batch' = [c \in Conns |->
                    IF pc[c] = "blocked" THEN <<last'>> ELSE batch[c]]
    /\ pc' = [c \in Conns |-> IF pc[c] = "blocked" THEN "yield" ELSE pc[c]]
    /\ missed' = IF ws # NoConn /\ Listening(ws)
                 THEN missed ELSE missed \union {last'}
    /\ UNCHANGED <<cursor, got, expired, gone, slots, ws, fetch, fetched, shown>>

-------------------------------------------------------------------------------
\* stream_events: the first look at the count; full is answered with a 503.
SseOpen(c) ==
    /\ pc[c] = "idle"
    /\ LockFree
    /\ Goto(c, IF activeSse >= MaxSse THEN "done" ELSE "starting")
    /\ UNCHANGED <<stream, cursor, batch, got, expired, gone, slots, dash>>

\* Mutant of SseStart: one look is enough.
SseStartUnchecked(c) ==
    /\ pc[c] = "starting"
    /\ LockFree
    /\ Goto(c, "read")
    /\ activeSse' = activeSse + 1
    /\ UNCHANGED <<stream, cursor, batch, got, expired, gone, activeWs, dash>>

\* gen: the second look.  A refusal is sent with the lock held.
SseStart(c) ==
    /\ pc[c] = "starting"
    /\ LockFree
    /\ IF activeSse >= MaxSse
       THEN Goto(c, "refusing") /\ UNCHANGED activeSse
       ELSE Goto(c, "read") /\ activeSse' = activeSse + 1
    /\ UNCHANGED <<stream, cursor, batch, got, expired, gone, activeWs, dash>>

SseRefused(c) ==
    /\ pc[c] = "refusing"
    /\ Goto(c, "done")
    /\ UNCHANGED <<stream, cursor, batch, got, expired, gone, slots, dash>>

\* Mutant of SseRelease: the place is not given back.
SseReleaseKeeping(c) ==
    /\ pc[c] = "closing"
    /\ LockFree
    /\ Goto(c, "done")
    /\ UNCHANGED <<stream, cursor, batch, got, expired, gone, slots, dash>>

\* The finally clause of gen.
SseRelease(c) ==
    /\ pc[c] = "closing"
    /\ LockFree
    /\ Goto(c, "done")
    /\ activeSse' = activeSse - 1
    /\ UNCHANGED <<stream, cursor, batch, got, expired, gone, activeWs, dash>>

\* An SSE client leaves.  Starlette cancels the task.  In XREAD or waiting for
\* the lock the generator is cancelled itself, and again while its finally
\* clause waits for the lock; between two frames it is closed by its finalizer.
SseLeaves(c) ==
    /\ InSession(c) \/ pc[c] = "starting"
    /\ ~gone[c]
    /\ gone' = [gone EXCEPT ![c] = TRUE]
    /\ CASE pc[c] = "starting" -> Goto(c, "done") /\ UNCHANGED activeSse
         [] pc[c] = "yield" -> Goto(c, "closing") /\ UNCHANGED activeSse
         [] OTHER -> IF LockFree
                     THEN Goto(c, "done") /\ activeSse' = activeSse - 1
                     ELSE Goto(c, "lost") /\ UNCHANGED activeSse
    /\ UNCHANGED <<stream, cursor, batch, got, expired, activeWs, dash>>

-------------------------------------------------------------------------------
\* events_ws: nothing suspends between the check, accept and add.  The dashboard
\* connects when it has no connection; a refusal sets its timer again.
WsOpen(c) ==
    /\ pc[c] = "idle"
    /\ ws = NoConn
    /\ IF Cardinality(activeWs) >= MaxWs
       THEN Goto(c, "done") /\ UNCHANGED <<activeWs, ws>>
       ELSE /\ Goto(c, "read")
            /\ activeWs' = activeWs \union {c}
            /\ ws' = c
    /\ UNCHANGED <<stream, cursor, batch, got, expired, gone, activeSse,
                   fetch, fetched, shown, missed>>

\* The dashboard's connection breaks.  The handler never receives, so it does
\* not notice before it sends.
WsBreaks(c) ==
    /\ InSession(c)
    /\ ws = c
    /\ gone' = [gone EXCEPT ![c] = TRUE]
    /\ ws' = NoConn
    /\ missed' = missed \union Pending(c)
    /\ UNCHANGED <<stream, pc, cursor, batch, got, expired, slots, fetch, fetched,
                   shown>>

\* WebSocketDisconnect from send_json
WsSendFails(c) ==
    /\ pc[c] = "yield"
    /\ gone[c]
    /\ Goto(c, "done")
    /\ activeWs' = activeWs \ {c}
    /\ UNCHANGED <<stream, cursor, batch, got, expired, gone, activeSse, dash>>

-------------------------------------------------------------------------------
\* What XREAD answers to one who has seen the events up to e.
Newer(e) ==
    LET first == IF e + 1 > oldest THEN e + 1 ELSE oldest
        n == IF last - first + 1 > ReadCount THEN ReadCount ELSE last - first + 1
    IN  [i \in 1..n |-> first + i - 1]

\* Mutant of Read: last_id stays "$".
ReadFromEnd(c) ==
    /\ pc[c] = "read"
    /\ Goto(c, "blocked")
    /\ UNCHANGED <<stream, cursor, batch, got, expired, gone, slots, dash>>

\* xread: "$" is the newest event of the moment, so nothing is newer.
Read(c) ==
    /\ pc[c] = "read"
    /\ batch' = [batch EXCEPT ![c] = IF cursor[c] = 0 THEN <<>> ELSE Newer(cursor[c])]
    /\ Goto(c, IF batch'[c] = <<>> THEN "blocked" ELSE "yield")
    /\ UNCHANGED <<stream, cursor, got, expired, gone, slots, dash>>

\* The block time ends, or the client times out first and asks again.
BlockExpires(c) ==
    /\ pc[c] = "blocked"
    /\ Goto(c, "read")
    /\ UNCHANGED <<stream, cursor, batch, got, expired, gone, slots, dash>>

\* The session ends: SSE goes to its finally clause, a WebSocket is closed.
\* The dashboard misses what is newer than e.
Close(c, e) ==
    /\ Goto(c, IF c \in SseConns THEN "closing" ELSE "done")
    /\ activeWs' = activeWs \ {c}
    /\ ws' = IF ws = c THEN NoConn ELSE ws
    /\ missed' = IF ws = c THEN missed \union {n \in 1..last : n > e} ELSE missed
    /\ UNCHANGED activeSse

\* The error of a connection to Redis reaches the handler.
ReadFails(c) ==
    /\ pc[c] \in {"read", "blocked"}
    /\ Close(c, Position(c))
    /\ UNCHANGED <<stream, cursor, batch, got, expired, gone, fetch, fetched, shown>>

\* setEvents on a frame: the newest maxItems.
Cut(items) ==
    IF Len(items) > MaxItems
    THEN SubSeq(items, Len(items) - MaxItems + 1, Len(items))
    ELSE items

\* Mutant of WithFrame: the frame is shown unless the list is full.
WithFrameKeepOld(e) == IF Len(shown) < MaxItems THEN Append(shown, e) ELSE shown

\* ws.onmessage
WithFrame(e) == Cut(Append(shown, e))

\* Mutant of Yield: the timeout is never looked at.
YieldUntimed(c) ==
    LET e == Head(batch[c])
    IN  /\ pc[c] = "yield"
        /\ ~gone[c]
        /\ cursor' = [cursor EXCEPT ![c] = e]
        /\ batch' = [batch EXCEPT ![c] = Tail(@)]
        /\ got' = [got EXCEPT ![c] = Append(@, e)]
        /\ shown' = IF ws = c THEN WithFrame(e) ELSE shown
        /\ Goto(c, IF Tail(batch[c]) = <<>> THEN "read" ELSE "yield")
        /\ UNCHANGED <<stream, slots, ws, missed, expired, gone, fetch, fetched>>

\* The timeout is looked at after an event was sent.
Yield(c) ==
    LET e == Head(batch[c])
    IN  /\ pc[c] = "yield"
        /\ ~gone[c]
        /\ cursor' = [cursor EXCEPT ![c] = e]
        /\ batch' = [batch EXCEPT ![c] = Tail(@)]
        /\ got' = [got EXCEPT ![c] = Append(@, e)]
        /\ shown' = IF ws = c THEN WithFrame(e) ELSE shown
        /\ IF expired[c]
           THEN Close(c, e)
           ELSE /\ Goto(c, IF Tail(batch[c]) = <<>> THEN "read" ELSE "yield")
                /\ UNCHANGED <<slots, ws, missed>>
        /\ UNCHANGED <<stream, expired, gone, fetch, fetched>>

Expire(c) ==
    /\ InSession(c)
    /\ ~expired[c]
    /\ expired' = [expired EXCEPT ![c] = TRUE]
    /\ UNCHANGED <<stream, pc, cursor, batch, got, gone, slots, dash>>

-------------------------------------------------------------------------------
\* GET /events
FetchRead ==
    /\ fetch = "asked"
    /\ fetch' = "answered"
    /\ LET first == IF last - FetchCount + 1 > oldest
                    THEN last - FetchCount + 1 ELSE oldest
       IN  fetched' = [i \in 1..(last - first + 1) |-> first + i - 1]
    /\ UNCHANGED <<stream, pc, cursor, batch, got, expired, gone, slots, ws, shown,
                   missed>>

\* The newest event of the answer.
AsOf == IF fetched = <<>> THEN 0 ELSE fetched[Len(fetched)]

\* The answer replaces what is shown, frames that came before it included.
FetchArrives ==
    /\ fetch = "answered"
    /\ fetch' = "shown"
    /\ shown' = Cut(fetched)
    /\ missed' = missed \union {e \in 1..last : e > AsOf /\ ~OnItsWay(e)}
    /\ UNCHANGED <<stream, pc, cursor, batch, got, expired, gone, slots, ws, fetched>>

\* It is not asked again.
FetchFails ==
    /\ fetch \in {"asked", "answered"}
    /\ fetch' = "failed"
    /\ UNCHANGED <<stream, pc, cursor, batch, got, expired, gone, slots, ws, fetched,
                   shown, missed>>

-------------------------------------------------------------------------------
Serve(c) == Read(c) \/ BlockExpires(c) \/ Yield(c)
SseStep(c) == SseStart(c) \/ SseRefused(c) \/ SseRelease(c)

SseNext(c) == SseOpen(c) \/ SseStep(c) \/ SseLeaves(c)
WsNext(c) == WsOpen(c) \/ WsBreaks(c) \/ WsSendFails(c)
SessionNext(c) == Serve(c) \/ ReadFails(c) \/ Expire(c)

Next ==
    \/ Publish
    \/ \E c \in SseConns : SseNext(c)
    \/ \E c \in WsConns : WsNext(c)
    \/ \E c \in Conns : SessionNext(c)
    \/ FetchRead
    \/ FetchArrives
    \/ FetchFails

Spec == Init /\ [][Next]_vars

\* The event loop resumes a handler whose await is over, and the block time of
\* XREAD ends.  Nobody has to publish, leave or let time pass.
FairSpec ==
    /\ Spec
    /\ \A c \in SseConns : WF_vars(SseStep(c))
    /\ \A c \in WsConns : WF_vars(WsSendFails(c))
    /\ \A c \in Conns : WF_vars(Serve(c))

-------------------------------------------------------------------------------
Places == {"idle", "starting", "refusing", "read", "blocked", "yield", "closing",
           "done", "lost"}

\* Types.
TypeOK ==
    /\ last \in 0..NumEvents
    /\ oldest \in 1..(last + 1)
    /\ pc \in [Conns -> Places]
    /\ \A c \in WsConns : pc[c] \notin {"starting", "refusing", "closing", "lost"}
    /\ cursor \in [Conns -> 0..last]
    /\ batch \in [Conns -> Seq(1..last)]
    /\ got \in [Conns -> Seq(1..last)]
    /\ expired \in [Conns -> BOOLEAN]
    /\ gone \in [Conns -> BOOLEAN]
    /\ activeSse \in Nat
    /\ activeWs \in SUBSET WsConns
    /\ ws \in WsConns \union {NoConn}
    /\ fetch \in {"asked", "answered", "shown", "failed"}
    /\ fetched \in Seq(1..last)
    /\ shown \in Seq(1..last)
    /\ missed \in SUBSET (1..last)

\* A place is counted from the second look to the end of the session and, when
\* the finally clause was cancelled, for ever: never given back twice, never
\* given up by a session that still streams.  (_active_sse, _active_ws)
PlacesAreHeld ==
    /\ activeSse = Cardinality(SseSessions \union {c \in SseConns : pc[c] = "lost"})
    /\ activeWs = WsSessions

\* However many requests passed the first look together, no more than the
\* configured number stream at once.  (max_sse_connections, max_ws_connections)
CapsHold ==
    /\ Cardinality(SseSessions) <= MaxSse
    /\ Cardinality(WsSessions) <= MaxWs

\* A session is sent every event after its first, once and in order, except
\* those the stream had trimmed before it could read them.  (stream_events)
SentInOrder ==
    \A c \in Conns : \A i \in 1..(Len(got[c]) - 1) :
        /\ got[c][i] < got[c][i + 1]
        /\ \A e \in (got[c][i] + 1)..(got[c][i + 1] - 1) : e < oldest

\* The dashboard shows an event twice or out of order only when it was in the
\* answer of GET /events and came again over the connection, whatever
\* connections were lost and opened.  (useEventStream)
ShownInOrder ==
    \A i, j \in DOMAIN shown :
        i < j => \/ shown[i] < shown[j]
                 \/ fetch = "shown" /\ shown[j] <= AsOf

ShownItems == {shown[i] : i \in DOMAIN shown}

\* Every published event is shown, on its way, replaced by MaxItems newer ones,
\* older than the answer of GET /events, trimmed unread, or missed for a reason:
\* no session listened when it came, the connection ended first, or GET
\* /events' older answer replaced it.  (useEventStream, stream_events)
GapsAreExplained ==
    \A e \in 1..last :
        \/ e \in ShownItems \union missed
        \/ OnItsWay(e)
        \/ fetch = "shown" /\ e <= AsOf
        \/ Len(shown) = MaxItems /\ \E n \in ShownItems : n > e
        \/ e < oldest

\* A session that has something to send and no time left ends, and so does one
\* that is being refused or closed: nobody waits for ever for the lock.
SessionsEnd ==
    \A c \in Conns :
        (\/ pc[c] \in {"refusing", "closing"}
         \/ pc[c] = "yield" /\ (expired[c] \/ gone[c])) ~> Ended(c)

\* docs/api.md:170: "Server-side idle timeout enforced"; docs/configuration.md:57:
\* "SSE stream idle timeout (seconds)".
IdleTimesOut ==
    \A c \in Conns : (InSession(c) /\ expired[c]) ~> Ended(c)
===============================================================================
