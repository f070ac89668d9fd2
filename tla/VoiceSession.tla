------------------------------ MODULE VoiceSession ------------------------------
(***************************************************************************)
(* One realtime voice session: the sidecar process (voice/sidecar.py), its *)
(* session record (voice/session.py) and the flush of what was said into   *)
(* the conversation that page tabs write to at the same time.              *)
(*                                                                         *)
(* The sidecar is one event loop: between two awaits nothing else of it    *)
(* runs, and every repository call is synchronous, so the record has one   *)
(* writer.  The conversation has others: what the sidecar does with it is  *)
(* taken apart into its reads and writes.                                  *)
(***************************************************************************)
EXTENDS ConversationLog

CONSTANTS
    Sockets,    \* browser connections to the session
    MaxEvents,  \* transcripts and tool calls the provider sends
    MaxFaults   \* bound on failed writes and crashes

ASSUME EventsAssumption == MaxEvents \in Nat
ASSUME FaultsAssumption == MaxFaults \in Nat

VARIABLES
    record,      \* the session document: its status, and its entries in order
    registered,  \* whether the session is in SidecarRuntime._active
    conn,        \* where realtime_ws is with a socket
    browser,     \* the browser's end of a socket
    upstream,    \* the provider's end
    pump,        \* the two pumps of a socket
    flush,       \* the flush that has the event loop, in a set
    late,        \* whether max_session_minutes have passed
    events, faults,
    dropped      \* entries given up: by the flush of the ended session after two
                 \* refusals, by that of one tool call after one

bridgeVars  == <<conn, browser, upstream, pump>>
sessionVars == <<record, registered, flush, dropped>>
vars == <<logVars, bridgeVars, sessionVars, late, events, faults>>

Pumps == {"fromBrowser", "fromUpstream"}

Init ==
    /\ LogInit
    /\ record = [status |-> "none", turns |-> <<>>, tools |-> <<>>]
    /\ registered = FALSE
    /\ conn = [s \in Sockets |-> "none"]
    /\ browser = [s \in Sockets |-> "none"]
    /\ upstream = [s \in Sockets |-> "none"]
    /\ pump = [s \in Sockets |-> [p \in Pumps |-> "off"]]
    /\ flush = {}
    /\ late = FALSE
    /\ events = 0 /\ faults = 0
    /\ dropped = {}

Idle == flush = {}

Entries(r) == r.turns \o r.tools
OnRecord   == ToSet(Entries(record))
Voiced(m)  == m.by = Sidecar
InVoice    == {m \in InLog : Voiced(m)}     \* _flushed_sets

-----------------------------------------------------------------------------
(* _flush_to_conversation_best_effort *)

\* What is left to write: the loop passes over what the conversation has.
Rest(todo, seen) ==
    LET new == {i \in 1..Len(todo) : todo[i] \notin seen}
    IN  IF new = {} THEN <<>> ELSE SubSeq(todo, CHOOSE i \in new : \A j \in new : i <= j, Len(todo))

\* A flush with nothing left gives the event loop back.
Flushing(todo, seen, revision, tries, limit) ==
    LET rest == Rest(todo, seen)
    IN  IF rest = <<>> THEN {}
        ELSE {[at |-> "append", todo |-> rest, seen |-> seen, expects |-> revision,
               tries |-> IF rest = todo THEN tries ELSE 0, limit |-> limit]}

StartFlush(todo, limit) ==
    flush' = {[at |-> "read", todo |-> todo, seen |-> {}, expects |-> 0, tries |-> 0, limit |-> limit]}

\* Mutant: what the conversation already has is not looked up.
FlushReadBlind ==
    /\ \E f \in flush :
        /\ f.at = "read"
        /\ flush' = Flushing(f.todo, {}, conv.revision, 0, f.limit)
    /\ UNCHANGED <<logVars, bridgeVars, record, registered, dropped, late, events, faults>>

\* get_conversation, before the first entry.  The flush of one tool call does not
\* look for it in the conversation.
FlushRead ==
    /\ \E f \in flush :
        /\ f.at = "read"
        /\ flush' = Flushing(f.todo, IF f.limit = 2 THEN InVoice ELSE {}, conv.revision, 0, f.limit)
    /\ UNCHANGED <<logVars, bridgeVars, record, registered, dropped, late, events, faults>>

FlushCheck ==
    /\ \E f \in flush :
        /\ f.at = "append"
        /\ Check(Sidecar, f.expects)
        /\ flush' = {[f EXCEPT !.at = "write"]}
    /\ UNCHANGED <<tab, turns, bridgeVars, record, registered, dropped, late, events, faults>>

FlushWrite ==
    /\ \E f \in flush :
        /\ f.at = "write"
        /\ Replace(Sidecar, Head(f.todo))
        /\ flush' = Flushing(f.todo, f.seen \cup {Head(f.todo)}, conv'.revision, 0, f.limit)
    /\ UNCHANGED <<tab, turns, bridgeVars, record, registered, dropped, late, events, faults>>

\* Mutant: a refusal ends the flush.
FlushRefusedAborts ==
    /\ \E f \in flush : f.at = "append" /\ Stale(f.expects)
    /\ flush' = {}
    /\ UNCHANGED <<logVars, bridgeVars, record, registered, dropped, late, events, faults>>

\* At the end of the session the conversation is read again, and after two refusals the
\* entry left out and the next one tried; the flush of one tool call has one try.
FlushRefused ==
    /\ \E f \in flush :
        /\ f.at = "append" /\ Stale(f.expects)
        /\ IF f.tries + 1 < f.limit \/ Head(f.todo) \in InVoice
           THEN /\ flush' = Flushing(f.todo, InVoice, conv.revision, f.tries + 1, f.limit)
                /\ UNCHANGED dropped
           ELSE /\ flush' = Flushing(Tail(f.todo), InVoice, conv.revision, 0, f.limit)
                /\ dropped' = dropped \cup {Head(f.todo)}
    /\ UNCHANGED <<logVars, bridgeVars, record, registered, late, events, faults>>

-----------------------------------------------------------------------------
(* _audit_invocation and what execute_voice_tool does when it raises *)

Noted(r, m) == [r EXCEPT !.tools = Append(@, m)]

\* The entry of a call that is audited a second time, now as one that has failed.
Again(m) == [m EXCEPT !.kind = "again"]

\* On the record, ended or not, and at once in the conversation.
Audit(m) == record' = Noted(record, m) /\ StartFlush(<<m>>, 1)

\* The second audit of a call may fail like the first, with the entry on the record or
\* not; a denied name has no second audit.
AuditAgain(r, m) ==
    /\ record' \in {r, Noted(r, Again(m))}
    /\ flush' = {} \/ StartFlush(<<Again(m)>>, 1)

\* A record that cannot be read is no reason not to flush the entry; a failing save,
\* before the record is replaced or after, is a failure of the call.
AuditFails(m) ==
    \/ UNCHANGED record /\ StartFlush(<<m>>, 1)
    \/ \E r \in {record, Noted(record, m)} : AuditAgain(r, m)

\* A conversation that cannot be read ends the flush.  An OSError of the write is not an
\* AssistantRepositoryError and leaves the flush, with the document replaced or not: at
\* the end of the session to whoever ended it, in a tool call to execute_voice_tool,
\* which audits the call again.
FlushFails ==
    /\ faults < MaxFaults
    /\ \E f \in flush :
        \/ f.at # "write" /\ flush' = {} /\ UNCHANGED <<conv, held, overwritten, record>>
        \/ /\ f.at = "write"
           /\ \/ Replace(Sidecar, Head(f.todo))
              \/ held' = [held EXCEPT ![Sidecar] = {}] /\ UNCHANGED <<conv, overwritten>>
           /\ IF f.limit = 1 /\ Head(f.todo).kind = "tool"
              THEN AuditAgain(record, Head(f.todo))
              ELSE flush' = {} /\ UNCHANGED record
    /\ faults' = faults + 1
    /\ UNCHANGED <<tab, turns, bridgeVars, registered, dropped, late, events>>

-----------------------------------------------------------------------------
(* The session *)

\* POST /v1/sessions: create_session, then the registry.
Register ==
    /\ Idle /\ record.status = "none"
    /\ record' = [record EXCEPT !.status = "active"]
    /\ registered' = TRUE
    /\ UNCHANGED <<logVars, bridgeVars, flush, dropped, late, events, faults>>

\* Mutant: the registry keeps the session.
EndKeeps ==
    IF registered
    THEN /\ record' = [record EXCEPT !.status = "ended"]
         /\ StartFlush(Entries(record), 2)
         /\ dropped' = {}
         /\ UNCHANGED registered
    ELSE UNCHANGED sessionVars

\* SidecarRuntime.end_session (missing_ok), then VoiceSessionService.end_session.  Its
\* flush takes up again what the tool calls gave up.
End ==
    IF registered
    THEN /\ registered' = FALSE
         /\ record' = [record EXCEPT !.status = "ended"]
         /\ StartFlush(Entries(record), 2)
         /\ dropped' = {}
    ELSE UNCHANGED sessionVars

\* The registry forgets the session before the record is saved, and the save fails,
\* before the record is replaced or after.
EndFails ==
    /\ registered
    /\ faults < MaxFaults /\ faults' = faults + 1
    /\ registered' = FALSE
    /\ record' \in {record, [record EXCEPT !.status = "ended"]}
    /\ UNCHANGED <<flush, dropped>>

EndOrFail == (End /\ UNCHANGED faults) \/ EndFails

\* POST /v1/sessions/{id}/end
PostEnd ==
    /\ Idle /\ registered
    /\ EndOrFail
    /\ UNCHANGED <<logVars, bridgeVars, late, events>>

-----------------------------------------------------------------------------
(* realtime_ws *)

Conn(s, c)     == conn' = [conn EXCEPT ![s] = c]
Pump(s, p, at) == pump' = [pump EXCEPT ![s][p] = at]

\* require_active: a session whose time is up is ended instead.
Accept(s) ==
    /\ Idle /\ conn[s] = "none" /\ record.status # "none"
    /\ \/ ~registered /\ Conn(s, "gone") /\ UNCHANGED <<browser, sessionVars, faults>>
       \/ registered /\ late /\ Conn(s, "gone") /\ EndOrFail /\ UNCHANGED browser
       \/ /\ registered /\ ~late
          /\ Conn(s, "dialing")
          /\ browser' = [browser EXCEPT ![s] = "open"]
          /\ UNCHANGED <<sessionVars, faults>>
    /\ UNCHANGED <<logVars, upstream, pump, late, events>>

Dial(s) ==
    /\ Idle /\ conn[s] = "dialing"
    /\ Conn(s, "bridged")
    /\ upstream' = [upstream EXCEPT ![s] = "open"]
    /\ pump' = [pump EXCEPT ![s] = [p \in Pumps |-> "loop"]]
    /\ UNCHANGED <<logVars, browser, sessionVars, late, events, faults>>

\* Without an xAI key the socket is refused and the session goes on; a provider that
\* does not answer ends it.
DialFails(s) ==
    /\ Idle /\ conn[s] = "dialing"
    /\ Conn(s, "gone")
    /\ browser' = [browser EXCEPT ![s] = "closed"]
    /\ EndOrFail \/ UNCHANGED <<sessionVars, faults>>
    /\ UNCHANGED <<logVars, upstream, pump, late, events>>

\* Top of a pump's loop, while the session has time.
Loop(s, p) ==
    /\ Idle /\ conn[s] = "bridged" /\ pump[s][p] = "loop" /\ ~late
    /\ Pump(s, p, "waiting")
    /\ UNCHANGED <<logVars, conn, browser, upstream, sessionVars, late, events, faults>>

\* The time-out first tells the browser, which fails when it has gone, then ends the
\* session and closes both ends.
TimeOut(s, p) ==
    /\ Idle /\ conn[s] = "bridged" /\ pump[s][p] = "loop" /\ late
    /\ \/ /\ browser[s] = "open"
          /\ Pump(s, p, "done")
          /\ browser' = [browser EXCEPT ![s] = "closed"]
          /\ upstream' = [upstream EXCEPT ![s] = "closed"]
          /\ End /\ UNCHANGED faults
       \/ /\ Pump(s, p, "failed")
          /\ (browser[s] = "closed" /\ UNCHANGED <<sessionVars, faults>>) \/ EndFails
          /\ UNCHANGED <<browser, upstream>>
    /\ UNCHANGED <<logVars, conn, late, events>>

\* A WebSocketDisconnect returns from the pump, and nothing else.
BrowserGone(s) ==
    /\ Idle /\ conn[s] = "bridged" /\ pump[s]["fromBrowser"] = "waiting" /\ browser[s] = "closed"
    /\ Pump(s, "fromBrowser", "done")
    /\ UNCHANGED <<logVars, conn, browser, upstream, sessionVars, late, events, faults>>

BrowserAudio(s) ==
    /\ Idle /\ conn[s] = "bridged" /\ pump[s]["fromBrowser"] = "waiting" /\ browser[s] = "open"
    /\ Pump(s, "fromBrowser", IF upstream[s] = "open" THEN "loop" ELSE "failed")
    /\ UNCHANGED <<logVars, conn, browser, upstream, sessionVars, late, events, faults>>

UpstreamGone(s) ==
    /\ Idle /\ conn[s] = "bridged" /\ pump[s]["fromUpstream"] = "waiting" /\ upstream[s] = "closed"
    /\ Pump(s, "fromUpstream", "failed")
    /\ UNCHANGED <<logVars, conn, browser, upstream, sessionVars, late, events, faults>>

Listening(s) ==
    /\ Idle /\ conn[s] = "bridged" /\ pump[s]["fromUpstream"] = "waiting" /\ upstream[s] = "open"

\* What is passed on to a browser that has gone fails.
PassOn(s) == Pump(s, "fromUpstream", IF browser[s] = "open" THEN "loop" ELSE "failed")

\* Audio and events that are only passed on, or not even that.
UpstreamChatter(s) ==
    /\ Listening(s)
    /\ PassOn(s) \/ Pump(s, "fromUpstream", "loop")
    /\ UNCHANGED <<logVars, conn, browser, upstream, sessionVars, late, events, faults>>

\* A transcript is appended to the record of an active session; when that fails it
\* is logged and the bridge goes on.
Transcript(s) ==
    /\ Listening(s) /\ events < MaxEvents
    /\ events' = events + 1
    /\ \/ /\ record.status = "active"
          /\ record' = [record EXCEPT !.turns = Append(@, Message(Sidecar, "turn", events'))]
          /\ UNCHANGED faults
       \/ record.status # "active" /\ UNCHANGED <<record, faults>>
       \/ faults < MaxFaults /\ faults' = faults + 1 /\ UNCHANGED record
    /\ PassOn(s)
    /\ UNCHANGED <<logVars, conn, browser, upstream, registered, flush, dropped, late>>

\* A tool call is audited and the provider answered, which may fail, as does the pump
\* when a failure of the audit is not caught.
ToolCall(s) ==
    /\ Listening(s) /\ events < MaxEvents
    /\ events' = events + 1
    /\ LET m == Message(Sidecar, "tool", events')
       IN  \/ Audit(m) /\ UNCHANGED faults
           \/ AuditFails(m) /\ faults < MaxFaults /\ faults' = faults + 1
    /\ PassOn(s) \/ Pump(s, "fromUpstream", "failed")
    /\ UNCHANGED <<logVars, conn, browser, upstream, registered, dropped, late>>

\* Mutant: the session is not ended with its last socket.
CloseOnly(s) ==
    /\ Idle /\ conn[s] = "bridged"
    /\ (\E p \in Pumps : pump[s][p] = "failed") \/ (\A p \in Pumps : pump[s][p] = "done")
    /\ Conn(s, "gone")
    /\ browser' = [browser EXCEPT ![s] = "closed"]
    /\ upstream' = [upstream EXCEPT ![s] = "closed"]
    /\ pump' = [pump EXCEPT ![s] = [p \in Pumps |-> "off"]]
    /\ UNCHANGED <<logVars, sessionVars, late, events, faults>>

\* asyncio.gather is left when a pump fails or both are done; both ends are closed
\* and the session ended, whoever started it.
Close(s) ==
    /\ Idle /\ conn[s] = "bridged"
    /\ (\E p \in Pumps : pump[s][p] = "failed") \/ (\A p \in Pumps : pump[s][p] = "done")
    /\ Conn(s, "gone")
    /\ browser' = [browser EXCEPT ![s] = "closed"]
    /\ upstream' = [upstream EXCEPT ![s] = "closed"]
    /\ pump' = [pump EXCEPT ![s] = [p \in Pumps |-> "off"]]
    /\ EndOrFail
    /\ UNCHANGED <<logVars, late, events>>

-----------------------------------------------------------------------------
(* The world *)

Leave(s) ==
    /\ browser[s] = "open"
    /\ browser' = [browser EXCEPT ![s] = "closed"]
    /\ UNCHANGED <<logVars, conn, upstream, pump, sessionVars, late, events, faults>>

Hangup(s) ==
    /\ upstream[s] = "open"
    /\ upstream' = [upstream EXCEPT ![s] = "closed"]
    /\ UNCHANGED <<logVars, conn, browser, pump, sessionVars, late, events, faults>>

TimeUp ==
    /\ record.status # "none" /\ ~late
    /\ late' = TRUE
    /\ UNCHANGED <<logVars, bridgeVars, sessionVars, events, faults>>

\* The sidecar is killed: its memory and its sockets are gone.
Crash ==
    /\ record.status # "none" /\ faults < MaxFaults
    /\ faults' = faults + 1
    /\ registered' = FALSE
    /\ flush' = {}
    /\ held' = [held EXCEPT ![Sidecar] = {}]
    /\ conn' = [s \in Sockets |-> "gone"]
    /\ browser' = [s \in Sockets |-> "closed"]
    /\ upstream' = [s \in Sockets |-> "closed"]
    /\ pump' = [s \in Sockets |-> [p \in Pumps |-> "off"]]
    /\ UNCHANGED <<conv, tab, turns, overwritten, record, dropped, late, events>>

-----------------------------------------------------------------------------

Flush == FlushRead \/ FlushCheck \/ FlushWrite \/ FlushRefused

\* What the sidecar does by itself, on a socket it has.
Serve(s) ==
    \/ Dial(s) \/ DialFails(s) \/ (\E p \in Pumps : Loop(s, p) \/ TimeOut(s, p))
    \/ BrowserGone(s) \/ UpstreamGone(s) \/ Close(s)

Speak(s) == UpstreamChatter(s) \/ Transcript(s) \/ ToolCall(s)

Next ==
    \/ \E t \in Tabs : Page(t) /\ UNCHANGED <<bridgeVars, sessionVars, late, events, faults>>
    \/ Flush \/ FlushFails \/ Register \/ PostEnd \/ TimeUp \/ Crash
    \/ \E s \in Sockets : Accept(s) \/ Serve(s) \/ BrowserAudio(s) \/ Speak(s) \/ Leave(s) \/ Hangup(s)

Spec == Init /\ [][Next]_vars

\* The event loop runs what is ready, and the clock goes on.  Nothing is assumed of
\* the browser, the provider and the page.
FairSpec == Spec /\ WF_vars(Flush) /\ WF_vars(TimeUp) /\ \A s \in Sockets : WF_vars(Serve(s))

-----------------------------------------------------------------------------
(* Properties *)

Flight == [at : {"read", "append", "write"}, todo : Seq(Spoken), seen : SUBSET Spoken,
           expects : Nat, tries : 0..1, limit : 1..2]

TypeOK ==
    /\ LogTypeOK
    /\ record \in [status : {"none", "active", "ended"}, turns : Seq(Spoken), tools : Seq(Spoken)]
    /\ registered \in BOOLEAN /\ late \in BOOLEAN
    /\ conn \in [Sockets -> {"none", "dialing", "bridged", "gone"}]
    /\ browser \in [Sockets -> {"none", "open", "closed"}]
    /\ upstream \in [Sockets -> {"none", "open", "closed"}]
    /\ pump \in [Sockets -> [Pumps -> {"off", "loop", "waiting", "done", "failed"}]]
    /\ flush \in SUBSET Flight
    /\ events \in 0..MaxEvents /\ faults \in 0..MaxFaults
    /\ dropped \in SUBSET Spoken

\* SidecarRuntime.end_session: the registry never lists a session that is over, so a
\* second end is never a second flush; and unless a save failed or the sidecar died,
\* a session it has forgotten is over, so none is left active with nobody to end it.
RegistryMatchesRecord ==
    /\ registered => record.status = "active"
    /\ record.status = "active" /\ faults = 0 => registered

\* A conversation nobody's write was lost in.
Intact == overwritten = {}

\* _flush_to_conversation_best_effort: retries, the audit that every tool call has
\* already written and a second look at the conversation put no entry there twice (a
\* call that was audited again has two), turns in the order they were said, and only
\* what is on the record: a turn always, an audit unless something failed.
FlushKeepsOrder ==
    Intact =>
        /\ \A i, j \in 1..Len(conv.messages) :
            i < j /\ Voiced(conv.messages[i]) /\ Voiced(conv.messages[j])
            /\ conv.messages[i].kind = conv.messages[j].kind =>
                /\ conv.messages[i] # conv.messages[j]
                /\ conv.messages[i].kind = "turn" => conv.messages[i].n < conv.messages[j].n
        /\ \A m \in InVoice : m.kind = "turn" \/ faults = 0 => m \in OnRecord

\* "do not abort remaining transcript/tool rows for this session": once a session has
\* been ended and flushed, what is on its record and not in the conversation was
\* refused twice by that flush or overwritten by a tab, or audits a tool call that came
\* after the end and was refused when it was made.  What was refused before the end and
\* only once is there.
NothingIsLostQuietly ==
    record.status = "ended" /\ Idle /\ faults = 0
        => OnRecord \subseteq InLog \cup overwritten \cup dropped

\* propose_draft, _persist_results_turn and handle_help_turn chain the answer to the
\* revision of its question: whatever the sidecar and other tabs append meanwhile,
\* an answer stands right behind its own question.
AnswersFollowQuestions ==
    Intact => \A i \in 1..Len(conv.messages) :
        conv.messages[i].kind = "answer" =>
            i > 1 /\ conv.messages[i - 1] = [conv.messages[i] EXCEPT !.kind = "question"]

Left(s) == conn[s] = "bridged" /\ browser[s] = "closed"
Over    == record.status = "ended" \/ faults > 0

\* A client that has gone ends its session as long as the provider is heard from: the
\* pump that waits for it is the one that finds out.
ClosingEndsOnceSpoken ==
    (\A s \in Sockets : WF_vars(Speak(s))) => \A s \in Sockets : Left(s) ~> Over
=============================================================================
