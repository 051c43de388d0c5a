----------------------------- MODULE SseClient -----------------------------
(***************************************************************************)
(* One open subscription as the client reads it (blpremote_client/         *)
(* subscribe.py): the frames stream_subscription yields, the lines they    *)
(* are sent as, the parser that puts the frames together again, and the    *)
(* two timers, the server's heartbeat and the client's read timeout. The   *)
(* queue and the cleanup on the server side are SseStream's.               *)
(***************************************************************************)
EXTENDS Naturals, FiniteSets, Sequences, SequencesExt

CONSTANTS Heartbeat, ReadTimeout,     \* 25 and 30 seconds, in units of 5
          WithPings, WithStatus,      \* the arguments of subscribe()
          MaxFrames, None

Names == {"subscribed", "subscription_data", "subscription_status", "ping"}

ASSUME SseClientAssumption ==
  /\ Heartbeat \in Nat /\ ReadTimeout \in Nat /\ Heartbeat < ReadTimeout
  /\ {WithPings, WithStatus} \subseteq BOOLEAN
  /\ MaxFrames \in Nat /\ None \notin Names

VARIABLES frames,      \* what the server has yielded
          wire,        \* lines on the way
          eventName, dataParts,   \* of the parser
          yielded,     \* what the caller was given
          sinceGet,    \* how long the server has waited in q.get
          sinceRead,   \* how long the client has waited for a byte
          stream,      \* open, quiet (RemoteConnectionError), or ended by the server
          late         \* the server or the network took longer than it may
parser     == <<eventName, dataParts, yielded>>
timers     == <<sinceGet, sinceRead>>
streamVars == <<frames, wire, parser, timers, stream, late>>

SseInit == /\ frames = <<>> /\ wire = <<>> /\ eventName = None /\ dataParts = <<>> /\ yielded = <<>>
           /\ sinceGet = 0 /\ sinceRead = 0 /\ stream = "open" /\ late = FALSE

\* _format_sse: an event line, one data line for the JSON, which holds no newline, and the
\* empty line; the JSON stands for the number of the frame.
FormatSse(name) == <<[field |-> "event", value |-> name],
                     [field |-> "data", value |-> Len(frames) + 1], [field |-> "blank"]>>
Yields(name) == /\ frames' = Append(frames, [event |-> name, data |-> <<Len(frames) + 1>>])
                /\ wire' = wire \o FormatSse(name)
                /\ sinceGet' = 0

\* stream_subscription: the loop's q.get returns a message, or times out into a ping; its
\* first frame, before the loop, is "subscribed".
Subscribed  == stream = "open" /\ frames = <<>> /\ Yields("subscribed")
Message     == /\ stream = "open" /\ frames # <<>> /\ Len(frames) < MaxFrames
               /\ Yields("subscription_data") \/ Yields("subscription_status")
Ping        == /\ stream = "open" /\ frames # <<>> /\ Len(frames) < MaxFrames
               /\ sinceGet >= Heartbeat /\ Yields("ping")
ServerSends == /\ Subscribed \/ Message \/ Ping
               /\ UNCHANGED <<parser, sinceRead, stream, late>>

\* _parse_sse_stream, one line; a comment (a proxy's keepalive) is skipped. subscribe()
\* filters pings and, on request, status frames.
Shown(name)    == (name = "ping" => WithPings) /\ (name = "subscription_status" => WithStatus)
\* faulty: the data of the frame is kept for the next one
KeepsParts     == dataParts' = dataParts
NoParts        == dataParts' = <<>>
Dispatch == /\ eventName' = None /\ NoParts
            /\ yielded' = IF (eventName # None \/ dataParts # <<>>) /\ Shown(eventName)
                          THEN Append(yielded, [event |-> eventName, data |-> dataParts]) ELSE yielded
ParseLine ==
  /\ stream = "open" /\ wire # <<>>
  /\ LET line == Head(wire) IN
     \/ line.field = "blank" /\ Dispatch
     \/ line.field = "event" /\ eventName' = line.value /\ UNCHANGED <<dataParts, yielded>>
     \/ line.field = "data" /\ dataParts' = Append(dataParts, line.value) /\ UNCHANGED <<eventName, yielded>>
     \/ line.field = "comment" /\ UNCHANGED parser
  /\ wire' = Tail(wire) /\ sinceRead' = 0
  /\ UNCHANGED <<frames, sinceGet, stream, late>>
Comment == /\ stream = "open" /\ Len(frames) < MaxFrames /\ ~\E i \in DOMAIN wire : wire[i].field = "comment"
           /\ wire' = Append(wire, [field |-> "comment"])
           /\ UNCHANGED <<frames, parser, timers, stream, late>>

\* Time passes; it is late when a ping is due, as while execute() holds the event loop, or
\* when lines are still on the way.
Tick == /\ stream = "open" /\ Len(frames) < MaxFrames
        /\ late' = (late \/ frames = <<>> \/ sinceGet >= Heartbeat \/ wire # <<>>)
        /\ sinceGet' = IF sinceGet < Heartbeat THEN sinceGet + 1 ELSE sinceGet
        /\ sinceRead < ReadTimeout /\ sinceRead' = sinceRead + 1
        /\ UNCHANGED <<frames, wire, parser, stream>>
ReadTimesOut == /\ stream = "open" /\ sinceRead >= ReadTimeout /\ stream' = "quiet"
                /\ UNCHANGED <<frames, wire, parser, timers, late>>
\* The connection ends anywhere, also inside a frame, which is then dropped.
Ends == /\ stream = "open" /\ stream' = "ended"
        /\ UNCHANGED <<frames, wire, parser, timers, late>>

SseNext == ServerSends \/ ParseLine \/ Comment \/ Tick \/ ReadTimesOut \/ Ends
SseSpec == SseInit /\ [][SseNext]_streamVars

-----------------------------------------------------------------------------
\* How many frames have no line on the way any more, and those of them that the caller wants.
FramesRead == Len(frames) - Cardinality({i \in DOMAIN wire : wire[i].field = "blank"})
WithShown(given, frame) == IF Shown(frame.event) THEN Append(given, frame) ELSE given
ShownOf(all) == FoldLeft(WithShown, <<>>, all)

\* The caller is given the frames the server sent (subscribe.py:47-83), whole, in order, each
\* once and none left out but the filtered ones, up to the frame being received; and "stream
\* went quiet" (169-176) is raised only if the server or the network was late.
CallerSeesTheStream ==
  /\ yielded = ShownOf(SubSeq(frames, 1, FramesRead))
  /\ stream = "quiet" => late
=============================================================================
