----------------------------- MODULE H3Session -----------------------------
(***************************************************************************)
(* The HTTP/3 streams of one session: wait_connect_response (handshake.rs),  *)
(* poll_h3 and the Mesh statistics reports of data_loop (masque.rs).  Stream *)
(* 0 is the CONNECT-IP request, each report has a stream of its own.  quiche *)
(* gives an event per call of poll: headers once, Data once until the body   *)
(* has been read, and Finished only after the body, or Reset.               *)
(***************************************************************************)
EXTENDS Naturals, Sequences

CONSTANTS
    ReportH3Stats,  \* report_h3_stats: a Mesh node
    BodySize,       \* parts of a report's body
    MaxReports,     \* bound: report streams
    MaxData         \* bound: body parts the peer sends on a stream

ASSUME H3SessionConfig ==
    /\ ReportH3Stats \in BOOLEAN
    /\ BodySize \in Nat \ {0}
    /\ {MaxReports, MaxData} \subseteq Nat

VARIABLES
    phase,      \* of run_tunnel_session
    stage,      \* of an iteration of data_loop: "poll", "report" or "select"
    streams,    \* by stream: what the peer sent that quiche has not given out
    opened,     \* report streams opened
    report,     \* pending_h3_stats_report
    due,        \* MESH_H3_STATS_INTERVAL has passed since the last report
    credit,     \* by stream: parts the peer still lets us send
    stopped,    \* streams the peer refuses to receive
    delivered   \* by stream: body parts sent

vars == <<phase, stage, streams, opened, report, due, credit, stopped, delivered>>
peerView == <<credit, stopped, delivered>>
reporting == <<opened, report, due>>

Connect == 0
Ids == 0 .. MaxReports
None == [stream |-> 0, written |-> 0]

Stream == [headers : {"none", "ok", "bad", "read"},
           data : 0 .. MaxData, sent : 0 .. MaxData, armed : BOOLEAN,
           end : {"open", "fin", "reset"}, ended : BOOLEAN]

NewStream ==
    [headers |-> "none", data |-> 0, sent |-> 0, armed |-> TRUE, end |-> "open", ended |-> FALSE]

Init ==
    /\ phase = "awaiting" /\ stage = "poll"
    /\ streams = [s \in Ids |-> NewStream]
    /\ opened = 0 /\ report = None /\ due = TRUE
    /\ credit = [s \in Ids |-> 0] /\ stopped = {}
    /\ delivered = [s \in Ids |-> <<>>]

Over == {"refused", "closed", "failed"}
Live == 0 .. opened

-----------------------------------------------------------------------------
(* The peer, on a stream that was opened and that it has not ended.         *)

PeerSends(s) ==
    /\ s \in Live /\ streams[s].end = "open"
    /\ \/ streams[s].headers = "none"
          /\ \E h \in {"ok", "bad"} : streams' = [streams EXCEPT ![s].headers = h]
       \/ /\ streams[s].headers # "none" /\ streams[s].sent < MaxData
          /\ streams' = [streams EXCEPT ![s].data = @ + 1, ![s].sent = @ + 1]
       \/ streams[s].headers # "none" /\ streams' = [streams EXCEPT ![s].end = "fin"]
       \/ streams' = [streams EXCEPT ![s].end = "reset"]
    /\ UNCHANGED <<phase, stage, reporting, peerView>>

PeerCredits(s) ==
    /\ s \in Live \ {Connect} /\ Len(delivered[s]) + credit[s] < BodySize
    /\ credit' = [credit EXCEPT ![s] = @ + 1]
    /\ UNCHANGED <<phase, stage, streams, reporting, stopped, delivered>>

PeerStops(s) ==
    /\ s \in Live \ {Connect}
    /\ stopped' = stopped \union {s}
    /\ UNCHANGED <<phase, stage, streams, reporting, credit, delivered>>

-----------------------------------------------------------------------------
(* What poll has to give for a stream.                                      *)

HasReset(s) == streams[s].end = "reset" /\ ~ streams[s].ended
HasHeaders(s) == streams[s].end # "reset" /\ streams[s].headers \in {"ok", "bad"}
HasData(s) ==
    /\ streams[s].end # "reset" /\ streams[s].headers = "read"
    /\ streams[s].data > 0 /\ streams[s].armed
HasFinished(s) ==
    /\ streams[s].end = "fin" /\ streams[s].headers = "read"
    /\ streams[s].data = 0 /\ ~ streams[s].ended

HasEnd(s) == HasReset(s) \/ HasFinished(s)
HasEvent(s) == HasHeaders(s) \/ HasData(s) \/ HasEnd(s)

(* wait_connect_response: the first response on stream 0 decides; every      *)
(* other event is taken and ignored.                                        *)
AwaitResponse ==
    /\ phase = "awaiting"
    /\ \/ /\ HasHeaders(Connect)
          /\ streams' = [streams EXCEPT ![Connect].headers = "read"]
          /\ phase' = IF streams[Connect].headers = "ok" THEN "starting" ELSE "refused"
       \/ /\ HasEnd(Connect)
          /\ streams' = [streams EXCEPT ![Connect].ended = TRUE]
          /\ UNCHANGED phase
    /\ UNCHANGED <<stage, reporting, peerView>>

(* Ten seconds without a response.                                          *)
ResponseTimeout ==
    /\ phase = "awaiting"
    /\ phase' = "failed"
    /\ UNCHANGED <<stage, streams, reporting, peerView>>

(* The activation probe and the captured packet are behind, without a poll.  *)
StartLoop ==
    /\ phase = "starting"
    /\ phase' = "online"
    /\ UNCHANGED <<stage, streams, reporting, peerView>>

(* Idle timeout, QUIC errors, TUN errors.                                   *)
SessionFails ==
    /\ phase \in {"starting", "online"}
    /\ phase' = "failed"
    /\ UNCHANGED <<stage, streams, reporting, peerView>>

-----------------------------------------------------------------------------
(* poll_h3, one event at a time.                                            *)

PollHeaders(s) ==
    /\ HasHeaders(s)
    /\ streams' = [streams EXCEPT ![s].headers = "read"]
    /\ UNCHANGED <<phase, stage, reporting, peerView>>

(* Mutant of PollData: the body is left where it is.                        *)
PollDataUnread(s) ==
    /\ HasData(s)
    /\ streams' = [streams EXCEPT ![s].armed = FALSE]
    /\ UNCHANGED <<phase, stage, reporting, peerView>>

(* The body is read to its end and discarded, on any stream.                *)
PollData(s) ==
    /\ HasData(s)
    /\ streams' = [streams EXCEPT ![s].data = 0]
    /\ UNCHANGED <<phase, stage, reporting, peerView>>

(* Mutant of Terminates: the stream is not compared.                        *)
TerminatesAnyway(s) == s \in Ids

(* connect_ip_termination_reason.                                           *)
Terminates(s) == s = Connect

PollEnd(s) ==
    /\ HasEnd(s)
    /\ streams' = [streams EXCEPT ![s].ended = TRUE]
    /\ phase' = IF Terminates(s) THEN "closed" ELSE phase
    /\ UNCHANGED <<stage, reporting, peerView>>

Polling == phase = "online" /\ stage = "poll"

Poll == Polling /\ \E s \in Ids : PollHeaders(s) \/ PollData(s) \/ PollEnd(s)

(* Err(Done).                                                               *)
PollDone ==
    /\ Polling /\ \A s \in Ids : ~ HasEvent(s)
    /\ stage' = "report"
    /\ UNCHANGED <<phase, streams, reporting, peerView>>

(* A poll that fails otherwise ends the session.                            *)
PollFails ==
    /\ Polling
    /\ phase' = "failed"
    /\ UNCHANGED <<stage, streams, reporting, peerView>>

-----------------------------------------------------------------------------
(* The statistics report.                                                   *)

Reporting == phase = "online" /\ stage = "report"

(* Mutant of Written: report.written is assigned, not added to.             *)
WrittenLast(r, n) == n

(* report.written += written.                                               *)
Written(r, n) == r.written + n

Complete(written) == written = BodySize

(* send_body takes what the peer gives credit for.                          *)
FlushSome(r) ==
    /\ r.stream \notin stopped /\ credit[r.stream] > 0
    /\ \E n \in 1 .. credit[r.stream] :
          /\ r.written + n <= BodySize
          /\ credit' = [credit EXCEPT ![r.stream] = @ - n]
          /\ delivered' = [delivered EXCEPT ![r.stream] = @ \o [i \in 1 .. n |-> r.written + i]]
          /\ report' = IF Complete(Written(r, n)) THEN None
                       ELSE [r EXCEPT !.written = Written(r, n)]
    /\ UNCHANGED stopped

(* Err(Done): no credit now.                                                *)
FlushBlocked(r) ==
    /\ r.stream \notin stopped /\ credit[r.stream] = 0
    /\ report' = r
    /\ UNCHANGED peerView

(* Mutant of FlushFails: the failed report is kept.                         *)
FlushFailsKept(r) ==
    /\ r.stream \in stopped
    /\ report' = r
    /\ UNCHANGED peerView

(* Another error: the report is given up.                                   *)
FlushFails(r) ==
    /\ r.stream \in stopped
    /\ report' = None
    /\ UNCHANGED peerView

Flush(r) == FlushSome(r) \/ FlushBlocked(r) \/ FlushFails(r)

Starts == ReportH3Stats /\ report = None /\ due

(* A report is started, on a new stream, and flushed as far as it goes.     *)
StartReport ==
    /\ Reporting /\ Starts
    /\ opened < MaxReports
    /\ due' = FALSE
    /\ opened' = opened + 1
    /\ Flush([stream |-> opened', written |-> 0])
    /\ stage' = "select"
    /\ UNCHANGED <<phase, streams>>

(* No active path, or the request could not be sent.                        *)
StartFails ==
    /\ Reporting /\ Starts
    /\ due' = FALSE
    /\ stage' = "select"
    /\ UNCHANGED <<phase, streams, opened, report, peerView>>

ContinueReport ==
    /\ Reporting /\ report # None
    /\ Flush(report)
    /\ stage' = "select"
    /\ UNCHANGED <<phase, streams, opened, due>>

NoReport ==
    /\ Reporting /\ report = None /\ ~ Starts
    /\ stage' = "select"
    /\ UNCHANGED <<phase, streams, reporting, peerView>>

(* Something wakes the loop: a datagram, a packet, a deadline.              *)
Wake ==
    /\ phase = "online" /\ stage = "select"
    /\ stage' = "poll"
    /\ UNCHANGED <<phase, streams, reporting, peerView>>

IntervalElapses ==
    /\ ~ due /\ due' = TRUE
    /\ UNCHANGED <<phase, stage, streams, opened, report, peerView>>

-----------------------------------------------------------------------------
Loop == Poll \/ PollDone \/ StartReport \/ StartFails \/ ContinueReport \/ NoReport \/ Wake

Peer == \E s \in Ids : PeerSends(s) \/ PeerCredits(s) \/ PeerStops(s)

Next ==
    \/ Peer \/ IntervalElapses
    \/ AwaitResponse \/ ResponseTimeout \/ StartLoop \/ SessionFails \/ PollFails
    \/ Loop

Spec == Init /\ [][Next]_vars

(* The task runs, and the timers do; a peer that lets a report stream live   *)
(* lets it be written to in the end.                                        *)
FairSpec ==
    /\ Spec
    /\ WF_vars(Loop) /\ WF_vars(AwaitResponse) /\ WF_vars(ResponseTimeout) /\ WF_vars(StartLoop)
    /\ WF_vars(IntervalElapses)
    /\ \A s \in Ids : WF_vars(PeerCredits(s))

-----------------------------------------------------------------------------
(* Types; a pending report is of an opened stream and has something to send. *)
TypeOK ==
    /\ phase \in {"awaiting", "starting", "online"} \union Over
    /\ stage \in {"poll", "report", "select"}
    /\ streams \in [Ids -> Stream]
    /\ opened \in Ids
    /\ report # None => report.stream \in 1 .. opened /\ report.written \in 0 .. BodySize - 1
    /\ due \in BOOLEAN
    /\ credit \in [Ids -> 0 .. BodySize]
    /\ stopped \subseteq Ids
    /\ delivered \in [Ids -> Seq(1 .. BodySize)]

(* README, "Auxiliary H3 requests such as /h3-stats remain isolated and      *)
(* cannot trigger a false tunnel reconnect".                                *)
AuxiliaryIsolated == phase = "closed" => streams[Connect].end # "open"

(* README: the end of the CONNECT-IP stream is the end of the session, also   *)
(* when it comes with the response, behind a body, or before the loop runs.  *)
TerminationSeen == streams[Connect].end # "open" ~> phase \in Over

(* A report arrives in order, without repetition, and whole, unless the peer *)
(* stops it; there is no other before it has.                               *)
ReportsWhole ==
    \A s \in 1 .. opened :
        /\ delivered[s] = [i \in 1 .. Len(delivered[s]) |-> i]
        /\ s = report.stream \/ s \in stopped \/ Len(delivered[s]) = BodySize

(* A report that is due is attempted, whatever became of the last one.      *)
ReportsGoOn == ReportH3Stats /\ due /\ phase = "online" ~> ~ due \/ phase \in Over

=============================================================================
