------------------------------ MODULE Handshake ------------------------------
(***************************************************************************)
(* What masque/handshake.rs and run_tunnel_session do from the first flight *)
(* to the CONNECT response: complete_quic_handshake, the endpoint key pin,  *)
(* the CONNECT request, wait_connect_response.  One task selects between a   *)
(* datagram and a sleep of quiche's own choosing; the deadline of ten        *)
(* seconds is looked at between two such waits.  TunnelSupervisor takes each *)
(* of the two loops as one step; here they are iterations in time.          *)
(***************************************************************************)
EXTENDS Integers, Sequences

CONSTANTS
    Deadline,       \* how long wait_connect_response waits, in units of time
    Fallback,       \* the sleep when quiche has no timer
    IdleTimeouts,   \* values of quic.max_idle_timeout, 0 for none
    LongestPto,     \* bound: quiche's probe and draining timers
    LongestFlush,   \* bound: how long flush_quic may wait for pacing and the socket
    MaxEvents       \* bound: HTTP/3 events in one datagram

ASSUME HandshakeConfig ==
    /\ {Deadline, Fallback, LongestPto} \subseteq Nat \ {0}
    /\ {LongestFlush, MaxEvents} \subseteq Nat
    /\ IdleTimeouts \subseteq Nat

VARIABLES
    cfg,            \* the options: insecure and the idle timeout
    certificate,    \* what the endpoint presents
    stage,          \* where the session stands
    quic,           \* is_established, draining and is_closed of the connection
    closeIn,        \* time until the idle or the draining timer closes it
    left,           \* time left of the wait in progress
    waited,         \* time since the deadline was set
    requested,      \* the CONNECT request has been given to quiche
    unread,         \* HTTP/3 events not yet polled
    heard,          \* history: what the endpoint sent that decides, if anything
    silent          \* the endpoint does not send any more

peerVars == <<certificate, silent>>
hsVars == <<cfg, stage, quic, closeIn, left, waited, requested, unread, heard, peerVars>>

Decisions == {"2xx", "refused", "h3Error"}
Events == Decisions \union {"other"}

Selects == {"handshake", "response"}
Flushes == {"handshakeFlush", "requestFlush", "responseFlush"}
Final == {"accepted", "failed"}
Stages == Selects \union Flushes \union {"verify"} \union Final

(* The longest select: quiche's timer, or the fallback.                     *)
Waits == {Fallback, LongestPto} \union IdleTimeouts

-----------------------------------------------------------------------------
(* quiche.                                                                  *)

(* A timer that ends the connection is running.                             *)
Armed == quic.draining \/ cfg.idle # 0

(* conn.timeout(), or the fallback: while draining only that timer runs; a   *)
(* probe timer may run before the idle timer.                               *)
Timeouts ==
    (IF Armed THEN {closeIn} ELSE {Fallback})
    \union (IF quic.draining THEN {}
            ELSE {t \in 1 .. LongestPto : Armed => t <= closeIn})

(* The next select begins with what quiche says then.                       *)
Await(next) ==
    /\ stage' = next
    /\ left' \in Timeouts

HandshakeInit ==
    /\ cfg \in [insecure : BOOLEAN, idle : IdleTimeouts]
    /\ certificate \in {"pinned", "other", "unparsable", "none"}
    /\ stage = "handshake"
    /\ quic = [established |-> FALSE, draining |-> FALSE, closed |-> FALSE]
    /\ closeIn = cfg.idle
    /\ left \in Timeouts
    /\ waited = 0
    /\ requested = FALSE
    /\ unread = <<>> /\ heard = "nothing"
    /\ silent = FALSE

-----------------------------------------------------------------------------
(* Time passes in the awaits.  In a flush it does so up to its bound.        *)
Tick ==
    /\ stage \in Selects \union Flushes
    /\ left > 0
    /\ left' = left - 1
    /\ closeIn' = IF closeIn > 0 THEN closeIn - 1 ELSE 0
    /\ waited' = IF stage \in {"response", "responseFlush"} THEN waited + 1 ELSE waited
    /\ UNCHANGED <<cfg, stage, quic, requested, unread, heard, peerVars>>

EndpointGoesSilent ==
    /\ ~silent
    /\ silent' = TRUE
    /\ UNCHANGED <<cfg, stage, quic, closeIn, left, waited, requested, unread, heard, certificate>>

BeginFlush(next) == stage' = next /\ left' = LongestFlush

(* The first event that ends poll's inner loop by a return.                 *)
Verdict(events) ==
    IF \E i \in DOMAIN events : events[i] \in Decisions
    THEN LET first == CHOOSE i \in DOMAIN events :
                          /\ events[i] \in Decisions
                          /\ \A j \in 1 .. i - 1 : events[j] \notin Decisions
         IN  events[first]
    ELSE "nothing"

(* Mutant of PollResponse: one event for each wake-up.                      *)
PollOneEvent(events) ==
    LET verdict == IF events = <<>> THEN "nothing" ELSE Verdict(<<Head(events)>>) IN
    /\ unread' = IF events = <<>> THEN <<>> ELSE Tail(events)
    /\ IF verdict = "nothing" THEN BeginFlush("responseFlush")
       ELSE stage' = (IF verdict = "2xx" THEN "accepted" ELSE "failed") /\ left' = 0

(* poll until Done: the status of the CONNECT stream decides, an H3 error    *)
(* bails, everything else is swallowed.                                     *)
PollResponse(events) ==
    LET verdict == Verdict(events) IN
    /\ unread' = <<>>
    /\ IF verdict = "nothing" THEN BeginFlush("responseFlush")
       ELSE stage' = (IF verdict = "2xx" THEN "accepted" ELSE "failed") /\ left' = 0

(* What follows the select in each of the two loops.                        *)
AfterSelect(events) ==
    IF stage = "handshake" THEN BeginFlush("handshakeFlush") /\ UNCHANGED unread
                           ELSE PollResponse(unread \o events)

(* A datagram: conn.recv feeds it to quiche, its error is ignored.  The      *)
(* connection may be established by it, be closed by the peer, carry events; *)
(* a stateless reset closes it at once.  Draining, it ignores all of it.     *)
Receive ==
    /\ stage \in Selects /\ ~silent
    /\ \E established, closes, reset \in BOOLEAN,
          events \in UNION {[1 .. n -> Events] : n \in 0 .. MaxEvents} :
          /\ reset => ~closes /\ ~established /\ events = <<>>
          /\ events # <<>> => stage = "response"
          /\ quic.draining => ~established /\ ~closes /\ ~reset /\ events = <<>>
          /\ quic' = [established |-> quic.established \/ established,
                      draining |-> quic.draining \/ closes,
                      closed |-> reset]
          /\ IF closes THEN closeIn' \in 1 .. LongestPto
             ELSE IF quic.draining THEN UNCHANGED closeIn
             ELSE closeIn' = cfg.idle
          /\ heard' = IF heard = "nothing" THEN Verdict(events) ELSE heard
          /\ AfterSelect(events)
    /\ UNCHANGED <<cfg, waited, requested, peerVars>>

(* Mutant of TimerFires: the wait ends, and quiche is not told.             *)
TimerUnreported ==
    /\ stage \in Selects
    /\ left = 0
    /\ AfterSelect(<<>>)
    /\ UNCHANGED <<cfg, quic, closeIn, waited, requested, heard, peerVars>>

(* The sleep ends: on_timeout, which closes the connection when its idle or  *)
(* draining timer is what expired.                                          *)
TimerFires ==
    /\ stage \in Selects
    /\ left = 0
    /\ quic' = [quic EXCEPT !.closed = Armed /\ closeIn = 0]
    /\ AfterSelect(<<>>)
    /\ UNCHANGED <<cfg, closeIn, waited, requested, heard, peerVars>>

(* recv or flush_quic returns an error.                                     *)
SocketFails ==
    /\ stage \in Selects \union Flushes
    /\ stage' = "failed"
    /\ left' = 0
    /\ UNCHANGED <<cfg, quic, closeIn, waited, requested, unread, heard, peerVars>>

-----------------------------------------------------------------------------
(* complete_quic_handshake behind its flush.                                *)
HandshakeFlushed ==
    /\ stage = "handshakeFlush"
    /\ \/ quic.closed /\ stage' = "failed" /\ left' = 0
       \/ ~quic.closed /\ quic.established /\ stage' = "verify" /\ left' = 0
       \/ ~quic.closed /\ ~quic.established /\ Await("handshake")
    /\ UNCHANGED <<cfg, quic, closeIn, waited, requested, unread, heard, peerVars>>

(* Mutant of KeyAccepted: no certificate, nothing to compare.               *)
KeyAcceptedIfAbsent == cfg.insecure \/ certificate \in {"pinned", "none"}

(* The pin: skipped under --insecure; no certificate, one that does not      *)
(* parse and one with another key all bail.                                 *)
KeyAccepted == cfg.insecure \/ certificate = "pinned"

(* The H3 connection and the request; either may return an error.           *)
Verify ==
    /\ stage = "verify"
    /\ \/ KeyAccepted /\ requested' = TRUE /\ BeginFlush("requestFlush")
       \/ requested' = requested /\ stage' = "failed" /\ left' = 0
    /\ UNCHANGED <<cfg, quic, closeIn, waited, unread, heard, peerVars>>

(* The deadline is set when wait_connect_response is entered.               *)
RequestFlushed ==
    /\ stage = "requestFlush"
    /\ waited' = 0
    /\ Await("response")
    /\ UNCHANGED <<cfg, quic, closeIn, requested, unread, heard, peerVars>>

(* Mutants of ResponseFlushed: no deadline; a new one for every wait.        *)
ResponseFlushedUnlimited ==
    /\ stage = "responseFlush"
    /\ IF quic.closed THEN stage' = "failed" /\ left' = 0 ELSE Await("response")
    /\ UNCHANGED <<cfg, quic, closeIn, waited, requested, unread, heard, peerVars>>

ResponseFlushedAnew ==
    /\ stage = "responseFlush"
    /\ \/ quic.closed /\ stage' = "failed" /\ left' = 0
       \/ ~quic.closed /\ waited >= Deadline /\ stage' = "failed" /\ left' = 0
       \/ ~quic.closed /\ waited < Deadline /\ Await("response")
    /\ waited' = 0
    /\ UNCHANGED <<cfg, quic, closeIn, requested, unread, heard, peerVars>>

(* The end of an iteration, and the top of the next one.                    *)
ResponseFlushed ==
    /\ stage = "responseFlush"
    /\ \/ quic.closed /\ stage' = "failed" /\ left' = 0
       \/ ~quic.closed /\ waited >= Deadline /\ stage' = "failed" /\ left' = 0
       \/ ~quic.closed /\ waited < Deadline /\ Await("response")
    /\ UNCHANGED <<cfg, quic, closeIn, waited, requested, unread, heard, peerVars>>

Session == TimerFires \/ HandshakeFlushed \/ Verify \/ RequestFlushed \/ ResponseFlushed

HandshakeNext == Tick \/ Session \/ Receive \/ SocketFails \/ EndpointGoesSilent

HandshakeSpec == HandshakeInit /\ [][HandshakeNext]_hsVars

(* The task runs; and time passes, however many datagrams interrupt a wait.  *)
HandshakeFairness == WF_hsVars(Session) /\ SF_hsVars(Tick)

-----------------------------------------------------------------------------
HandshakeTypeOK ==
    /\ cfg \in [insecure : BOOLEAN, idle : IdleTimeouts]
    /\ certificate \in {"pinned", "other", "unparsable", "none"}
    /\ stage \in Stages
    /\ quic \in [established : BOOLEAN, draining : BOOLEAN, closed : BOOLEAN]
    /\ closeIn \in Nat /\ left \in Nat /\ waited \in Nat
    /\ requested \in BOOLEAN /\ silent \in BOOLEAN
    /\ unread \in Seq(Events)
    /\ heard \in Decisions \union {"nothing"}

(* Nothing is asked of an endpoint, and no session is established with one,  *)
(* before it has shown the key of config.json, unless --insecure is given:   *)
(* on every way through the two loops.                                      *)
OnlyPinnedEndpoint ==
    requested \/ stage = "accepted" =>
        /\ quic.established
        /\ cfg.insecure \/ certificate = "pinned"

(* wait_connect_response drains quiche before it awaits again: no status     *)
(* that has arrived lies unread while it waits for one, and the first one    *)
(* decides, whatever other events arrive with it.                           *)
AnswerDecides ==
    /\ stage \in {"response", "responseFlush"} => heard = "nothing" /\ unread = <<>>
    /\ stage = "accepted" <=> heard = "2xx"

(* The ten seconds are a deadline for beginning a wait, not for ending it:   *)
(* an endpoint that keeps sending cannot stretch it, but the last wait may   *)
(* be as long as quiche's longest timer, the idle timeout, and its flush.    *)
GivesUpInTime ==
    stage \in {"response", "responseFlush"} =>
        \E w \in Waits : waited < Deadline + w + LongestFlush

(* The wait for the response ends whatever the endpoint does, with or        *)
(* without an idle timeout.                                                 *)
ResponseWaitEnds == stage = "response" ~> stage \in Final

(* An endpoint that falls silent ends both loops if there is an idle         *)
(* timeout; without one only the handshake may wait for ever.               *)
SilenceIsNoticed ==
    silent /\ (cfg.idle # 0 \/ stage \notin {"handshake", "handshakeFlush"}) ~> stage \in Final

=============================================================================
