--------------------------- MODULE H3SessionProofs ---------------------------
(***************************************************************************)
(* Theorems about the HTTP/3 streams of a session, for every number of        *)
(* reports, every body and every order of the peer's answers.                *)
(***************************************************************************)
EXTENDS H3Session, SequenceTheorems, TLAPS

(* The first k parts of a body.                                             *)
Parts(k) == [i \in 1 .. k |-> i]

Reports == [stream : Nat, written : Nat]

(* The report in progress and what the peer has of every report.             *)
ReportInv ==
    /\ report \in Reports
    /\ \A s \in Ids : delivered[s] = Parts(Len(delivered[s]))
    /\ \A s \in Ids : s > opened => delivered[s] = <<>>
    /\ report # None => report.written = Len(delivered[report.stream])
    /\ \A s \in 1 .. opened :
          s = report.stream \/ s \in stopped \/ Len(delivered[s]) = BodySize

(* What send_body takes follows what it took before.                         *)
LEMMA NextParts ==
    ASSUME NEW k \in Nat, NEW n \in Nat
    PROVE  /\ Parts(k) \o [i \in 1 .. n |-> k + i] = Parts(k + n)
           /\ Len(Parts(k + n)) = k + n
<1>1. Parts(k) \in Seq(Nat) /\ Len(Parts(k)) = k BY DEF Parts
<1>2. [i \in 1 .. n |-> k + i] \in Seq(Nat) /\ Len([i \in 1 .. n |-> k + i]) = n OBVIOUS
<1>3. Parts(k + n) \in Seq(Nat) /\ Len(Parts(k + n)) = k + n BY DEF Parts
<1> DEFINE joined == Parts(k) \o [i \in 1 .. n |-> k + i]
<1>4. joined \in Seq(Nat) /\ Len(joined) = k + n BY <1>1, <1>2, ConcatProperties
<1>5. ASSUME NEW i \in 1 .. k + n PROVE joined[i] = Parts(k + n)[i]
  <2>1. joined[i] = IF i <= k THEN Parts(k)[i] ELSE [j \in 1 .. n |-> k + j][i - k]
    BY <1>1, <1>2, ConcatProperties
  <2> QED BY <2>1 DEF Parts
<1>6. joined = Parts(k + n)
  <2> HIDE DEF joined
  <2> QED BY <1>3, <1>4, <1>5, SeqEqual
<1> QED BY <1>3, <1>6

(* A body of k parts is a sequence of parts of a whole one.                  *)
LEMMA PartsType ==
    ASSUME NEW k \in Nat, k <= BodySize
    PROVE  Parts(k) \in Seq(1 .. BodySize) /\ Len(Parts(k)) = k
<1>1. BodySize \in Nat BY H3SessionConfig
<1>2. \A i \in 1 .. k : i \in 1 .. BodySize BY <1>1
<1>3. Parts(k) \in [1 .. k -> 1 .. BodySize] BY <1>2 DEF Parts
<1>4. Parts(k) \in Seq(1 .. BodySize) BY <1>3, SeqDef
<1> QED BY <1>4 DEF Parts

(* masque.rs, flush_h3_stats_report: whatever it does with a report r, the     *)
(* peer has the first part of its body and no other stream is touched; the     *)
(* report is dropped only when it is complete or refused.                   *)
LEMMA FlushOutcome ==
    ASSUME TypeOK, NEW r \in Reports, Flush(r),
           r.stream \in Ids, r.stream # 0, r.written < BodySize,
           delivered[r.stream] = Parts(r.written)
    PROVE  /\ stopped' = stopped
           /\ credit' \in [Ids -> 0 .. BodySize]
           /\ delivered' \in [Ids -> Seq(1 .. BodySize)]
           /\ \A s \in Ids : s # r.stream => delivered'[s] = delivered[s]
           /\ delivered'[r.stream] = Parts(Len(delivered'[r.stream]))
           /\ \/ /\ report' = None
                 /\ r.stream \in stopped \/ Len(delivered'[r.stream]) = BodySize
              \/ /\ report' \in Reports /\ report'.stream = r.stream
                 /\ report'.written = Len(delivered'[r.stream])
                 /\ report'.written < BodySize
<1>1. BodySize \in Nat \ {0} /\ MaxReports \in Nat BY H3SessionConfig
<1>2. r.stream \in Nat /\ r.written \in Nat BY DEF Reports
<1>3. Len(delivered[r.stream]) = r.written BY <1>1, <1>2, PartsType
<1>4. /\ credit \in [Ids -> 0 .. BodySize] /\ delivered \in [Ids -> Seq(1 .. BodySize)]
  BY DEF TypeOK
<1>5. CASE FlushSome(r)
  <2>1. PICK n \in 1 .. credit[r.stream] :
          /\ r.written + n <= BodySize
          /\ credit' = [credit EXCEPT ![r.stream] = @ - n]
          /\ delivered' = [delivered EXCEPT ![r.stream] = @ \o [i \in 1 .. n |-> r.written + i]]
          /\ report' = IF Complete(Written(r, n)) THEN None
                       ELSE [r EXCEPT !.written = Written(r, n)]
    BY <1>5 DEF FlushSome
  <2>2. n \in Nat /\ credit[r.stream] \in 0 .. BodySize BY <1>1, <1>4
  <2>3. credit' \in [Ids -> 0 .. BodySize]
    <3>1. credit[r.stream] - n \in 0 .. BodySize BY <1>1, <2>1, <2>2
    <3> QED BY <1>4, <2>1, <3>1
  <2>4. delivered'[r.stream] = Parts(r.written + n)
    <3>1. delivered'[r.stream] = Parts(r.written) \o [i \in 1 .. n |-> r.written + i]
      BY <1>4, <2>1
    <3> QED BY <1>2, <2>2, <3>1, NextParts
  <2>5. Len(delivered'[r.stream]) = r.written + n
        /\ delivered'[r.stream] \in Seq(1 .. BodySize)
    <3>1. r.written + n \in Nat /\ r.written + n <= BodySize BY <1>2, <2>1, <2>2
    <3> QED BY <2>4, <3>1, PartsType
  <2>6. /\ delivered' \in [Ids -> Seq(1 .. BodySize)]
        /\ \A s \in Ids : s # r.stream => delivered'[s] = delivered[s]
    BY <1>4, <2>1, <2>5
  <2>7. CASE r.written + n = BodySize
    BY <1>5, <2>1, <2>3, <2>4, <2>5, <2>6, <2>7 DEF Complete, Written, FlushSome
  <2>8. CASE r.written + n # BodySize
    <3>1. report' = [r EXCEPT !.written = r.written + n]
      BY <2>1, <2>8 DEF Complete, Written
    <3>2. report' \in Reports /\ report'.stream = r.stream /\ report'.written = r.written + n
      BY <1>2, <2>2, <3>1 DEF Reports
    <3>3. r.written + n < BodySize BY <1>1, <1>2, <2>1, <2>2, <2>8
    <3> QED BY <1>5, <2>3, <2>4, <2>5, <2>6, <3>2, <3>3 DEF FlushSome
  <2> QED BY <2>7, <2>8
<1>6. CASE FlushBlocked(r)
  BY <1>2, <1>3, <1>4, <1>6 DEF FlushBlocked, peerView
<1>7. CASE FlushFails(r)
  BY <1>3, <1>4, <1>7 DEF FlushFails, peerView
<1> QED BY <1>5, <1>6, <1>7 DEF Flush

-----------------------------------------------------------------------------
(* What is unread has been sent.                                            *)
Unread == \A s \in Ids : streams[s].data <= streams[s].sent

H3Inv == TypeOK /\ Unread /\ ReportInv

(* A step that keeps the reports as they are.                                *)
LEMMA ReportUntouched ==
    ASSUME TypeOK, ReportInv, opened' = opened, report' = report, delivered' = delivered,
           stopped \subseteq stopped'
    PROVE  ReportInv'
  BY DEF ReportInv

(* A step of the poll loop or of the peer on a stream's events keeps their     *)
(* types.                                                                    *)
LEMMA StreamEvents ==
    ASSUME TypeOK, Unread, NEW s \in Ids,
           PeerSends(s) \/ PollHeaders(s) \/ PollData(s) \/ PollEnd(s)
    PROVE  /\ streams' \in [Ids -> Stream] /\ Unread'
           /\ UNCHANGED <<stage, reporting, peerView>>
           /\ phase' \in {phase, "closed"}
           /\ phase' # phase => s = Connect /\ streams[s].end # "open"
           /\ \A t \in Ids : streams[t].end # "open" => streams'[t].end # "open"
<1>1. MaxData \in Nat BY H3SessionConfig
<1>2. streams \in [Ids -> Stream] /\ streams[s] \in Stream BY DEF TypeOK
<1>3. CASE PeerSends(s)
  <2>1. PICK h \in {"ok", "bad"} :
          \/ streams' = [streams EXCEPT ![s].headers = h]
          \/ /\ streams[s].sent < MaxData
             /\ streams' = [streams EXCEPT ![s].data = @ + 1, ![s].sent = @ + 1]
          \/ streams' = [streams EXCEPT ![s].end = "fin"]
          \/ streams' = [streams EXCEPT ![s].end = "reset"]
    BY <1>3 DEF PeerSends
  <2>2. streams[s].end = "open" /\ UNCHANGED <<phase, stage, reporting, peerView>>
    BY <1>3 DEF PeerSends
  <2>3. CASE streams' = [streams EXCEPT ![s].headers = h]
    BY <1>2, <2>2, <2>3 DEF Stream, Unread
  <2>4. CASE /\ streams[s].sent < MaxData
             /\ streams' = [streams EXCEPT ![s].data = @ + 1, ![s].sent = @ + 1]
    <3> DEFINE more == [streams[s] EXCEPT !.data = @ + 1, !.sent = @ + 1]
    <3>1. streams[s].data \in 0 .. MaxData /\ streams[s].sent \in 0 .. MaxData
          /\ streams[s].data <= streams[s].sent
      BY <1>2 DEF Stream, Unread
    <3>2. streams[s].data + 1 \in 0 .. MaxData /\ streams[s].sent + 1 \in 0 .. MaxData
          /\ streams[s].data + 1 <= streams[s].sent + 1
      BY <1>1, <2>4, <3>1
    <3>3. more \in Stream /\ more.data <= more.sent /\ more.end = streams[s].end
      BY <1>2, <3>2 DEF Stream
    <3>4. streams' = [streams EXCEPT ![s] = more] BY <2>4
    <3> HIDE DEF more
    <3>5. streams' \in [Ids -> Stream] /\ Unread' BY <1>2, <3>3, <3>4 DEF Unread
    <3>6. \A t \in Ids : streams[t].end # "open" => streams'[t].end # "open"
      BY <1>2, <3>3, <3>4
    <3> QED BY <2>2, <3>5, <3>6
  <2>5. CASE \/ streams' = [streams EXCEPT ![s].end = "fin"]
             \/ streams' = [streams EXCEPT ![s].end = "reset"]
    BY <1>2, <2>2, <2>5 DEF Stream, Unread
  <2> QED BY <2>1, <2>3, <2>4, <2>5
<1>4. CASE PollHeaders(s) BY <1>2, <1>4 DEF PollHeaders, Stream, Unread
<1>5. CASE PollData(s) BY <1>1, <1>2, <1>5 DEF PollData, Stream, Unread
<1>6. CASE PollEnd(s)
  <2>1. streams[s].end # "open" BY <1>6 DEF PollEnd, HasEnd, HasReset, HasFinished
  <2>2. streams' = [streams EXCEPT ![s].ended = TRUE] BY <1>6 DEF PollEnd
  <2>3. /\ streams' \in [Ids -> Stream] /\ Unread'
        /\ \A t \in Ids : streams'[t].end = streams[t].end
    BY <1>2, <2>2 DEF Stream, Unread
  <2> QED BY <1>6, <2>1, <2>3 DEF PollEnd, Terminates
<1> QED BY <1>3, <1>4, <1>5, <1>6

(* A step about the reports: starting one or sending more of it.             *)
LEMMA ReportStep ==
    ASSUME H3Inv, StartReport \/ ContinueReport
    PROVE  H3Inv'
<1>0. BodySize \in Nat \ {0} /\ MaxReports \in Nat /\ opened \in Nat /\ Ids = 0 .. MaxReports
  BY H3SessionConfig DEF H3Inv, TypeOK, Ids
<1>1. /\ phase' = phase /\ stage' = "select" /\ streams' = streams
      /\ due' \in BOOLEAN /\ opened' \in Ids /\ opened' >= opened
  <2>1. CASE StartReport
    <3>1. opened < MaxReports /\ opened' = opened + 1 BY <2>1 DEF StartReport
    <3>2. opened' \in Ids /\ opened' >= opened BY <1>0, <3>1
    <3> QED BY <2>1, <3>2 DEF StartReport, Reporting
  <2>2. CASE ContinueReport BY <1>0, <2>2 DEF ContinueReport, H3Inv, TypeOK
  <2> QED BY <2>1, <2>2
<1>2. PICK r \in Reports :
        /\ Flush(r) /\ r.stream \in 1 .. opened' /\ r.written < BodySize
        /\ r.written = Len(delivered[r.stream])
        /\ \A s \in 1 .. opened' :
              s = r.stream \/ s \in stopped \/ Len(delivered[s]) = BodySize
        /\ \A s \in Ids : s > opened' => delivered[s] = <<>>
  <2>1. CASE StartReport
    <3> DEFINE r == [stream |-> opened', written |-> 0]
    <3>1. opened' = opened + 1 /\ opened' \in Ids /\ Flush(r) /\ report = None
      BY <1>0, <2>1 DEF StartReport, Starts
    <3>2. r \in Reports /\ r.stream = opened' /\ r.written = 0
      BY <1>0, <3>1 DEF Reports
    <3>3. delivered[opened'] = <<>> BY <1>0, <3>1 DEF H3Inv, ReportInv
    <3>4. \A s \in 1 .. opened : s \in stopped \/ Len(delivered[s]) = BodySize
      BY <3>1 DEF H3Inv, ReportInv, None
    <3>5. \A s \in Ids : s > opened' => delivered[s] = <<>>
      BY <1>0, <3>1 DEF H3Inv, ReportInv
    <3> HIDE DEF r
    <3> QED BY <1>0, <3>1, <3>2, <3>3, <3>4, <3>5
  <2>2. CASE ContinueReport
    <3>1. report # None /\ Flush(report) /\ opened' = opened
      BY <2>2 DEF ContinueReport
    <3>2. report.stream \in 1 .. opened /\ report.written < BodySize
      BY <1>0, <3>1 DEF H3Inv, TypeOK
    <3> QED BY <3>1, <3>2 DEF H3Inv, ReportInv
  <2> QED BY <2>1, <2>2
<1>3. r.stream \in Ids /\ r.stream # 0 BY <1>0, <1>1, <1>2
<1>4. delivered[r.stream] = Parts(r.written) BY <1>2, <1>3 DEF H3Inv, ReportInv
<1>5. /\ stopped' = stopped
      /\ credit' \in [Ids -> 0 .. BodySize]
      /\ delivered' \in [Ids -> Seq(1 .. BodySize)]
      /\ \A s \in Ids : s # r.stream => delivered'[s] = delivered[s]
      /\ delivered'[r.stream] = Parts(Len(delivered'[r.stream]))
      /\ \/ /\ report' = None
            /\ r.stream \in stopped \/ Len(delivered'[r.stream]) = BodySize
         \/ /\ report' \in Reports /\ report'.stream = r.stream
            /\ report'.written = Len(delivered'[r.stream])
            /\ report'.written < BodySize
  BY <1>2, <1>3, <1>4, FlushOutcome DEF H3Inv
<1>6. TypeOK'
  <2>1. report' # None => report'.stream \in 1 .. opened' /\ report'.written \in 0 .. BodySize - 1
    BY <1>0, <1>2, <1>5 DEF Reports
  <2>2. stopped' \subseteq Ids BY <1>5 DEF H3Inv, TypeOK
  <2> QED BY <1>1, <1>5, <2>1, <2>2 DEF H3Inv, TypeOK
<1>7. ReportInv'
  <2>1. report' \in Reports BY <1>5 DEF None, Reports
  <2>2. \A s \in Ids : delivered'[s] = Parts(Len(delivered'[s]))
    BY <1>5 DEF H3Inv, ReportInv
  <2>3. \A s \in Ids : s > opened' => delivered'[s] = <<>>
    <3>1. \A s \in Ids : s > opened' => s # r.stream BY <1>0, <1>1, <1>2
    <3> QED BY <1>2, <1>5, <3>1
  <2>4. report' # None => report'.written = Len(delivered'[report'.stream])
    BY <1>5
  <2>5. \A s \in 1 .. opened' :
           s = report'.stream \/ s \in stopped' \/ Len(delivered'[s]) = BodySize
    <3>1. \A s \in 1 .. opened' : s \in Ids BY <1>0, <1>1
    <3> QED BY <1>2, <1>5, <3>1
  <2> QED BY <2>1, <2>2, <2>3, <2>4, <2>5 DEF ReportInv
<1> QED BY <1>1, <1>6, <1>7 DEF H3Inv, Unread

-----------------------------------------------------------------------------
(* masque.rs: the inductive invariant of the streams and the report.          *)
THEOREM StreamsInvariant == Spec => []H3Inv
<1>1. Init => H3Inv
  <2> SUFFICES ASSUME Init PROVE H3Inv
    OBVIOUS
  <2>1. BodySize \in Nat \ {0} /\ {MaxReports, MaxData} \subseteq Nat BY H3SessionConfig
  <2>2. NewStream \in Stream BY <2>1 DEF NewStream, Stream
  <2>3. Connect \in Ids BY <2>1 DEF Ids, Connect
  <2>4. Parts(0) = <<>> BY DEF Parts
  <2>5. TypeOK BY <2>1, <2>2, <2>3 DEF Init, TypeOK, Connect, Over
  <2>6. Unread BY <2>1 DEF Init, NewStream, Unread
  <2>7. ReportInv BY <2>1, <2>4 DEF Init, ReportInv, None, Reports
  <2> QED BY <2>5, <2>6, <2>7 DEF H3Inv
<1>2. H3Inv /\ [Next]_vars => H3Inv'
  <2> SUFFICES ASSUME H3Inv, [Next]_vars PROVE H3Inv'
    OBVIOUS
  <2>0. TypeOK /\ Unread /\ ReportInv BY DEF H3Inv
  <2>1. Connect \in Ids BY H3SessionConfig DEF Ids, Connect
  <2>2. ASSUME NEW s \in Ids,
               PeerSends(s) \/ PollHeaders(s) \/ PollData(s) \/ PollEnd(s)
        PROVE  H3Inv'
    <3>1. /\ streams' \in [Ids -> Stream] /\ Unread'
          /\ UNCHANGED <<stage, reporting, peerView>> /\ phase' \in {phase, "closed"}
      BY <2>0, <2>2, StreamEvents
    <3>2. TypeOK' BY <2>0, <3>1 DEF TypeOK, Over, reporting, peerView
    <3>3. ReportInv' BY <2>0, <3>1, ReportUntouched DEF reporting, peerView
    <3> QED BY <3>1, <3>2, <3>3 DEF H3Inv
  <2>3. ASSUME NEW s \in Ids, PeerCredits(s) \/ PeerStops(s) PROVE H3Inv'
    <3>1. BodySize \in Nat /\ Len(delivered[s]) \in Nat /\ credit[s] \in Nat
      BY <2>0, H3SessionConfig DEF TypeOK
    <3>2. TypeOK'
      <4>1. CASE PeerCredits(s)
        <5>1. credit[s] + 1 \in 0 .. BodySize BY <3>1, <4>1 DEF PeerCredits
        <5>2. credit' \in [Ids -> 0 .. BodySize]
          BY <2>0, <4>1, <5>1 DEF PeerCredits, TypeOK
        <5> QED BY <2>0, <4>1, <5>2 DEF PeerCredits, TypeOK, reporting
      <4>2. CASE PeerStops(s) BY <2>0, <4>2 DEF PeerStops, TypeOK, reporting
      <4> QED BY <2>3, <4>1, <4>2
    <3>3. ReportInv'
      BY <2>0, <2>3, ReportUntouched DEF PeerCredits, PeerStops, reporting
    <3> QED BY <2>0, <2>3, <3>2, <3>3 DEF H3Inv, Unread, PeerCredits, PeerStops
  <2>4. CASE AwaitResponse
    <3>1. /\ streams' \in [Ids -> Stream] /\ Unread'
      <4>1. \/ streams' = [streams EXCEPT ![Connect].headers = "read"]
            \/ streams' = [streams EXCEPT ![Connect].ended = TRUE]
        BY <2>4 DEF AwaitResponse
      <4>2. streams \in [Ids -> Stream] BY <2>0 DEF TypeOK
      <4> QED BY <2>0, <2>1, <4>1, <4>2, ZenonT(60) DEF Stream, Unread
    <3>2. phase' \in {"starting", "refused", "awaiting"}
          /\ UNCHANGED <<stage, reporting, peerView>>
      BY <2>4 DEF AwaitResponse
    <3>3. TypeOK' BY <2>0, <3>1, <3>2 DEF TypeOK, Over, reporting, peerView
    <3>4. ReportInv' BY <2>0, <3>2, ReportUntouched DEF reporting, peerView
    <3> QED BY <3>1, <3>3, <3>4 DEF H3Inv
  <2>5. CASE StartReport \/ ContinueReport BY <2>5, ReportStep
  <2>6. ASSUME UNCHANGED <<streams, opened, report, peerView>>,
               phase' \in {"awaiting", "starting", "online"} \union Over,
               stage' \in {"poll", "report", "select"}, due' \in BOOLEAN
        PROVE  H3Inv'
    BY <2>0, <2>6, ReportUntouched DEF H3Inv, TypeOK, Unread, peerView
  <2>7. CASE \/ ResponseTimeout \/ StartLoop \/ SessionFails \/ PollFails \/ PollDone
             \/ StartFails \/ NoReport \/ Wake \/ IntervalElapses
    <3>1. /\ UNCHANGED <<streams, opened, report, peerView>>
          /\ phase' \in {phase, "failed", "online"} /\ due' \in {due, TRUE, FALSE}
          /\ stage' \in {stage, "report", "select", "poll"}
      BY <2>7 DEF ResponseTimeout, StartLoop, SessionFails, PollFails, PollDone, StartFails,
                  NoReport, Wake, IntervalElapses, reporting, peerView
    <3> QED BY <2>0, <2>6, <3>1 DEF TypeOK, Over
  <2>8. CASE UNCHANGED vars
    BY <2>0, <2>6, <2>8 DEF vars, TypeOK, reporting, peerView
  <2>9. CASE Poll BY <2>2, <2>9 DEF Poll
  <2>10. CASE Peer BY <2>2, <2>3, <2>10 DEF Peer
  <2> QED BY <2>4, <2>5, <2>7, <2>8, <2>9, <2>10 DEF Next, Loop
<1> QED BY <1>1, <1>2, PTL DEF Spec

(* README.md, "Auxiliary H3 requests such as /h3-stats remain isolated": only   *)
(* the end of the CONNECT-IP stream closes a session, on every path.         *)
THEOREM OnlyConnectCloses == Spec => []AuxiliaryIsolated
<1>1. Init => AuxiliaryIsolated
  BY DEF Init, AuxiliaryIsolated
<1>2. H3Inv /\ AuxiliaryIsolated /\ [Next]_vars => AuxiliaryIsolated'
  <2> SUFFICES ASSUME H3Inv, AuxiliaryIsolated, [Next]_vars, phase' = "closed"
               PROVE  streams'[Connect].end # "open"
    BY DEF AuxiliaryIsolated
  <2>0. TypeOK /\ Unread /\ Connect \in Ids
    BY H3SessionConfig DEF H3Inv, Ids, Connect
  <2>1. ASSUME NEW s \in Ids,
               PeerSends(s) \/ PollHeaders(s) \/ PollData(s) \/ PollEnd(s)
        PROVE  streams'[Connect].end # "open"
    <3>1. phase = "closed" \/ (s = Connect /\ streams[s].end # "open")
      BY <2>0, <2>1, StreamEvents
    <3> QED BY <2>0, <2>1, <3>1, StreamEvents DEF AuxiliaryIsolated
  <2>2. CASE AwaitResponse BY <2>2 DEF AwaitResponse
  <2>3. CASE Peer \/ Poll
    <3>1. ASSUME NEW s \in Ids, PeerCredits(s) \/ PeerStops(s)
          PROVE  streams'[Connect].end # "open"
      BY <3>1 DEF PeerCredits, PeerStops, AuxiliaryIsolated
    <3> QED BY <2>1, <2>3, <3>1 DEF Peer, Poll
  <2>4. CASE \/ ResponseTimeout \/ StartLoop \/ SessionFails \/ PollFails \/ PollDone
             \/ StartFails \/ NoReport \/ Wake \/ IntervalElapses
             \/ StartReport \/ ContinueReport \/ UNCHANGED vars
    BY <2>4 DEF ResponseTimeout, StartLoop, SessionFails, PollFails, PollDone, StartFails,
                NoReport, Wake, IntervalElapses, StartReport, ContinueReport, vars,
                AuxiliaryIsolated
  <2> QED BY <2>2, <2>3, <2>4 DEF Next, Loop
<1> QED BY <1>1, <1>2, StreamsInvariant, PTL DEF Spec

(* masque.rs, start_h3_stats_report and flush_h3_stats_report: however credit   *)
(* comes in pieces, a report arrives whole, once, in order, or was refused,    *)
(* and none is started before the last has come to that.                     *)
THEOREM ReportsArriveWhole == Spec => []ReportsWhole
<1>1. H3Inv => ReportsWhole
  <2> SUFFICES ASSUME H3Inv, NEW s \in 1 .. opened
               PROVE  /\ delivered[s] = Parts(Len(delivered[s]))
                      /\ s = report.stream \/ s \in stopped \/ Len(delivered[s]) = BodySize
    BY DEF ReportsWhole, Parts
  <2>1. s \in Ids BY H3SessionConfig DEF H3Inv, TypeOK, Ids
  <2> QED BY <2>1 DEF H3Inv, ReportInv
<1> QED BY <1>1, StreamsInvariant, PTL

=============================================================================
