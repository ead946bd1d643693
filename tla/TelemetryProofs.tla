--------------------------- MODULE TelemetryProofs ---------------------------
(***************************************************************************)
(* Proofs about Telemetry, for any peers, any number of reports at once,   *)
(* any traffic and any number of resets, rotations and moves.              *)
(*                                                                         *)
(* The argument: give every report the amount that the peer had moved when *)
(* its counters were sampled, and every row the amount of the report that  *)
(* wrote it last.  A counter that goes on, or starts again, has grown by   *)
(* no more than the peer moved; so what a report adds to the row it read   *)
(* is no more than what was moved between the two samples, provided that   *)
(* the row's sample is the older one.  It is unless the report is          *)
(* overtaken, for reports in flight are ordered by when they were sent.    *)
(***************************************************************************)
EXTENDS Telemetry, TLAPS

\* The reports that have peer p to come, or at work.
Pending(p) == {h \in Reports : p \in report[h].todo \/ report[h].at = p}

\* m[h]: what p had moved when report h was sampled; w: when the sample that is in the
\* row was taken.
Fits(p, m, w) ==
    /\ row[p].cumulative <= w
    /\ w + BytesDelta(row[p].seen, counter[p]) <= moved[p]
    /\ \A h \in Pending(p) : m[h] + BytesDelta(report[h].carried[p], counter[p]) <= moved[p]
    /\ \A h, g \in Pending(p) : g \in report[h].newer =>
          m[h] + BytesDelta(report[h].carried[p], report[g].carried[p]) <= m[g]
    /\ \A h \in Reports : p \in report[h].todo \ report[h].late =>
          w + BytesDelta(row[p].seen, report[h].carried[p]) <= m[h]
    /\ \A h \in Reports : report[h].at = p =>
          report[h].cumulative + BytesDelta(report[h].seen, report[h].carried[p]) <= m[h]

Counted(p) == \E m \in [Reports -> Nat], w \in Nat : Fits(p, m, w)

\* A handler that serves nothing holds nothing, one that updates is at a peer,
\* and the peer at work is not one to come.
ShapeOK(h) ==
    /\ report[h].step = "off" => report[h].todo = {} /\ report[h].at = None
    /\ report[h].step = "update" => report[h].at # None
    /\ report[h].at \notin report[h].todo

\* Of two reports in flight one knows that the other is newer.
Ordered ==
    \A g, h \in Serving : g # h => g \in report[h].newer \/ h \in report[g].newer

TelemetryIInv ==
    /\ TelemetryTypeOK
    /\ \A p \in Peers : counter[p] <= moved[p]
    /\ minted <= faults
    /\ \A h \in Reports : ShapeOK(h)
    /\ Ordered
    /\ ~overtaken => \A p \in Peers : Counted(p)

-----------------------------------------------------------------------------
(* Lemmas.                                                                 *)

\* What a counter has grown by, as the service sees it.
LEMMA DeltaFacts ==
    ASSUME NEW a \in Nat, NEW b \in Nat
    PROVE  /\ BytesDelta(a, b) \in Nat
           /\ BytesDelta(a, 0) = 0 /\ BytesDelta(a, a) = 0 /\ BytesDelta(0, b) = b
           /\ BytesDelta(a, b + 1) <= BytesDelta(a, b) + 1
  BY DEF BytesDelta

\* Amounts are numbers, and nothing is one.
LEMMA AmountFacts == Amount \subseteq Nat /\ 0 \in Amount
  BY TelemetryAssumption DEF Amount

\* The report of a handler that serves nothing.
LEMMA OffFacts ==
    /\ Off \in Report
    /\ Off.step = "off" /\ Off.todo = {} /\ Off.at = None /\ Off.newer = {} /\ Off.late = {}
  BY AmountFacts, TelemetryAssumption DEF Off, Report

\* What is known of a row and a report from their types.
LEMMA TelemetryTyped ==
    ASSUME TelemetryTypeOK
    PROVE  /\ \A p \in Peers : /\ counter[p] \in Nat /\ moved[p] \in Nat
                               /\ row[p].seen \in Nat /\ row[p].cumulative \in Nat
           /\ \A h \in Reports : /\ report[h] \in Report
                                 /\ report[h].at \in Peers \union {None}
                                 /\ report[h].todo \in SUBSET Peers
                                 /\ report[h].newer \in SUBSET Reports
                                 /\ report[h].seen \in Nat /\ report[h].cumulative \in Nat
           /\ \A h \in Reports, p \in Peers : report[h].carried[p] \in Nat
  <1>1. \A h \in Reports : report[h] \in Report
    BY DEF TelemetryTypeOK
  <1>2. \A p \in Peers : row[p] \in DeviceRow
    BY DEF TelemetryTypeOK
  <1>3. \A p \in Peers : counter[p] \in Nat /\ moved[p] \in Nat
    BY AmountFacts DEF TelemetryTypeOK
  <1> QED BY <1>1, <1>2, <1>3, AmountFacts DEF Report, DeviceRow

\* A report that has a peer to come is in flight.
LEMMA PendingServes ==
    ASSUME TelemetryIInv, NEW p \in Peers
    PROVE  Pending(p) \subseteq Serving
  <1>1. p # None
    BY TelemetryAssumption
  <1> QED BY <1>1 DEF TelemetryIInv, ShapeOK, Pending, Serving

\* A step that leaves the row and the counter of a peer alone, and takes nothing on for
\* it, keeps its account.
LEMMA CountedKept ==
    ASSUME NEW p \in Peers, Counted(p),
           row'[p].seen = row[p].seen, row'[p].cumulative = row[p].cumulative,
           counter'[p] = counter[p], moved'[p] = moved[p],
           \A h \in Pending(p)' : /\ h \in Pending(p)
                                  /\ report'[h].carried[p] = report[h].carried[p]
                                  /\ report'[h].newer \subseteq report[h].newer,
           \A h \in Reports : /\ p \in report'[h].todo \ report'[h].late =>
                                    p \in report[h].todo \ report[h].late
                              /\ report'[h].at = p =>
                                    /\ report[h].at = p /\ report'[h].seen = report[h].seen
                                    /\ report'[h].cumulative = report[h].cumulative
    PROVE  Counted(p)'
  <1> PICK m \in [Reports -> Nat], w \in Nat : Fits(p, m, w)
    BY DEF Counted
  <1>1. Fits(p, m, w)'
    <2>1. \A h \in Reports : p \in report'[h].todo \/ report'[h].at = p =>
             report'[h].carried[p] = report[h].carried[p]
      BY DEF Pending
    <2> QED BY <2>1 DEF Fits
  <1> QED BY <1>1 DEF Counted

\* The rest of the invariant after a step that changes nothing but the reports and who is
\* waited for.
LEMMA RestKept ==
    ASSUME TelemetryIInv, UNCHANGED <<nodeVars, row, tokenVars, faults>>,
           report' \in [Reports -> Report], waiting' \in Reports \union {None},
           overtaken' \in BOOLEAN,
           \A h \in Reports : ShapeOK(h)', Ordered',
           ~overtaken' => ~overtaken /\ \A p \in Peers : Counted(p)'
    PROVE  TelemetryIInv'
  BY DEF TelemetryIInv, TelemetryTypeOK, nodeVars, tokenVars

\* A report moves on within its service, and no other report changes.
LEMMA ReportMoves ==
    ASSUME TelemetryIInv, UNCHANGED <<nodeVars, row, tokenVars, faults, waiting>>,
           NEW h \in Serving, NEW new \in Report, report' = [report EXCEPT ![h] = new],
           new.step # "off", new.newer = report[h].newer,
           new.step = "update" => new.at # None, new.at \notin new.todo,
           overtaken' \in BOOLEAN,
           ~overtaken' => ~overtaken /\ \A p \in Peers : Counted(p)'
    PROVE  TelemetryIInv'
  <1>1. /\ h \in Reports /\ report' \in [Reports -> Report] /\ report'[h] = new
        /\ \A g \in Reports \ {h} : report'[g] = report[g]
    BY DEF TelemetryIInv, TelemetryTypeOK, Serving
  <1>2. \A g \in Reports : ShapeOK(g)'
    BY <1>1 DEF TelemetryIInv, ShapeOK
  <1>3. Serving' = Serving /\ \A g \in Reports : report'[g].newer = report[g].newer
    BY <1>1 DEF Serving
  <1>4. Ordered'
    BY <1>3 DEF TelemetryIInv, Ordered, Serving
  <1> QED BY <1>1, <1>2, <1>4, RestKept DEF TelemetryIInv, TelemetryTypeOK

-----------------------------------------------------------------------------
(* The service of a report.                                                *)

\* The token is good.
LEMMA AuthoriseInv ==
    ASSUME TelemetryIInv, NEW h \in Reports, Authorise(h)
    PROVE  TelemetryIInv'
  <1> DEFINE new == [report[h] EXCEPT !.step = "peers", !.token = 0]
  <1>1. /\ report[h].step = "sent" /\ report' = [report EXCEPT ![h] = new]
        /\ UNCHANGED <<nodeVars, row, tokenVars, faults, waiting, overtaken>>
    BY DEF Authorise, TelemetryIInv, TelemetryTypeOK
  <1>2. report[h] \in Report /\ h \in Serving
    BY <1>1, TelemetryTyped DEF TelemetryIInv, Serving
  <1>3. /\ new \in Report /\ new.step = "peers" /\ new.newer = report[h].newer
        /\ new.todo = report[h].todo /\ new.at = report[h].at /\ new.carried = report[h].carried
        /\ new.late = report[h].late /\ new.seen = report[h].seen
        /\ new.cumulative = report[h].cumulative
    <2>1. 0 \in 0 .. MaxFaults
      BY TelemetryAssumption
    <2> QED BY <1>2, <2>1 DEF Report
  <1> HIDE DEF new
  <1>4. ASSUME NEW p \in Peers, Counted(p) PROVE Counted(p)'
    <2>1. report'[h] = new /\ \A g \in Reports \ {h} : report'[g] = report[g]
      BY <1>1 DEF TelemetryIInv, TelemetryTypeOK
    <2> QED BY <1>1, <1>3, <1>4, <2>1, CountedKept DEF Pending, nodeVars
  <1>5. new.at \notin new.todo
    BY <1>3 DEF TelemetryIInv, ShapeOK
  <1> QED BY <1>1, <1>2, <1>3, <1>4, <1>5, ReportMoves DEF TelemetryIInv, TelemetryTypeOK

\* A report is answered, refused or lost: nobody waits for it any more.
LEMMA AnsweredInv ==
    ASSUME TelemetryIInv, NEW h \in Reports, Answered(h),
           UNCHANGED <<nodeVars, row, tokenVars, faults, overtaken>>
    PROVE  TelemetryIInv'
  <1>0. \A g \in Reports : report[g] \in Report
    BY TelemetryTyped DEF TelemetryIInv
  <1>1. /\ report'[h] = Off
        /\ \A g \in Reports \ {h} : report'[g] = [report[g] EXCEPT !.newer = @ \ {h}]
        /\ report' = [g \in Reports |->
              IF g = h THEN Off ELSE [report[g] EXCEPT !.newer = @ \ {h}]]
        /\ waiting' \in Reports \union {None}
    BY DEF Answered, TelemetryIInv, TelemetryTypeOK
  <1>2. ASSUME NEW g \in Reports \ {h}
        PROVE  /\ report'[g] \in Report /\ report'[g].newer = report[g].newer \ {h}
               /\ report'[g].step = report[g].step /\ report'[g].todo = report[g].todo
               /\ report'[g].at = report[g].at /\ report'[g].carried = report[g].carried
               /\ report'[g].late = report[g].late /\ report'[g].seen = report[g].seen
               /\ report'[g].cumulative = report[g].cumulative
    <2>1. report[g] \in Report
      BY <1>0
    <2> QED BY <1>1, <2>1 DEF Report
  <1>3. report' \in [Reports -> Report]
    BY <1>1, <1>2, OffFacts
  <1>4. \A g \in Reports : ShapeOK(g)'
    BY <1>1, <1>2, OffFacts DEF TelemetryIInv, ShapeOK
  <1>5. Ordered'
    <2>1. Serving' = Serving \ {h}
      BY <1>1, <1>2, OffFacts DEF Serving
    <2> QED BY <1>2, <2>1 DEF TelemetryIInv, Ordered, Serving
  <1>6. ASSUME NEW p \in Peers, Counted(p) PROVE Counted(p)'
    <2>1. p # None
      BY TelemetryAssumption
    <2>2. \A g \in Pending(p)' : g \in Reports \ {h}
      BY <1>1, <2>1, OffFacts DEF Pending
    <2>3. \A g \in Pending(p)' : g \in Pending(p) /\ report'[g].carried[p] = report[g].carried[p]
                                   /\ report'[g].newer \subseteq report[g].newer
      BY <1>2, <2>2 DEF Pending
    <2>4. \A g \in Reports : /\ p \in report'[g].todo \ report'[g].late =>
                                   p \in report[g].todo \ report[g].late
                             /\ report'[g].at = p =>
                                   /\ report[g].at = p /\ report'[g].seen = report[g].seen
                                   /\ report'[g].cumulative = report[g].cumulative
      BY <1>1, <1>2, <2>1, OffFacts
    <2> QED BY <1>6, <2>3, <2>4, CountedKept DEF nodeVars
  <1> QED BY <1>1, <1>3, <1>4, <1>5, <1>6, RestKept DEF TelemetryIInv, TelemetryTypeOK

\* A row is read: unless the report is overtaken here, the row's sample is the older one.
LEMMA ReadRowInv ==
    ASSUME TelemetryIInv, NEW h \in Reports, ReadRow(h)
    PROVE  TelemetryIInv'
  <1> PICK p \in Peers :
        /\ p \in report[h].todo /\ report[h].step = "peers"
        /\ IF row[p].here
           THEN /\ report' = [report EXCEPT ![h].step = "update", ![h].at = p,
                                            ![h].todo = @ \ {p}, ![h].late = @ \ {p},
                                            ![h].seen = row[p].seen,
                                            ![h].cumulative = row[p].cumulative]
                /\ overtaken' = (overtaken \/ p \in report[h].late)
           ELSE /\ report' = [report EXCEPT ![h].todo = @ \ {p}, ![h].late = @ \ {p}]
                /\ UNCHANGED overtaken
        /\ UNCHANGED <<nodeVars, row, tokenVars, waiting, faults>>
    <2>1. report[h].todo # {} /\ report[h].todo \in SUBSET Peers
      BY TelemetryTyped DEF ReadRow, TelemetryIInv
    <2>2. (CHOOSE p \in report[h].todo : TRUE) \in report[h].todo
      BY <2>1
    <2> QED BY <2>1, <2>2 DEF ReadRow
  <1>1. /\ report[h] \in Report /\ h \in Serving /\ p # None
        /\ row[p].seen \in Amount /\ row[p].cumulative \in Nat
        /\ report \in [Reports -> Report] /\ overtaken \in BOOLEAN
    BY TelemetryTyped, TelemetryAssumption DEF TelemetryIInv, Serving, TelemetryTypeOK, DeviceRow
  <1>2. CASE row[p].here
    <2> DEFINE new == [report[h] EXCEPT !.step = "update", !.at = p, !.todo = @ \ {p},
                                        !.late = @ \ {p}, !.seen = row[p].seen,
                                        !.cumulative = row[p].cumulative]
    <2>1. report' = [report EXCEPT ![h] = new]
      BY <1>1, <1>2
    <2>2. /\ new \in Report /\ new.step = "update" /\ new.newer = report[h].newer /\ new.at = p
          /\ new.todo = report[h].todo \ {p} /\ new.late = report[h].late \ {p}
          /\ new.carried = report[h].carried /\ new.seen = row[p].seen
          /\ new.cumulative = row[p].cumulative
      BY <1>1 DEF Report
    <2> HIDE DEF new
    <2>3. report'[h] = new /\ \A g \in Reports \ {h} : report'[g] = report[g]
      BY <1>1, <2>1
    <2>4. ASSUME NEW q \in Peers, q # p, Counted(q) PROVE Counted(q)'
      BY <2>2, <2>3, <2>4, CountedKept DEF Pending, nodeVars
    <2>5. ASSUME Counted(p), p \notin report[h].late PROVE Counted(p)'
      <3> PICK m \in [Reports -> Nat], w \in Nat : Fits(p, m, w)
        BY <2>5 DEF Counted
      <3>1. Pending(p)' = Pending(p)
        BY <2>2, <2>3 DEF Pending
      <3>2. row[p].cumulative + BytesDelta(row[p].seen, report[h].carried[p]) <= m[h]
        <4>1. /\ row[p].cumulative <= w
              /\ w + BytesDelta(row[p].seen, report[h].carried[p]) <= m[h]
          BY <2>5 DEF Fits
        <4>2. /\ row[p].cumulative \in Nat
              /\ BytesDelta(row[p].seen, report[h].carried[p]) \in Nat /\ m[h] \in Nat
          BY TelemetryTyped, DeltaFacts DEF TelemetryIInv
        <4> QED BY <4>1, <4>2
      <3>3. \A g \in Reports : report'[g].carried = report[g].carried
                               /\ report'[g].newer = report[g].newer
        BY <2>2, <2>3
      <3>4. \A g \in Reports : p \in report'[g].todo \ report'[g].late =>
                                   p \in report[g].todo \ report[g].late
        BY <2>2, <2>3
      <3>5. \A g \in Reports : report'[g].at = p =>
               report'[g].cumulative + BytesDelta(report'[g].seen, report'[g].carried[p]) <= m[g]
        BY <2>2, <2>3, <3>2 DEF Fits
      <3>6. UNCHANGED <<counter, moved, row>>
        BY DEF nodeVars
      <3>7. \A f, g \in Pending(p)' : g \in report'[f].newer =>
               m[f] + BytesDelta(report'[f].carried[p], report'[g].carried[p]) <= m[g]
        BY <3>1, <3>3 DEF Fits, Pending
      <3>8. \A g \in Pending(p)' : m[g] + BytesDelta(report'[g].carried[p], counter[p]) <= moved[p]
        BY <3>1, <3>3 DEF Fits, Pending
      <3>9. \A g \in Reports : p \in report'[g].todo \ report'[g].late =>
               w + BytesDelta(row[p].seen, report'[g].carried[p]) <= m[g]
        BY <3>3, <3>4 DEF Fits
      <3>10. Fits(p, m, w)'
        BY <3>5, <3>6, <3>7, <3>8, <3>9 DEF Fits
      <3> QED BY <3>10 DEF Counted
    <2>6. overtaken' \in BOOLEAN
      BY <1>1, <1>2
    <2>7. ~overtaken' => ~overtaken /\ \A q \in Peers : Counted(q)'
      BY <1>1, <1>2, <2>4, <2>5 DEF TelemetryIInv
    <2> QED BY <1>1, <2>1, <2>2, <2>6, <2>7, ReportMoves
  <1>3. CASE ~row[p].here
    <2> DEFINE new == [report[h] EXCEPT !.todo = @ \ {p}, !.late = @ \ {p}]
    <2>1. report' = [report EXCEPT ![h] = new] /\ UNCHANGED overtaken
      BY <1>1, <1>3
    <2>2. /\ new \in Report /\ new.step = "peers" /\ new.newer = report[h].newer
          /\ new.at = report[h].at
          /\ new.todo = report[h].todo \ {p} /\ new.late = report[h].late \ {p}
          /\ new.carried = report[h].carried /\ new.seen = report[h].seen
          /\ new.cumulative = report[h].cumulative
      BY <1>1 DEF Report
    <2> HIDE DEF new
    <2>3. report'[h] = new /\ \A g \in Reports \ {h} : report'[g] = report[g]
      BY <1>1, <2>1
    <2>4. ASSUME NEW q \in Peers, Counted(q) PROVE Counted(q)'
      BY <2>2, <2>3, <2>4, CountedKept DEF Pending, nodeVars
    <2>5. new.at \notin new.todo
      BY <2>2 DEF TelemetryIInv, ShapeOK
    <2> QED BY <1>1, <2>1, <2>2, <2>4, <2>5, ReportMoves DEF TelemetryIInv
  <1> QED BY <1>2, <1>3

\* A row is written: its sample is now that of the report, and the reports that may still
\* read it without being overtaken were sent after it.
LEMMA UpdateRowInv ==
    ASSUME TelemetryIInv, NEW h \in Reports, UpdateRow(h)
    PROVE  TelemetryIInv'
  <1>1. /\ report[h] \in Report /\ h \in Serving /\ report[h].at \in Peers
        /\ report \in [Reports -> Report] /\ row \in [Peers -> DeviceRow]
        /\ ShapeOK(h)
    BY TelemetryTyped DEF UpdateRow, TelemetryIInv, Serving, TelemetryTypeOK, ShapeOK
  <1> PICK p \in Peers : p = report[h].at
    BY <1>1
  <1> PICK c \in Amount : c = report[h].carried[p]
    BY <1>1 DEF Report
  <1> PICK total \in Nat : total = report[h].cumulative + BytesDelta(report[h].seen, c)
    <2>1. report[h].cumulative \in Nat /\ BytesDelta(report[h].seen, c) \in Nat
      BY <1>1, AmountFacts, DeltaFacts DEF Report
    <2> QED BY <2>1
  <1> DEFINE new == [report[h] EXCEPT !.step = "peers", !.at = None, !.seen = 0, !.cumulative = 0,
                                      !.carried[p] = 0]
  <1>2. /\ row' = [row EXCEPT ![p].seen = c, ![p].cumulative = total]
        /\ report' = [g \in Reports |->
              IF g = h THEN new
              ELSE IF h \in report[g].newer
              THEN [report[g] EXCEPT !.late = @ \union ({p} \intersect report[g].todo)]
              ELSE report[g]]
        /\ UNCHANGED <<nodeVars, tokenVars, waiting, faults, overtaken>>
    BY DEF UpdateRow
  <1>3. /\ new \in Report /\ new.step = "peers" /\ new.at = None /\ new.newer = report[h].newer
        /\ new.todo = report[h].todo /\ new.late = report[h].late
        /\ \A q \in Peers \ {p} : new.carried[q] = report[h].carried[q]
    BY <1>1, AmountFacts DEF Report
  <1> HIDE DEF new
  <1>4. report'[h] = new
    BY <1>2
  <1>5. ASSUME NEW g \in Reports \ {h}
        PROVE  /\ report'[g] \in Report
               /\ report'[g].step = report[g].step /\ report'[g].todo = report[g].todo
               /\ report'[g].at = report[g].at /\ report'[g].carried = report[g].carried
               /\ report'[g].newer = report[g].newer /\ report'[g].seen = report[g].seen
               /\ report'[g].cumulative = report[g].cumulative
               /\ report[g].late \subseteq report'[g].late
               /\ h \in report[g].newer /\ p \in report[g].todo => p \in report'[g].late
    <2>1. report[g] \in Report
      BY <1>1
    <2>2. report'[g] = IF h \in report[g].newer
                       THEN [report[g] EXCEPT !.late = @ \union ({p} \intersect report[g].todo)]
                       ELSE report[g]
      BY <1>2
    <2> QED BY <2>1, <2>2 DEF Report
  <1>6. /\ row' \in [Peers -> DeviceRow]
        /\ row'[p].seen = c /\ row'[p].cumulative = total
        /\ \A q \in Peers \ {p} : row'[q] = row[q]
    BY <1>1, <1>2 DEF DeviceRow
  <1>7. report' \in [Reports -> Report]
    BY <1>2, <1>3, <1>4, <1>5
  <1>8. TelemetryTypeOK'
    BY <1>2, <1>6, <1>7 DEF TelemetryIInv, TelemetryTypeOK, nodeVars, tokenVars
  <1>9. \A g \in Reports : ShapeOK(g)'
    <2>1. None \notin report[h].todo
      BY <1>1, TelemetryAssumption DEF Report
    <2> QED BY <1>3, <1>4, <1>5, <2>1 DEF TelemetryIInv, ShapeOK
  <1>10. Ordered'
    <2>1. Serving' = Serving /\ \A g \in Reports : report'[g].newer = report[g].newer
      BY <1>1, <1>3, <1>4, <1>5 DEF Serving
    <2> QED BY <2>1 DEF TelemetryIInv, Ordered, Serving
  <1>11. ASSUME NEW q \in Peers, q # p, Counted(q) PROVE Counted(q)'
    <2>1. q # None
      BY TelemetryAssumption
    <2>2. \A g \in Pending(q)' : g \in Pending(q) /\ report'[g].carried[q] = report[g].carried[q]
                                   /\ report'[g].newer \subseteq report[g].newer
      BY <1>3, <1>4, <1>5, <1>11, <2>1 DEF Pending
    <2>3. \A g \in Reports : /\ q \in report'[g].todo \ report'[g].late =>
                                   q \in report[g].todo \ report[g].late
                             /\ report'[g].at = q =>
                                   /\ report[g].at = q /\ report'[g].seen = report[g].seen
                                   /\ report'[g].cumulative = report[g].cumulative
      BY <1>3, <1>4, <1>5, <2>1
    <2> QED BY <1>2, <1>6, <1>11, <2>2, <2>3, CountedKept DEF nodeVars
  <1>12. ASSUME Counted(p) PROVE Counted(p)'
    <2> PICK m \in [Reports -> Nat], w \in Nat : Fits(p, m, w)
      BY <1>12 DEF Counted
    <2>1. p # None /\ h \in Pending(p) /\ p \notin report[h].todo
      BY <1>1, TelemetryAssumption DEF Pending, ShapeOK
    <2>2. Pending(p)' \subseteq Pending(p) \ {h}
      BY <1>3, <1>4, <1>5, <2>1 DEF Pending
    <2>3. total <= m[h] /\ m[h] + BytesDelta(c, counter[p]) <= moved[p]
      BY <2>1 DEF Fits
    <2>4. \A g \in Pending(p)' : m[g] + BytesDelta(report'[g].carried[p], counter[p]) <= moved[p]
      BY <1>5, <2>2 DEF Fits, Pending
    <2>5. \A f, g \in Pending(p)' : g \in report'[f].newer =>
             m[f] + BytesDelta(report'[f].carried[p], report'[g].carried[p]) <= m[g]
      BY <1>5, <2>2 DEF Fits, Pending
    <2>6. ASSUME NEW g \in Reports, p \in report'[g].todo \ report'[g].late
          PROVE  m[h] + BytesDelta(c, report'[g].carried[p]) <= m[g]
      <3>1. g # h
        BY <1>3, <1>4, <2>1, <2>6
      <3>2. p \in report[g].todo /\ h \notin report[g].newer /\ report'[g].carried = report[g].carried
        BY <1>5, <2>6, <3>1
      <3>3. g \in Pending(p)
        BY <3>2 DEF Pending
      <3>4. g \in Serving /\ h \in Serving
        BY <2>1, <3>3, PendingServes
      <3>5. g \in report[h].newer
        BY <3>1, <3>2, <3>4 DEF TelemetryIInv, Ordered
      <3> QED BY <2>1, <3>2, <3>3, <3>5 DEF Fits
    <2>7. ASSUME NEW g \in Reports, report'[g].at = p
          PROVE  report'[g].cumulative + BytesDelta(report'[g].seen, report'[g].carried[p]) <= m[g]
      <3>1. g # h
        BY <1>3, <1>4, <2>1, <2>7
      <3> QED BY <1>5, <2>7, <3>1 DEF Fits
    <2>8. UNCHANGED <<counter, moved>>
      BY <1>2 DEF nodeVars
    <2>9. Fits(p, m, m[h])'
      BY <1>6, <2>3, <2>4, <2>5, <2>6, <2>7, <2>8 DEF Fits
    <2> QED BY <2>9 DEF Counted
  <1> QED BY <1>2, <1>8, <1>9, <1>10, <1>11, <1>12 DEF TelemetryIInv, nodeVars, tokenVars

\* A report is sent with the counters as they are: all that is in flight is older.
LEMMA SendInv ==
    ASSUME TelemetryIInv, Send
    PROVE  TelemetryIInv'
  <1> DEFINE new == [Off EXCEPT !.step = "sent", !.token = token, !.carried = counter, !.todo = Peers]
  <1> PICK h \in Reports :
        /\ h \notin Serving /\ waiting' = h
        /\ report' = [g \in Reports |-> IF g = h THEN new
                         ELSE IF g \in Serving THEN [report[g] EXCEPT !.newer = @ \union {h}]
                         ELSE report[g]]
    <2>1. Reports \ Serving # {}
      BY DEF Send, Serving
    <2>2. (CHOOSE g \in Reports \ Serving : TRUE) \in Reports \ Serving
      BY <2>1
    <2> QED BY <2>2 DEF Send
  <1>1. UNCHANGED <<nodeVars, row, tokenVars, faults, overtaken>>
    BY DEF Send
  <1>2. /\ new \in Report /\ new.step = "sent" /\ new.todo = Peers /\ new.at = None
        /\ new.newer = {} /\ new.carried = counter
    <2>1. counter \in [Peers -> Amount] /\ token \in 0 .. MaxFaults
      BY DEF TelemetryIInv, TelemetryTypeOK
    <2> QED BY <2>1, OffFacts DEF Report, Off
  <1> HIDE DEF new
  <1>3. report'[h] = new /\ report[h].step = "off"
    BY DEF Serving
  <1>4. ASSUME NEW g \in Reports \ {h}
        PROVE  /\ report'[g] \in Report
               /\ report'[g].step = report[g].step /\ report'[g].todo = report[g].todo
               /\ report'[g].at = report[g].at /\ report'[g].carried = report[g].carried
               /\ report'[g].seen = report[g].seen /\ report'[g].cumulative = report[g].cumulative
               /\ report'[g].late = report[g].late
               /\ report[g].newer \subseteq report'[g].newer
               /\ report'[g].newer \subseteq report[g].newer \union {h}
               /\ g \in Serving => h \in report'[g].newer
    <2>1. report[g] \in Report
      BY TelemetryTyped DEF TelemetryIInv
    <2>2. report'[g] = IF g \in Serving THEN [report[g] EXCEPT !.newer = @ \union {h}] ELSE report[g]
      OBVIOUS
    <2> QED BY <2>1, <2>2 DEF Report
  <1>5. report' \in [Reports -> Report]
    BY <1>2, <1>3, <1>4
  <1>6. \A g \in Reports : ShapeOK(g)'
    BY <1>2, <1>3, <1>4, TelemetryAssumption DEF TelemetryIInv, ShapeOK
  <1>7. Ordered'
    <2>1. Serving' = Serving \union {h}
      BY <1>2, <1>3, <1>4 DEF Serving
    <2> SUFFICES ASSUME NEW f \in Serving', NEW g \in Serving', f # g
                 PROVE  f \in report'[g].newer \/ g \in report'[f].newer
      BY DEF Ordered
    <2>2. CASE f = h \/ g = h
      BY <1>4, <2>1, <2>2 DEF Serving
    <2>3. CASE f # h /\ g # h
      <3>1. f \in Serving /\ g \in Serving
        BY <2>1, <2>3
      <3>2. f \in report[g].newer \/ g \in report[f].newer
        BY <3>1 DEF TelemetryIInv, Ordered
      <3> QED BY <1>4, <2>3, <3>1, <3>2 DEF Serving
    <2> QED BY <2>2, <2>3
  <1>8. ASSUME NEW p \in Peers, Counted(p) PROVE Counted(p)'
    <2> PICK m \in [Reports -> Nat], w \in Nat : Fits(p, m, w)
      BY <1>8 DEF Counted
    <2> PICK k \in Nat, c \in Nat : k = moved[p] /\ c = counter[p]
      BY TelemetryTyped DEF TelemetryIInv
    <2> DEFINE n == [m EXCEPT ![h] = k]
    <2>1. n \in [Reports -> Nat] /\ n[h] = k /\ \A g \in Reports \ {h} : n[g] = m[g]
      OBVIOUS
    <2> HIDE DEF n
    <2>2. UNCHANGED <<counter, moved, row>> /\ p # None
      BY <1>1, TelemetryAssumption DEF nodeVars
    <2>3. h \notin Pending(p) /\ Pending(p)' \subseteq Pending(p) \union {h}
      BY <1>4, PendingServes DEF Pending
    <2>4. k + BytesDelta(c, c) <= k
      BY DeltaFacts
    <2>5. \A g \in Pending(p) : g \in Reports \ {h} /\ report'[g].carried[p] = report[g].carried[p]
      BY <1>4, <2>3 DEF Pending
    <2>6. report'[h].carried[p] = c /\ report'[h].newer = {} /\ report'[h].at # p
      BY <1>2, <1>3, <2>2
    <2>7. \A g \in Pending(p) : m[g] + BytesDelta(report[g].carried[p], c) <= k
      BY DEF Fits
    <2>8. \A g \in Pending(p)' : n[g] + BytesDelta(report'[g].carried[p], c) <= k
      BY <2>1, <2>3, <2>4, <2>5, <2>6, <2>7
    <2>9. ASSUME NEW f \in Pending(p)', NEW g \in Pending(p)', g \in report'[f].newer
          PROVE  n[f] + BytesDelta(report'[f].carried[p], report'[g].carried[p]) <= n[g]
      <3>1. f \in Pending(p) /\ f # h
        BY <2>3, <2>6, <2>9
      <3>2. CASE g = h
        BY <2>1, <2>5, <2>6, <2>7, <3>1, <3>2
      <3>3. CASE g # h
        <4>1. g \in Pending(p) /\ g \in report[f].newer
          BY <1>4, <2>3, <2>5, <2>9, <3>1, <3>3
        <4>2. m[f] + BytesDelta(report[f].carried[p], report[g].carried[p]) <= m[g]
          BY <3>1, <4>1 DEF Fits
        <4> QED BY <2>1, <2>5, <3>1, <3>3, <4>1, <4>2
      <3> QED BY <3>2, <3>3
    <2>10. ASSUME NEW g \in Reports, p \in report'[g].todo \ report'[g].late
           PROVE  w + BytesDelta(row[p].seen, report'[g].carried[p]) <= n[g]
      <3>1. CASE g = h
        <4>1. w + BytesDelta(row[p].seen, c) <= k
          BY DEF Fits
        <4> QED BY <2>1, <2>6, <3>1, <4>1
      <3>2. CASE g # h
        BY <1>4, <2>1, <2>10, <3>2 DEF Fits
      <3> QED BY <3>1, <3>2
    <2>11. ASSUME NEW g \in Reports, report'[g].at = p
           PROVE  report'[g].cumulative + BytesDelta(report'[g].seen, report'[g].carried[p]) <= n[g]
      <3>1. g # h
        BY <2>6, <2>11
      <3> QED BY <1>4, <2>1, <2>11, <3>1 DEF Fits
    <2>12. row[p].cumulative <= w /\ w + BytesDelta(row[p].seen, c) <= k
      BY DEF Fits
    <2>13. Fits(p, n, w)'
      BY <2>2, <2>8, <2>9, <2>10, <2>11, <2>12 DEF Fits
    <2> QED BY <2>1, <2>13 DEF Counted
  <1> QED BY <1>1, <1>5, <1>6, <1>7, <1>8, RestKept DEF TelemetryIInv, TelemetryTypeOK

-----------------------------------------------------------------------------
(* The node, and the faults.                                               *)

\* What a step of the counters, the rows or the tokens leaves as it is.
LEMMA ReportsSame ==
    ASSUME TelemetryIInv, UNCHANGED <<report, overtaken>>, TelemetryTypeOK',
           \A p \in Peers : counter'[p] <= moved'[p], minted' <= faults',
           \A p \in Peers : Counted(p) => Counted(p)'
    PROVE  TelemetryIInv'
  <1>1. \A h \in Reports : ShapeOK(h)'
    BY DEF TelemetryIInv, ShapeOK
  <1>2. Ordered'
    BY DEF TelemetryIInv, Ordered, Serving
  <1> QED BY <1>1, <1>2 DEF TelemetryIInv

\* The account of a peer whose row and counter stay.
LEMMA PeerSame ==
    ASSUME NEW p \in Peers, Counted(p), UNCHANGED report,
           row'[p].seen = row[p].seen, row'[p].cumulative = row[p].cumulative,
           counter'[p] = counter[p], moved'[p] = moved[p]
    PROVE  Counted(p)'
  BY CountedKept DEF Pending

\* The counter of a peer grows with what it moves, or starts again.
LEMMA CounterInv ==
    ASSUME TelemetryIInv, NEW p \in Peers, Traffic(p) \/ Reset(p)
    PROVE  TelemetryIInv'
  <1> PICK a \in Nat, b \in Nat, x \in Nat, y \in Nat :
        /\ a = counter[p] /\ b = moved[p]
        /\ x \in Amount /\ y \in Amount /\ x <= y
        /\ counter' = [counter EXCEPT ![p] = x] /\ moved' = [moved EXCEPT ![p] = y]
        /\ (x = a + 1 /\ y = b + 1) \/ (x = 0 /\ y = b)
        /\ UNCHANGED <<row, tokenVars, waiting, report, overtaken>>
        /\ faults' \in 0 .. MaxFaults /\ faults <= faults'
    <2>1. /\ counter[p] \in Nat /\ moved[p] \in Nat /\ counter[p] <= moved[p]
          /\ moved[p] \in Amount /\ moved \in [Peers -> Amount]
          /\ faults \in 0 .. MaxFaults
      BY TelemetryTyped DEF TelemetryIInv, TelemetryTypeOK
    <2>2. CASE Traffic(p)
      <3>0. MaxMoved[p] \in Nat /\ moved[p] < MaxMoved[p]
        BY <2>2, TelemetryAssumption DEF Traffic
      <3>1. moved[p] + 1 <= MaxMoved[p]
        BY <2>1, <3>0
      <3>2. moved[p] + 1 \in 0 .. MaxMoved[p] /\ counter[p] + 1 \in 0 .. MaxMoved[p]
        BY <2>1, <3>0, <3>1
      <3>3. moved[p] + 1 \in Amount /\ counter[p] + 1 \in Amount
        BY <3>2 DEF Amount
      <3>4. /\ counter' = [counter EXCEPT ![p] = counter[p] + 1]
            /\ moved' = [moved EXCEPT ![p] = moved[p] + 1]
            /\ UNCHANGED <<row, tokenVars, waiting, report, overtaken>> /\ faults' = faults
        BY <2>2 DEF Traffic
      <3>5. faults' \in 0 .. MaxFaults /\ faults <= faults' /\ counter[p] + 1 <= moved[p] + 1
        BY <2>1, <3>4, TelemetryAssumption
      <3> QED BY <2>1, <3>3, <3>4, <3>5, AmountFacts
    <2>3. CASE Reset(p)
      <3>1. faults' \in 0 .. MaxFaults /\ faults <= faults'
        BY <2>1, <2>3, TelemetryAssumption DEF Reset, Disturb
      <3>2. moved' = [moved EXCEPT ![p] = moved[p]]
        BY <2>1, <2>3 DEF Reset
      <3> QED BY <2>1, <2>3, <3>1, <3>2, AmountFacts DEF Reset
    <2> QED BY <2>2, <2>3
  <1>1. /\ counter' \in [Peers -> Amount] /\ counter'[p] = x
        /\ moved' \in [Peers -> Amount] /\ moved'[p] = y
        /\ \A q \in Peers \ {p} : counter'[q] = counter[q] /\ moved'[q] = moved[q]
    BY DEF TelemetryIInv, TelemetryTypeOK
  <1>2. TelemetryTypeOK'
    BY <1>1 DEF TelemetryIInv, TelemetryTypeOK, tokenVars
  <1>3. \A q \in Peers : counter'[q] <= moved'[q]
    BY <1>1 DEF TelemetryIInv
  <1>4. minted' <= faults'
    <2>1. minted \in Nat /\ faults \in Nat /\ minted <= faults /\ faults' \in Nat /\ minted' = minted
      BY TelemetryAssumption DEF TelemetryIInv, TelemetryTypeOK, tokenVars
    <2> QED BY <2>1
  <1>5. ASSUME NEW q \in Peers, q # p, Counted(q) PROVE Counted(q)'
    BY <1>1, <1>5, PeerSame
  <1>6. ASSUME Counted(p) PROVE Counted(p)'
    <2> PICK m \in [Reports -> Nat], w \in Nat : Fits(p, m, w)
      BY <1>6 DEF Counted
    <2>1. ASSUME NEW k \in Nat, NEW c \in Nat, k + BytesDelta(c, a) <= b
          PROVE  k + BytesDelta(c, x) <= y
      <3>1. x \in Nat /\ y \in Nat
        OBVIOUS
      <3>2. CASE x = a + 1 /\ y = b + 1
        BY <2>1, <3>2 DEF BytesDelta
      <3>3. CASE x = 0 /\ y = b
        BY <2>1, <3>3 DEF BytesDelta
      <3> QED BY <3>2, <3>3
    <2>2. row[p].seen \in Nat /\ \A h \in Reports : report[h].carried[p] \in Nat
      BY TelemetryTyped DEF TelemetryIInv
    <2>3. w + BytesDelta(row[p].seen, x) <= y
      BY <2>1, <2>2 DEF Fits
    <2>4. \A h \in Pending(p) : m[h] + BytesDelta(report[h].carried[p], x) <= y
      BY <2>1, <2>2 DEF Fits, Pending
    <2>5. Pending(p)' = Pending(p) /\ UNCHANGED <<row, report>>
      BY DEF Pending
    <2>6. Fits(p, m, w)'
      BY <1>1, <2>3, <2>4, <2>5 DEF Fits
    <2> QED BY <2>6 DEF Counted
  <1> QED BY <1>2, <1>3, <1>4, <1>5, <1>6, ReportsSame

\* A device moves, a token is minted or installed, and the agent stops waiting.
LEMMA ElsewhereInv ==
    ASSUME TelemetryIInv, TimeOut \/ MintToken \/ Reinstall \/ \E p \in Peers : Relocate(p)
    PROVE  TelemetryIInv'
  <1>1. UNCHANGED <<nodeVars, report, overtaken>>
    BY DEF TimeOut, MintToken, Reinstall, Relocate
  <1>2. /\ minted \in 0 .. MaxFaults /\ token \in 0 .. MaxFaults /\ faults \in 0 .. MaxFaults
        /\ minted <= faults /\ MaxFaults \in Nat /\ row \in [Peers -> DeviceRow]
    BY TelemetryAssumption DEF TelemetryIInv, TelemetryTypeOK
  <1>3. /\ {minted', token', faults'} \subseteq 0 .. MaxFaults /\ minted' <= faults'
        /\ waiting' \in Reports \union {None}
    BY <1>2 DEF TimeOut, MintToken, Reinstall, Relocate, Disturb, TelemetryIInv, TelemetryTypeOK,
                tokenVars
  <1>4. /\ row' \in [Peers -> DeviceRow]
        /\ \A q \in Peers : row'[q].seen = row[q].seen /\ row'[q].cumulative = row[q].cumulative
    <2>1. CASE TimeOut \/ MintToken \/ Reinstall
      BY <1>2, <2>1 DEF TimeOut, MintToken, Reinstall
    <2>2. ASSUME NEW p \in Peers, Relocate(p)
          PROVE  /\ row' \in [Peers -> DeviceRow]
                 /\ \A q \in Peers : row'[q].seen = row[q].seen /\ row'[q].cumulative = row[q].cumulative
      <3>1. row[p] \in DeviceRow /\ row' = [row EXCEPT ![p] = [row[p] EXCEPT !.here = ~row[p].here]]
        BY <1>2, <2>2 DEF Relocate
      <3>2. /\ [row[p] EXCEPT !.here = ~row[p].here] \in DeviceRow
            /\ [row[p] EXCEPT !.here = ~row[p].here].seen = row[p].seen
            /\ [row[p] EXCEPT !.here = ~row[p].here].cumulative = row[p].cumulative
        BY <3>1 DEF DeviceRow
      <3> QED BY <1>2, <3>1, <3>2
    <2> QED BY <2>1, <2>2
  <1>5. TelemetryTypeOK'
    BY <1>1, <1>3, <1>4 DEF TelemetryIInv, TelemetryTypeOK, nodeVars
  <1>6. ASSUME NEW q \in Peers, Counted(q) PROVE Counted(q)'
    BY <1>1, <1>4, <1>6, PeerSame DEF nodeVars
  <1> QED BY <1>1, <1>3, <1>5, <1>6, ReportsSame DEF TelemetryIInv, nodeVars

-----------------------------------------------------------------------------
(* The theorems.                                                           *)

\* Nothing has moved and nothing is reported at the start.
THEOREM TelemetryInitInv == TelemetryInit => TelemetryIInv
  <1> SUFFICES ASSUME TelemetryInit PROVE TelemetryIInv
    OBVIOUS
  <1> USE DEF TelemetryInit
  <1>1. NewRow \in DeviceRow /\ NewRow.seen = 0 /\ NewRow.cumulative = 0
    BY AmountFacts DEF NewRow, DeviceRow
  <1>2. TelemetryTypeOK
    <2>1. {minted, token, faults} \subseteq 0 .. MaxFaults
      BY TelemetryAssumption
    <2>2. /\ counter \in [Peers -> Amount] /\ moved \in [Peers -> Amount]
          /\ row \in [Peers -> DeviceRow] /\ report \in [Reports -> Report]
      BY <1>1, AmountFacts, OffFacts
    <2> QED BY <2>1, <2>2 DEF TelemetryTypeOK
  <1>3. /\ \A p \in Peers : counter[p] <= moved[p]
        /\ minted <= faults
    <2>1. \A p \in Peers : counter[p] = 0 /\ moved[p] = 0
      OBVIOUS
    <2> QED BY <2>1
  <1>4. \A h \in Reports : ShapeOK(h)
    BY OffFacts DEF ShapeOK
  <1>5. Ordered
    BY OffFacts DEF Ordered, Serving
  <1>6. ASSUME NEW p \in Peers PROVE Counted(p)
    <2> DEFINE m == [h \in Reports |-> 0]
    <2>1. m \in [Reports -> Nat] /\ 0 \in Nat
      OBVIOUS
    <2>2. p # None /\ BytesDelta(0, 0) = 0
      BY TelemetryAssumption DEF BytesDelta
    <2>3. Pending(p) = {} /\ \A h \in Reports : report[h].at # p /\ report[h].todo = {}
      BY <2>2, OffFacts DEF Pending
    <2> HIDE DEF m
    <2>4. row[p].seen = 0 /\ row[p].cumulative = 0 /\ counter[p] = 0 /\ moved[p] = 0
      BY <1>1
    <2>5. Fits(p, m, 0)
      BY <2>2, <2>3, <2>4 DEF Fits
    <2> QED BY <2>1, <2>5 DEF Counted
  <1> QED BY <1>2, <1>3, <1>4, <1>5, <1>6 DEF TelemetryIInv

\* Every statement of a report, every step of the node and every fault keeps the
\* invariant.
THEOREM TelemetryStepInv == TelemetryIInv /\ [TelemetryNext]_telemetryVars => TelemetryIInv'
  <1> SUFFICES ASSUME TelemetryIInv, [TelemetryNext]_telemetryVars PROVE TelemetryIInv'
    OBVIOUS
  <1>1. ASSUME NEW h \in Reports, Statement(h) \/ Fail(h) PROVE TelemetryIInv'
    <2>1. CASE Forbid(h) \/ Answer(h) \/ Fail(h)
      BY <2>1, AnsweredInv DEF Forbid, Answer, Fail
    <2> QED BY <1>1, <2>1, AuthoriseInv, ReadRowInv, UpdateRowInv DEF Statement
  <1>2. CASE UNCHANGED telemetryVars
    <2>1. UNCHANGED <<counter, moved, row, minted, token, waiting, report, faults, overtaken>>
      BY <1>2 DEF telemetryVars, nodeVars, tokenVars
    <2>2. \A p \in Peers : Counted(p) => Counted(p)'
      BY <2>1, PeerSame
    <2> QED BY <2>1, <2>2, ReportsSame DEF TelemetryIInv, TelemetryTypeOK
  <1> QED BY <1>1, <1>2, SendInv, CounterInv, ElsewhereInv DEF TelemetryNext, FaultFreeNext

\* The invariant holds throughout.
THEOREM TelemetryInv == TelemetrySpec => []TelemetryIInv
  BY TelemetryInitInv, TelemetryStepInv, PTL DEF TelemetrySpec

\* The rows, the tokens and the reports in flight are well formed.
THEOREM TelemetryTypeCorrect == TelemetrySpec => []TelemetryTypeOK
  <1>1. TelemetryIInv => TelemetryTypeOK
    BY DEF TelemetryIInv
  <1> QED BY <1>1, TelemetryInv, PTL

\* The service counts no more than a peer has moved, for any number of reports that overlap
\* and overwrite each other's rows, unless an older one reads what a newer one wrote.
THEOREM TelemetryNeverOvercounts == TelemetrySpec => []NeverOvercounted
  <1>1. ASSUME TelemetryIInv PROVE NeverOvercounted
    <2> SUFFICES ASSUME ~overtaken, NEW p \in Peers
                 PROVE  row[p].cumulative <= moved[p]
      BY DEF NeverOvercounted
    <2> PICK m \in [Reports -> Nat], w \in Nat : Fits(p, m, w)
      BY <1>1 DEF TelemetryIInv, Counted
    <2>1. row[p].cumulative <= w /\ w + BytesDelta(row[p].seen, counter[p]) <= moved[p]
      BY DEF Fits
    <2>2. row[p].cumulative \in Nat /\ moved[p] \in Nat /\ BytesDelta(row[p].seen, counter[p]) \in Nat
      BY <1>1, TelemetryTyped, DeltaFacts DEF TelemetryIInv
    <2> QED BY <2>1, <2>2
  <1> QED BY <1>1, TelemetryInv, PTL
=============================================================================
