----------------------------- MODULE Telemetry -----------------------------
(***************************************************************************)
(* The report of a node: read_peers and report_loop of agent.py, the       *)
(* bearer token of lib/nodeAuth.ts with its rotation, the report route of  *)
(* routes/internal.ts, and the part of processNodeReport that turns        *)
(* absolute counters into bytes used.  Metering has what follows for the   *)
(* wallet; here billing returns or throws.                                 *)
(*                                                                         *)
(* The agent has one report thread, but a report it timed out on may still *)
(* be served while the next one is.  The two directions of a peer's        *)
(* counters start and reset together and are one counter here.             *)
(***************************************************************************)
EXTENDS Integers

CONSTANTS
    Peers,      \* the WireGuard peers of the node
    Reports,    \* the reports that may be served at once
    MaxMoved,   \* bound: MaxMoved[p] is all the traffic of peer p
    MaxFaults,  \* bound: counter resets, rotations and moves of a device
    None

ASSUME TelemetryAssumption ==
    /\ MaxMoved \in [Peers -> Nat]
    /\ MaxFaults \in Nat
    /\ None \notin Peers \union Reports

VARIABLES
    counter,   \* counter[p]: what `wg show` says
    moved,     \* moved[p]: what p has moved since it was installed (history)
    row,       \* row[p]: the telemetry of the Device row with p's key
    minted,    \* agentTokenHash: which of the tokens minted so far is good
    token,     \* the token that the agent runs with
    waiting,   \* the report that the agent waits for an answer to
    report,    \* report[h]: the report that handler h serves
    faults,    \* how many of MaxFaults are used
    overtaken  \* an older report read a row that a newer one wrote (history)

nodeVars == <<counter, moved>>
tokenVars == <<minted, token>>
telemetryVars == <<nodeVars, row, tokenVars, waiting, report, faults, overtaken>>

Amount == {0} \union UNION {0 .. MaxMoved[p] : p \in Peers}

\* here: the device is placed on this node.
DeviceRow == [seen : Amount, cumulative : Nat, here : BOOLEAN]

\* carried: the counters sent; at, seen, cumulative: the peer at work and its row
\* as it was read; newer: the reports sent after this one, late: the peers to
\* come that they have written.
Report == [step : {"off", "sent", "peers", "update"}, token : 0 .. MaxFaults,
           carried : [Peers -> Amount], todo : SUBSET Peers,
           at : Peers \union {None}, seen : Amount, cumulative : Nat,
           newer : SUBSET Reports, late : SUBSET Peers]

NewRow == [seen |-> 0, cumulative |-> 0, here |-> TRUE]

Off == [step |-> "off", token |-> 0, carried |-> [p \in Peers |-> 0], todo |-> {},
        at |-> None, seen |-> 0, cumulative |-> 0, newer |-> {}, late |-> {}]

TelemetryTypeOK ==
    /\ counter \in [Peers -> Amount]
    /\ moved \in [Peers -> Amount]
    /\ row \in [Peers -> DeviceRow]
    /\ {minted, token, faults} \subseteq 0 .. MaxFaults
    /\ waiting \in Reports \union {None}
    /\ report \in [Reports -> Report]
    /\ overtaken \in BOOLEAN

TelemetryInit ==
    /\ counter = [p \in Peers |-> 0]
    /\ moved = counter
    /\ row = [p \in Peers |-> NewRow]
    /\ minted = 0 /\ token = 0 /\ faults = 0
    /\ waiting = None
    /\ report = [h \in Reports |-> Off]
    /\ overtaken = FALSE

-----------------------------------------------------------------------------
(* The node and its agent.                                                 *)

Traffic(p) ==
    /\ moved[p] < MaxMoved[p]
    /\ counter' = [counter EXCEPT ![p] = @ + 1]
    /\ moved' = [moved EXCEPT ![p] = @ + 1]
    /\ UNCHANGED <<row, tokenVars, waiting, report, faults, overtaken>>

Serving == {h \in Reports : report[h].step # "off"}

\* A report in flight learns that a newer one is.
Send ==
    /\ waiting = None
    /\ Serving # Reports
    /\ LET h == CHOOSE g \in Reports \ Serving : TRUE IN
       /\ waiting' = h
       /\ report' = [g \in Reports |->
              IF g = h THEN [Off EXCEPT !.step = "sent", !.token = token, !.carried = counter,
                                        !.todo = Peers]
              ELSE IF g \in Serving THEN [report[g] EXCEPT !.newer = @ \union {h}]
              ELSE report[g]]
    /\ UNCHANGED <<nodeVars, row, tokenVars, faults, overtaken>>

\* Report h is answered, with a success or an error, or it is lost.
Answered(h) ==
    /\ report' = [g \in Reports |->
           IF g = h THEN Off ELSE [report[g] EXCEPT !.newer = @ \ {h}]]
    /\ waiting' = IF waiting = h THEN None ELSE waiting

-----------------------------------------------------------------------------
(* POST /api/internal/nodes/:nodeId/report.                                *)

Authorised(h) == report[h].token = minted

Authorise(h) ==
    /\ report[h].step = "sent"
    /\ Authorised(h)
    /\ report' = [report EXCEPT ![h].step = "peers", ![h].token = 0]
    /\ UNCHANGED <<nodeVars, row, tokenVars, waiting, faults, overtaken>>

Forbid(h) ==
    /\ report[h].step = "sent"
    /\ ~Authorised(h)
    /\ Answered(h)
    /\ UNCHANGED <<nodeVars, row, tokenVars, faults, overtaken>>

\* The peers come in the order of the dump.
ReadRow(h) ==
    /\ report[h].step = "peers" /\ report[h].todo # {}
    /\ LET p == CHOOSE p \in report[h].todo : TRUE IN
       IF row[p].here
       THEN /\ report' = [report EXCEPT ![h].step = "update", ![h].at = p,
                                        ![h].todo = @ \ {p}, ![h].late = @ \ {p},
                                        ![h].seen = row[p].seen,
                                        ![h].cumulative = row[p].cumulative]
            /\ overtaken' = (overtaken \/ p \in report[h].late)
       ELSE /\ report' = [report EXCEPT ![h].todo = @ \ {p}, ![h].late = @ \ {p}]
            /\ UNCHANGED overtaken
    /\ UNCHANGED <<nodeVars, row, tokenVars, waiting, faults>>

\* Mutant: every counter is counted in full.
BytesDeltaAbsolute(previous, current) == current

BytesDelta(previous, current) == IF current < previous THEN current ELSE current - previous

\* Written from what was read, whatever the row is by now.  With a fresh handshake
\* and QUALIFYING_BYTES in `cumulative` the peer is then billed, or else its session
\* may be closed as idle (Metering).  Either may throw, which is Fail.
UpdateRow(h) ==
    /\ report[h].step = "update"
    /\ LET r == report[h] IN
       row' = [row EXCEPT ![r.at].seen = r.carried[r.at],
                          ![r.at].cumulative = r.cumulative + BytesDelta(r.seen, r.carried[r.at])]
    /\ report' = [g \in Reports |->
           IF g = h THEN [report[h] EXCEPT !.step = "peers", !.at = None,
                                           !.seen = 0, !.cumulative = 0,
                                           !.carried[report[h].at] = 0]
           ELSE IF h \in report[g].newer
           THEN [report[g] EXCEPT !.late = @ \union ({report[h].at} \intersect report[g].todo)]
           ELSE report[g]]
    /\ UNCHANGED <<nodeVars, tokenVars, waiting, faults, overtaken>>

\* Mutant: the handler ends without an answer.
AnswerNothing(h) ==
    /\ report[h].step = "peers" /\ report[h].todo = {}
    /\ report' = [report EXCEPT ![h] = Off]
    /\ UNCHANGED <<nodeVars, row, tokenVars, waiting, faults, overtaken>>

Answer(h) ==
    /\ report[h].step = "peers" /\ report[h].todo = {}
    /\ Answered(h)
    /\ UNCHANGED <<nodeVars, row, tokenVars, faults, overtaken>>

Statement(h) ==
    Authorise(h) \/ Forbid(h) \/ ReadRow(h) \/ UpdateRow(h) \/ Answer(h)

-----------------------------------------------------------------------------
(* Faults.                                                                 *)

\* The report is lost on the way, or one of its statements throws: the peers it
\* has not come to yet are left to the next report.
Fail(h) ==
    /\ h \in Serving
    /\ Answered(h)
    /\ UNCHANGED <<nodeVars, row, tokenVars, faults, overtaken>>

\* HTTP_TIMEOUT: the agent goes on, the server does too.
TimeOut ==
    /\ waiting # None
    /\ waiting' = None
    /\ UNCHANGED <<nodeVars, row, tokenVars, report, faults, overtaken>>

Disturb == faults < MaxFaults /\ faults' = faults + 1

\* The peer is removed and added again, or the node reboots.
Reset(p) ==
    /\ Disturb
    /\ counter' = [counter EXCEPT ![p] = 0]
    /\ UNCHANGED <<moved, row, tokenVars, waiting, report, overtaken>>

\* Provisioned on another node, or here again: the telemetry stays as it was.
Relocate(p) ==
    /\ Disturb
    /\ row' = [row EXCEPT ![p].here = ~@]
    /\ UNCHANGED <<nodeVars, tokenVars, waiting, report, overtaken>>

\* node-token.ts or the dev route: the old token stops working at once.
MintToken ==
    /\ Disturb
    /\ minted' = minted + 1
    /\ UNCHANGED <<nodeVars, row, token, waiting, report, overtaken>>

\* The operator installs the agent with the new token and restarts it.
Reinstall ==
    /\ token # minted
    /\ token' = minted
    /\ waiting' = None
    /\ UNCHANGED <<nodeVars, row, minted, report, faults, overtaken>>

FaultFreeNext ==
    \/ Reinstall \/ Send
    \/ \E h \in Reports : Statement(h)

TelemetryNext ==
    \/ FaultFreeNext \/ TimeOut \/ MintToken
    \/ \E p \in Peers : Traffic(p) \/ Reset(p) \/ Relocate(p)
    \/ \E h \in Reports : Fail(h)

TelemetrySpec ==
    /\ TelemetryInit /\ [][TelemetryNext]_telemetryVars
    /\ WF_telemetryVars(Reinstall)
    /\ WF_telemetryVars(Send)
    /\ \A h \in Reports : WF_telemetryVars(Statement(h))

-----------------------------------------------------------------------------
(* Properties.                                                             *)

\* The service never counts more than a peer has moved, however reports overlap
\* and overwrite each other's rows and counters reset, unless an older report reads
\* what a newer one wrote: so nobody is charged who only has the VPN installed
\* (meteringService.ts, rules 1 and 2).
NeverOvercounted ==
    ~overtaken => \A p \in Peers : row[p].cumulative <= moved[p]

\* When traffic and faults are over, every report that was cut short, refused or
\* overwritten is made up for: the row of each peer here shows its counter, and what
\* was counted is all that the peer moved, unless its counter was reset, it was
\* elsewhere or an older report was the last to write (agent.py, read_peers: "a
\* restart loses nothing").
CountersCatchUp ==
    <>[][FaultFreeNext]_telemetryVars =>
        <>[](\A p \in Peers :
                /\ row[p].here => row[p].seen = counter[p]
                /\ faults = 0 /\ ~overtaken => row[p].cumulative = moved[p])
=============================================================================
