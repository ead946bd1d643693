----------------------------- MODULE NodeAgent -----------------------------
(***************************************************************************)
(* node-agent/agent.py: the agent of each node makes the WireGuard         *)
(* interface follow the control plane.  It has two threads.  Both run      *)
(* reconcile_once, which fetches the allowed peers, then looks at the      *)
(* interface, then changes it a peer at a time; nothing keeps them apart.  *)
(*                                                                         *)
(* The control plane is abstract: the rows of Devices, and the set of the  *)
(* users who are ACTIVE and have minutes left, which metering, checkout    *)
(* and the webhooks change at any moment.  WireGuard is external: an       *)
(* address is routed to one peer at a time, the last one it was given to.  *)
(***************************************************************************)
EXTENDS Devices

VARIABLES
    entitled,   \* the users that the clauses on User and Wallet let through
    present,    \* present[n]: the peers of interface wg0 of node n
    route,      \* route[n][a]: the peer whose allowed-ips are address a
    thread      \* thread[n][t]: the local state of thread t of the agent of n

agentVars == <<present, route, thread>>
vars == <<device, entitled, agentVars>>

Threads == {"report_loop", "reconcile_loop"}

\* "early": told of a dropped peer, and about to reconcile.
Task == [step : {"wait", "early", "fetched", "apply"},
         wanted : [PublicKeys -> Addresses \union {NoAddress}],
         add : SUBSET PublicKeys, remove : SUBSET PublicKeys]

NodeAgentTypeOK ==
    /\ entitled \subseteq Users
    /\ present \in [Nodes -> SUBSET PublicKeys]
    /\ \A n \in Nodes : route[n] \in [Addresses -> present[n] \union {None}]
    /\ thread \in [Nodes -> [Threads -> Task]]

Nothing == [k \in PublicKeys |-> NoAddress]

Waiting == [step |-> "wait", wanted |-> Nothing, add |-> {}, remove |-> {}]

\* The routes without those of peer k.
Unrouted(n, k) == [a \in Addresses |-> IF route[n][a] = k THEN None ELSE route[n][a]]

\* The response of GET /internal/nodes/:nodeId/peers: a key's address, if it is allowed.
PeerSet(n) ==
    [k \in PublicKeys |-> IF k \in AllowedPeers(n, entitled) THEN device[k].address
                                                            ELSE NoAddress]

-----------------------------------------------------------------------------

NodeAgentInit ==
    /\ DevicesInit
    /\ entitled = {}
    /\ present = [n \in Nodes |-> {}]
    /\ route = [n \in Nodes |-> [a \in Addresses |-> None]]
    /\ thread = [n \in Nodes |-> [t \in Threads |-> Waiting]]

(* The control plane.                                                      *)

ChangeDevice == DevicesNext /\ UNCHANGED <<entitled, agentVars>>

\* A purchase, or an account that is ACTIVE again.
Entitle(u) ==
    /\ entitled' = entitled \union {u}
    /\ UNCHANGED <<device, agentVars>>

\* The last minute, a refund, a dispute.
Disentitle(u) ==
    /\ entitled' = entitled \ {u}
    /\ UNCHANGED <<device, agentVars>>

-----------------------------------------------------------------------------
(* The threads.                                                            *)

\* A report of node n takes the last minute of a user who has a peer there, or finds
\* nothing left of one who has run out before, and the response says so.  The row of the
\* peer's key counts, in whatever status it is.
ReportDrops(n, u) ==
    /\ thread[n]["report_loop"].step = "wait"
    /\ \E k \in present[n] : device[k].node = n /\ device[k].user = u
    /\ entitled' = entitled \ {u}
    /\ thread' = [thread EXCEPT ![n]["report_loop"].step = "early"]
    /\ UNCHANGED <<device, present, route>>

\* reconcile_once begins, at the timer or after a report.
Fetch(n, t) ==
    /\ thread[n][t].step = IF t = "reconcile_loop" THEN "wait" ELSE "early"
    /\ thread' = [thread EXCEPT ![n][t].step = "fetched", ![n][t].wanted = PeerSet(n)]
    /\ UNCHANGED <<device, entitled, present, route>>

\* Mutant: the peers that are no longer wanted are left where they are.
LookAddsOnly(n, t) ==
    /\ thread[n][t].step = "fetched"
    /\ LET wanted == {k \in PublicKeys : thread[n][t].wanted[k] # NoAddress}
       IN  thread' = [thread EXCEPT ![n][t].step = "apply", ![n][t].add = wanted \ present[n]]
    /\ UNCHANGED <<device, entitled, present, route>>

\* read_peers, and what it makes of the two loops that follow.
Look(n, t) ==
    /\ thread[n][t].step = "fetched"
    /\ LET wanted == {k \in PublicKeys : thread[n][t].wanted[k] # NoAddress}
       IN  thread' = [thread EXCEPT ![n][t].step = "apply",
                                    ![n][t].add = wanted \ present[n],
                                    ![n][t].remove = present[n] \ wanted]
    /\ UNCHANGED <<device, entitled, present, route>>

\* wg set wg0 peer <key> allowed-ips <address>.
AddPeer(n, t, k) ==
    /\ k \in thread[n][t].add
    /\ present' = [present EXCEPT ![n] = @ \union {k}]
    /\ route' = [route EXCEPT ![n] = [Unrouted(n, k) EXCEPT ![thread[n][t].wanted[k]] = k]]
    /\ thread' = [thread EXCEPT ![n][t].add = @ \ {k}]
    /\ UNCHANGED <<device, entitled>>

\* wg set wg0 peer <key> remove, after the additions.
RemovePeer(n, t, k) ==
    /\ thread[n][t].add = {}
    /\ k \in thread[n][t].remove
    /\ present' = [present EXCEPT ![n] = @ \ {k}]
    /\ route' = [route EXCEPT ![n] = Unrouted(n, k)]
    /\ thread' = [thread EXCEPT ![n][t].remove = @ \ {k}]
    /\ UNCHANGED <<device, entitled>>

EndPass(n, t) ==
    /\ thread[n][t].step = "apply"
    /\ thread[n][t].add = {}
    /\ thread[n][t].remove = {}
    /\ thread' = [thread EXCEPT ![n][t] = Waiting]
    /\ UNCHANGED <<device, entitled, present, route>>

\* Mutant: an exception is not caught, and the thread is no more.
FailForGood(n, t) ==
    /\ thread[n][t].step # "wait"
    /\ thread' = [thread EXCEPT ![n][t] = [Waiting EXCEPT !.step = "dead"]]
    /\ UNCHANGED <<device, entitled, present, route>>

\* A request or a command fails or times out: the loop logs it and waits.
Fail(n, t) ==
    /\ thread[n][t].step # "wait"
    /\ thread' = [thread EXCEPT ![n][t] = Waiting]
    /\ UNCHANGED <<device, entitled, present, route>>

\* The node boots: the interface comes up without peers.
Reboot(n) ==
    /\ present' = [present EXCEPT ![n] = {}]
    /\ route' = [route EXCEPT ![n] = [a \in Addresses |-> None]]
    /\ thread' = [thread EXCEPT ![n] = [t \in Threads |-> Waiting]]
    /\ UNCHANGED <<device, entitled>>

-----------------------------------------------------------------------------

ThreadStep(n, t) ==
    \/ Fetch(n, t)
    \/ Look(n, t)
    \/ \E k \in PublicKeys : AddPeer(n, t, k) \/ RemovePeer(n, t, k)
    \/ EndPass(n, t)

Fault == \E n \in Nodes : Reboot(n) \/ \E t \in Threads : Fail(n, t)

AgentNext ==
    \/ \E u \in Users : Entitle(u) \/ Disentitle(u)
    \/ \E n \in Nodes :
         \/ \E u \in Users : ReportDrops(n, u)
         \/ \E t \in Threads : ThreadStep(n, t)

FaultFreeNext == ChangeDevice \/ AgentNext

NodeAgentNext == FaultFreeNext \/ Fault

NodeAgentSpec == NodeAgentInit /\ [][NodeAgentNext]_vars

\* Both loops go on, and systemd keeps the agent up; faults end at some time.
LoopsGoOn == \A n \in Nodes, t \in Threads : WF_vars(ThreadStep(n, t))

NodeAgentFairSpec == NodeAgentSpec /\ LoopsGoOn /\ <>[][FaultFreeNext]_vars

-----------------------------------------------------------------------------
(* What must hold.                                                         *)

Allowed(n, k) == k \in AllowedPeers(n, entitled)

\* A device that is no longer allowed on a node, because its user has run out or it
\* was revoked or moved, is cut off there for good: no thread that fetched the peers
\* before brings it back for ever.
DisallowedIsDropped ==
    \A n \in Nodes, k \in PublicKeys : <>[]~Allowed(n, k) => <>[](k \notin present[n])

OwnAddresses ==
    {own \in [PublicKeys -> Addresses] : \A k, l \in PublicKeys : own[k] = own[l] => k = l}

\* A device that stays allowed is connected in the end and stays so: neither a thread
\* with an older answer nor a reboot leaves it out.  It is reachable at its address if
\* no device was ever given another one: a peer that is there keeps its allowed-ips.
AllowedIsConnected ==
    \A n \in Nodes, k \in PublicKeys :
        /\ <>[]Allowed(n, k) => <>[](k \in present[n])
        /\ \A own \in OwnAddresses :
              /\ [](\A l \in PublicKeys : device[l].address \in {NoAddress, own[l]})
              /\ <>[]Allowed(n, k)
              => <>[](route[n][own[k]] = k)
=============================================================================
