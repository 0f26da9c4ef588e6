------------------------------ MODULE Presence ------------------------------
(***************************************************************************)
(* Discovery, trust on first use and the contact list: the datagrams of    *)
(* fq-net lib.rs (heartbeat_loop, handle_datagram, sweep_loop), the peer   *)
(* table (peers.rs), the pins of static keys (tofu.rs) and their file      *)
(* (persist.rs), and the part of the application that follows them         *)
(* (fq-core lib.rs: event_pump, on_peer_seen, remove_peer,                 *)
(* refresh_contacts).  Every node runs the same code.                      *)
(*                                                                         *)
(* The signature of the binding between identity and static key is taken   *)
(* to hold: nodes announce themselves, not each other.  A profile is       *)
(* reduced to its status.                                                  *)
(***************************************************************************)
EXTENDS Naturals, Sequences, FiniteSets

CONSTANTS
    Nodes,     \* the nodes of one network
    Statuses,  \* what a user can set: online, busy ...
    Keys,      \* static keys a node may have
    None,      \* no entry, no pin
    Faults,    \* the kinds of fault that may happen
    MaxSpent,  \* bound: what users do, plus faults
    MaxNet,    \* bound: datagrams from one node to another, but for heartbeats
    MaxInbox   \* bound: events that wait for a pump

\* crash: a node stops, without a farewell, and is started again; rekey: its
\* static key is lost while it is down; late: heartbeats of a node that is up
\* do not arrive for the whole time-out; lose, copy: datagrams are lost,
\* delivered twice.
FaultKinds == {"crash", "rekey", "late", "lose", "copy"}

ASSUME PresenceAssumption ==
    /\ Faults \subseteq FaultKinds
    /\ Statuses # {} /\ "offline" \notin Statuses
    /\ Keys # {} /\ None \notin Keys
    /\ MaxSpent \in Nat /\ MaxNet \in Nat /\ MaxInbox \in Nat

Pairs == {np \in Nodes \X Nodes : np[1] # np[2]}
Others(n) == Nodes \ {n}

VARIABLES
    up,       \* the process of a node runs
    status,   \* Profile::status, what the user has set
    key,      \* its static key
    table,    \* PeerTable: what a node knows of another
    pin,      \* TofuStore in memory
    disk,     \* tofu.json
    contact,  \* the row of a contact exists in the table peers
    inbox,    \* events that wait for the pump
    removing, \* remove_peer has deleted the row, not yet the table's entry
    writing,  \* refresh_contacts has a snapshot of the table to write back
    net,      \* datagrams under way
    spent     \* user actions and faults so far

trustVars == <<pin, disk>>
appVars == <<contact, inbox, removing, writing>>
vars == <<up, status, key, table, trustVars, appVars, net, spent>>

PresenceEvent == {"announce", "update", "heartbeat"}

\* A datagram carries the profile of its sender.
Datagram == [from : Nodes, to : Nodes, event : PresenceEvent, key : Keys,
             status : Statuses]

Entry == [status : Statuses \cup {"offline"}, key : Keys, fresh : BOOLEAN]
Seen == [peer : Nodes, first : BOOLEAN]

\* Every variable ranges over the values the code can give it.  What the peer
\* table knows of a node was announced with the pinned key, and a node that is
\* down has nothing in memory.
TypeOK ==
    /\ up \in [Nodes -> BOOLEAN]
    /\ status \in [Nodes -> Statuses]
    /\ key \in [Nodes -> Keys]
    /\ DOMAIN table = Pairs
    /\ \A np \in Pairs :
         \/ table[np] = None
         \/ table[np] \in Entry /\ pin[np] = table[np].key
    /\ pin \in [Pairs -> Keys \cup {None}] /\ disk \in [Pairs -> Keys \cup {None}]
    /\ contact \in [Pairs -> BOOLEAN]
    /\ inbox \in [Nodes -> Seq(Seen)]
    /\ removing \in [Pairs -> BOOLEAN]
    /\ writing \in [Nodes -> SUBSET Nodes]
    /\ net \subseteq Datagram /\ \A d \in net : d.from # d.to
    /\ spent \in 0 .. MaxSpent
    /\ \A n \in Nodes : ~up[n] =>
         inbox[n] = <<>> /\ \A p \in Others(n) : table[<<n, p>>] = None

FirstKeys == [n \in Nodes |-> CHOOSE k \in Keys : TRUE]

Init ==
    /\ up = [n \in Nodes |-> FALSE]
    /\ status = [n \in Nodes |-> CHOOSE s \in Statuses : TRUE]
    /\ key = FirstKeys
    /\ table = [np \in Pairs |-> None]
    /\ pin = [np \in Pairs |-> None] /\ disk = pin
    /\ contact = [np \in Pairs |-> FALSE]
    /\ inbox = [n \in Nodes |-> <<>>]
    /\ removing = [np \in Pairs |-> FALSE]
    /\ writing = [n \in Nodes |-> {}]
    /\ net = {}
    /\ spent = 0

Spend == spent < MaxSpent /\ spent' = spent + 1
Strike(f) == f \in Faults /\ Spend

-----------------------------------------------------------------------------
(* Sending. *)

\* build_announce: the profile as it is now.
Profile(n, p, event, s) ==
    [from |-> n, to |-> p, event |-> event, key |-> key[n], status |-> s]

Room(N) ==
    \A np \in Pairs :
        Cardinality({d \in N : <<d.from, d.to>> = np /\ d.event # "heartbeat"}) <= MaxNet

\* DiscoveryEndpoint::announce: a copy for every other node.
Broadcast(n, event, s) ==
    /\ net' = net \cup {Profile(n, p, event, s) : p \in Others(n)}
    /\ Room(net')

\* announce_now, announce_to, the scan of the subnet.
Announce(n) ==
    /\ up[n] /\ Spend
    /\ Broadcast(n, "announce", status[n])
    /\ UNCHANGED <<up, status, key, table, trustVars, appVars>>

\* heartbeat_loop
Heartbeat(n) ==
    /\ up[n]
    /\ Broadcast(n, "heartbeat", status[n])
    /\ UNCHANGED <<up, status, key, table, trustVars, appVars, spent>>

SetStatus(n, s) ==
    /\ up[n] /\ s # status[n] /\ Spend
    /\ status' = [status EXCEPT ![n] = s]
    /\ Broadcast(n, "update", s)
    /\ UNCHANGED <<up, key, table, trustVars, appVars>>

-----------------------------------------------------------------------------
(* Receiving: handle_datagram. *)

\* mutant: a key that changed is pinned like a new one
AcceptsAny(d) == TRUE

\* TofuStore::verify: the first key is accepted, later ones only if they equal it.
Accepts(d) == pin[<<d.to, d.from>>] \in {None, d.key}

\* mutant: the first key is not pinned
PinnedNever(d) == pin

Pinned(d) == [pin EXCEPT ![<<d.to, d.from>>] = d.key]

\* mutant: an announcement is answered with an announcement
AnswerAnnounces(d, old) ==
    IF old = None \/ (old.status = d.status /\ d.event = "announce")
    THEN {Profile(d.to, d.from, "announce", status[d.to])} ELSE {}

\* What is sent back: an announcement to a new node, and an update to one that
\* is known, has announced itself and has nothing new to say.
Answer(d, old) ==
    IF old = None
    THEN {Profile(d.to, d.from, "announce", status[d.to])}
    ELSE IF old.status = d.status /\ d.event = "announce"
         THEN {Profile(d.to, d.from, "update", status[d.to])}
         ELSE {}

\* PeerTable::apply returns Discovered or Updated, which the pump hears of.
News(d, old) ==
    IF old = None \/ old.status # d.status
    THEN <<[peer |-> d.from, first |-> pin[<<d.to, d.from>>] = None]>>
    ELSE <<>>

Receive(d) ==
    LET n == d.to p == d.from old == table[<<n, p>>] IN
    /\ up[n]
    /\ Accepts(d)
    /\ pin' = Pinned(d)
    /\ table' = [table EXCEPT ![<<n, p>>] =
                   [status |-> d.status, key |-> d.key, fresh |-> TRUE]]
    /\ Len(inbox[n] \o News(d, old)) <= MaxInbox
    /\ inbox' = [inbox EXCEPT ![n] = @ \o News(d, old)]
    /\ \E copied \in BOOLEAN :
         LET rest == IF copied THEN net ELSE net \ {d} IN
         /\ IF copied THEN Strike("copy") ELSE UNCHANGED spent
         \* an answer that finds no room is lost
         /\ net' = IF Room(rest \cup Answer(d, old)) THEN rest \cup Answer(d, old) ELSE rest
    /\ UNCHANGED <<up, status, key, disk, contact, removing, writing>>

\* A key that changed: a TrustWarning, and the announcement is refused.  A node
\* that is down receives nothing.
Refuse(d) ==
    /\ ~up[d.to] \/ ~Accepts(d)
    /\ net' = net \ {d}
    /\ UNCHANGED <<up, status, key, table, trustVars, appVars, spent>>

Lose(d) ==
    /\ "lose" \in Faults
    /\ net' = net \ {d}
    /\ UNCHANGED <<up, status, key, table, trustVars, appVars, spent>>

-----------------------------------------------------------------------------
(* Time. *)

\* peer_timeout has passed since the last datagram that was accepted.
Age(n, p) ==
    /\ table[<<n, p>>] # None /\ table[<<n, p>>].fresh
    /\ IF up[p] /\ pin[<<n, p>>] = key[p] THEN Strike("late") ELSE UNCHANGED spent
    /\ table' = [table EXCEPT ![<<n, p>>].fresh = FALSE]
    /\ UNCHANGED <<up, status, key, trustVars, appVars, net>>

\* mutant: only peers that are online are swept, not those that are busy
SweepOnline(n, p) ==
    /\ table[<<n, p>>] # None /\ ~table[<<n, p>>].fresh
    /\ table[<<n, p>>].status = "online"
    /\ table' = [table EXCEPT ![<<n, p>>].status = "offline"]
    /\ UNCHANGED <<up, status, key, trustVars, appVars, net, spent>>

\* PeerTable::sweep
Sweep(n, p) ==
    /\ table[<<n, p>>] # None /\ ~table[<<n, p>>].fresh
    /\ table[<<n, p>>].status # "offline"
    /\ table' = [table EXCEPT ![<<n, p>>].status = "offline"]
    /\ UNCHANGED <<up, status, key, trustVars, appVars, net, spent>>

-----------------------------------------------------------------------------
(* The application. *)

\* event_pump, PeerDiscovered and PeerUpdated: after a first contact all pins
\* are saved, and the contact gets its row.
HandleSeen(n) ==
    /\ inbox[n] # <<>>
    /\ LET e == Head(inbox[n]) IN
         /\ disk' = IF e.first
                    THEN [np \in Pairs |-> IF np[1] = n THEN pin[np] ELSE disk[np]]
                    ELSE disk
         /\ contact' = [contact EXCEPT ![<<n, e.peer>>] = TRUE]
    /\ inbox' = [inbox EXCEPT ![n] = Tail(@)]
    /\ UNCHANGED <<up, status, key, table, pin, removing, writing, net, spent>>

\* remove_peer deletes the row ...
RemoveRow(n, p) ==
    /\ up[n] /\ contact[<<n, p>>] /\ ~removing[<<n, p>>] /\ Spend
    /\ contact' = [contact EXCEPT ![<<n, p>>] = FALSE]
    /\ removing' = [removing EXCEPT ![<<n, p>>] = TRUE]
    /\ UNCHANGED <<up, status, key, table, trustVars, inbox, writing, net>>

\* mutant: the entry of the peer table stays
ForgetNothing(n, p) ==
    /\ removing[<<n, p>>]
    /\ removing' = [removing EXCEPT ![<<n, p>>] = FALSE]
    /\ UNCHANGED <<up, status, key, table, trustVars, contact, inbox, writing, net, spent>>

\* ... and then makes the network layer forget the peer.
Forget(n, p) ==
    /\ removing[<<n, p>>]
    /\ table' = [table EXCEPT ![<<n, p>>] = None]
    /\ removing' = [removing EXCEPT ![<<n, p>>] = FALSE]
    /\ UNCHANGED <<up, status, key, trustVars, contact, inbox, writing, net, spent>>

\* refresh_contacts announces, takes a snapshot of the peer table ...
RefreshStart(n) ==
    /\ up[n] /\ Spend
    /\ Broadcast(n, "announce", status[n])
    /\ writing' = [writing EXCEPT ![n] = {p \in Others(n) : table[<<n, p>>] # None}]
    /\ UNCHANGED <<up, status, key, table, trustVars, contact, inbox, removing>>

\* ... and writes it back.
RefreshWrite(n) ==
    /\ writing[n] # {}
    /\ contact' = [np \in Pairs |-> contact[np] \/ (np[1] = n /\ np[2] \in writing[n])]
    /\ writing' = [writing EXCEPT ![n] = {}]
    /\ UNCHANGED <<up, status, key, table, trustVars, inbox, removing, net, spent>>

\* The process ends; load_or_create_static_keys may find no file afterwards.
Crash(n) ==
    /\ up[n] /\ Strike("crash")
    /\ \/ UNCHANGED key
       \/ /\ "rekey" \in Faults /\ key = FirstKeys \* bound: one key is lost
          /\ \E k \in Keys : key' = [key EXCEPT ![n] = k]
    /\ up' = [up EXCEPT ![n] = FALSE]
    /\ table' = [np \in Pairs |-> IF np[1] = n THEN None ELSE table[np]]
    /\ inbox' = [inbox EXCEPT ![n] = <<>>]
    /\ removing' = [np \in Pairs |-> np[1] # n /\ removing[np]]
    /\ writing' = [writing EXCEPT ![n] = {}]
    /\ UNCHANGED <<status, trustVars, contact, net>>

\* mutant: the pins start empty
StartUnpinned(n) ==
    /\ ~up[n]
    /\ Broadcast(n, "announce", status[n])
    /\ up' = [up EXCEPT ![n] = TRUE]
    /\ pin' = [np \in Pairs |-> IF np[1] = n THEN None ELSE pin[np]]
    /\ UNCHANGED <<status, key, table, disk, appVars, spent>>

\* App::start and Node::start: the pins are those of the file, and the node
\* announces itself.
Start(n) ==
    /\ ~up[n]
    /\ Broadcast(n, "announce", status[n])
    /\ up' = [up EXCEPT ![n] = TRUE]
    /\ pin' = [np \in Pairs |-> IF np[1] = n THEN disk[np] ELSE pin[np]]
    /\ UNCHANGED <<status, key, table, disk, appVars, spent>>

-----------------------------------------------------------------------------
Next ==
    \/ \E n \in Nodes :
         \/ Announce(n) \/ Heartbeat(n) \/ HandleSeen(n)
         \/ RefreshStart(n) \/ RefreshWrite(n)
         \/ Crash(n) \/ Start(n)
         \/ \E s \in Statuses : SetStatus(n, s)
    \/ \E d \in net : Receive(d) \/ Refuse(d) \/ Lose(d)
    \/ \E np \in Pairs :
         \/ Age(np[1], np[2]) \/ Sweep(np[1], np[2])
         \/ RemoveRow(np[1], np[2]) \/ Forget(np[1], np[2])

Spec == Init /\ [][Next]_vars

Arrive(d) == Receive(d) \/ Refuse(d)

\* The tickers and tasks of a node go on; of infinitely many datagrams from one
\* node to another infinitely many arrive, and none is under way for ever.
Fairness ==
    /\ \A n \in Nodes : WF_vars(Heartbeat(n)) /\ WF_vars(HandleSeen(n))
    /\ \A np \in Pairs :
         /\ SF_vars(\E d \in net : <<d.to, d.from>> = np /\ Arrive(d))
         /\ WF_vars(Age(np[1], np[2])) /\ WF_vars(Sweep(np[1], np[2]))
         /\ WF_vars(Forget(np[1], np[2]))
    /\ SF_vars(\E d \in net : d.event # "heartbeat" /\ Arrive(d))

FairSpec == Spec /\ Fairness
-----------------------------------------------------------------------------
(* Properties. *)

FirstPending(n) == \E i \in DOMAIN inbox[n] : inbox[n][i].first

\* A pin that is not in the file is about to be written: a first contact waits
\* for the pump, whose handler saves every pin there is (handle_datagram pins,
\* event_pump saves).
PinsSaved ==
    \A np \in Pairs :
        up[np[1]] /\ pin[np] # disk[np] => disk[np] = None /\ FirstPending(np[1])

\* A key in the file of pins is never replaced, whatever nodes announce and
\* however they restart (TofuStore::verify, save_tofu, load_tofu).
PinsFinal == [][\A np \in Pairs : disk[np] # None => disk'[np] = disk[np]]_disk

\* Whoever is in the peer table is in the list of contacts, or will be as soon
\* as the pump or remove_peer goes on.  The table reports a peer only when it
\* changes, so a row that is missing otherwise would never come back
\* (remove_peer, on_peer_seen, refresh_contacts).
ContactListed ==
    \A n \in Nodes : \A p \in Others(n) :
        table[<<n, p>>] # None =>
            \/ contact[<<n, p>>] \/ removing[<<n, p>>]
            \/ \E i \in DOMAIN inbox[n] : inbox[n][i].peer = p

\* Answers do not answer each other for ever: once users, faults and restarts
\* are quiet, only heartbeats are under way (handle_datagram).
NoStorm == <>[](\A d \in net : d.event = "heartbeat")

\* In the end every running node sees the others as they are: a node that is up
\* with the status its user has set, and as a contact, also if it was removed;
\* a node that is down as offline.  Only a node whose key has changed remains
\* unseen (heartbeat_loop, handle_datagram, sweep_loop).
ViewsConverge ==
    <>[](\A n \in Nodes : \A p \in Others(n) :
           up[n] =>
             IF ~up[p] \/ pin[<<n, p>>] \notin {None, key[p]}
             THEN table[<<n, p>>] = None \/ table[<<n, p>>].status = "offline"
             ELSE /\ table[<<n, p>>] # None /\ table[<<n, p>>].status = status[p]
                  /\ contact[<<n, p>>])

=============================================================================
