------------------------------- MODULE Avatars -------------------------------
(***************************************************************************)
(* How two nodes keep each other's avatar (fq-core lib.rs, the table       *)
(* peer_avatars of fq-store).  A node announces the hash of its image; the *)
(* pump of the other compares it with its cache once a second and asks for *)
(* the image, a limited number of times.  A request carries the image of   *)
(* its sender, and after a change it is pushed the same way.  Connections  *)
(* die with what is under way, and answers come late.                      *)
(*                                                                         *)
(* An image is its hash.  Who waits for how long before it asks is left to *)
(* chance, with what depends on it: which node asks first, the back-off    *)
(* and the jitter.                                                         *)
(***************************************************************************)
EXTENDS Naturals, Sequences

CONSTANTS
    Images,           \* the images users choose
    Big,              \* those that are larger than AVATAR_MAX_BYTES
    None,             \* no image
    Unknown,          \* the peer is not in the table of peers
    AVATAR_RETRY_MAX,
    Full,             \* the nodes whose disk is full
    Users,            \* the nodes whose users change their images
    Faults,           \* the kinds of fault that may happen
    MaxFaults,        \* bound: how many of them
    MaxChanges        \* bound: how often users change their images

\* break: a connection dies; refuse: a dial fails; restart: a node restarts.
FaultKinds == {"break", "refuse", "restart"}

ASSUME AvatarsAssumption ==
    /\ Big \subseteq Images
    /\ None \notin Images /\ Unknown \notin Images \cup {None}
    /\ Users \cup Full \subseteq {"a", "b"}
    /\ Faults \subseteq FaultKinds
    /\ {AVATAR_RETRY_MAX, MaxFaults, MaxChanges} \subseteq Nat

Nodes == {"a", "b"}
Peer(n) == IF n = "a" THEN "b" ELSE "a"

VARIABLES
    file,      \* the file avatar.png of each node
    announced, \* the hash in its announcements
    changing,  \* what a call has still to do: "idle", "announce", "push"
    seen,      \* the hash in the entry of the peer in the table of peers
    cache,     \* the row of the peer in peer_avatars
    pull,      \* avatar_pulls: the state of asking for the image of the peer
    answers,   \* tasks that are about to send an image, and how many
    wire,      \* what is under way to each node
    changes,   \* changes so far
    faults     \* faults so far

localVars == <<file, announced, changing, changes>>
vars == <<localVars, seen, cache, pull, answers, wire, faults>>

Pull == [sha : Images, tries : 0 .. AVATAR_RETRY_MAX]

NoPull == [sha |-> None, tries |-> 0]

Message ==
    [kind : {"request"}, known : Images \cup {None}, image : (Images \ Big) \cup {None}]
    \cup [kind : {"reply"}, known : {None}, image : Images]

Request(known, mine) == [kind |-> "request", known |-> known, image |-> mine]
Reply(image) == [kind |-> "reply", known |-> None, image |-> image]

\* Every variable ranges over the values the code can give it.  An image is asked
\* for only after it was announced, and no more than AVATAR_RETRY_MAX times.
TypeOK ==
    /\ file \in [Nodes -> Images \cup {None}]
    /\ announced \in [Nodes -> Images \cup {None}]
    /\ changing \in [Nodes -> {"idle", "announce", "push"}]
    /\ seen \in [Nodes -> Images \cup {None, Unknown}]
    /\ cache \in [Nodes -> Images \cup {None}]
    /\ pull \in [Nodes -> Pull \cup {NoPull}]
    /\ answers \in [Nodes -> [Images -> Nat]]
    /\ wire \in [Nodes -> Seq(Message)]
    /\ changes \in 0 .. MaxChanges
    /\ faults \in 0 .. MaxFaults

Init ==
    /\ file \in [Nodes -> Images \cup {None}]
    /\ announced = file
    /\ changing = [n \in Nodes |-> "idle"]
    /\ seen = [n \in Nodes |-> Unknown]
    /\ cache = [n \in Nodes |-> None]
    /\ pull = [n \in Nodes |-> NoPull]
    /\ answers = [n \in Nodes |-> [i \in Images |-> 0]]
    /\ wire = [n \in Nodes |-> <<>>]
    /\ changes = 0 /\ faults = 0

Fault(kind) == kind \in Faults /\ faults < MaxFaults /\ faults' = faults + 1

-----------------------------------------------------------------------------
(* The user. *)

\* The file is written, or removed by clear_avatar, ...
Change(n, i) ==
    /\ n \in Users /\ changing[n] = "idle" /\ changes < MaxChanges /\ i # file[n]
    /\ changes' = changes + 1
    /\ file' = [file EXCEPT ![n] = i]
    /\ changing' = [changing EXCEPT ![n] = "announce"]
    /\ UNCHANGED <<announced, seen, cache, pull, answers, wire, faults>>

\* ... reload_avatar or clear_avatar announces what is there, ...
SetHash(n) ==
    /\ changing[n] = "announce"
    /\ announced' = [announced EXCEPT ![n] = file[n]]
    /\ changing' = [changing EXCEPT ![n] = "push"]
    /\ UNCHANGED <<file, changes, seen, cache, pull, answers, wire, faults>>

\* mutant: without the limit
PayloadAny(n) == file[n]

\* local_avatar_payload
Payload(n) == IF file[n] \in Big THEN None ELSE file[n]

\* A request reaches the queue of the connection, or the dial fails.
Ask(n) ==
    \/ /\ wire' = [wire EXCEPT ![Peer(n)] = Append(@, Request(cache[n], Payload(n)))]
       /\ UNCHANGED faults
    \/ Fault("refuse") /\ UNCHANGED wire

\* ... and push_avatar sends it to the peers that are online.
Push(n) ==
    /\ changing[n] = "push"
    /\ changing' = [changing EXCEPT ![n] = "idle"]
    /\ IF seen[n] = Unknown THEN UNCHANGED <<wire, faults>> ELSE Ask(n)
    /\ UNCHANGED <<file, announced, changes, seen, cache, pull, answers>>

-----------------------------------------------------------------------------
(* The network. *)

\* An announcement arrives; heartbeats repeat those that were lost.
Announce(n) ==
    /\ seen[Peer(n)] # announced[n]
    /\ seen' = [seen EXCEPT ![Peer(n)] = announced[n]]
    /\ UNCHANGED <<localVars, cache, pull, answers, wire, faults>>

\* The connection dies with what is under way, in both directions.
Break ==
    /\ Fault("break")
    /\ \E n \in Nodes : wire[n] # <<>>
    /\ wire' = [n \in Nodes |-> <<>>]
    /\ UNCHANGED <<localVars, seen, cache, pull, answers>>

\* A node restarts: the file and the cache stay.
Restart(n) ==
    /\ Fault("restart")
    /\ announced' = [announced EXCEPT ![n] = file[n]]
    /\ changing' = [changing EXCEPT ![n] = "idle"]
    /\ seen' = [seen EXCEPT ![n] = Unknown]
    /\ pull' = [pull EXCEPT ![n] = NoPull]
    /\ answers' = [answers EXCEPT ![n] = [i \in Images |-> 0]]
    /\ wire' = [m \in Nodes |-> <<>>]
    /\ UNCHANGED <<file, changes, cache>>

-----------------------------------------------------------------------------
(* The pump. *)

\* The peer has no image any more: the cache is emptied.
PeerRemoved(n) ==
    /\ seen[n] = None /\ cache[n] # None
    /\ cache' = [cache EXCEPT ![n] = None]
    /\ pull' = [pull EXCEPT ![n] = NoPull]
    /\ UNCHANGED <<localVars, seen, answers, wire, faults>>

\* The image is here.
PullDone(n) ==
    /\ seen[n] \in Images /\ cache[n] = seen[n] /\ pull[n] # NoPull
    /\ pull' = [pull EXCEPT ![n] = NoPull]
    /\ UNCHANGED <<localVars, seen, cache, answers, wire, faults>>

\* mutant: an image that was announced later goes on with the old count
TargetKeepsCount(n) == [sha |-> seen[n], tries |-> pull[n].tries]

\* mutant: every round starts counting anew
TargetForgets(n) == [sha |-> seen[n], tries |-> 0]

\* The state of asking for the image that is announced now.
Target(n) == IF pull[n].sha = seen[n] THEN pull[n] ELSE [sha |-> seen[n], tries |-> 0]

\* What was under way has arrived, and the announcement is up to date.
Settled(n) ==
    /\ \A m \in Nodes : wire[m] = <<>> /\ \A i \in Images : answers[m][i] = 0
    /\ seen[n] = announced[Peer(n)] /\ changing[Peer(n)] # "announce"

\* retry_avatars, when it is time: the image is asked for once more.  A dozen
\* attempts take about a minute: all but the first meet a settled network.
Retry(n) ==
    /\ seen[n] \in Images /\ cache[n] # seen[n]
    /\ Target(n).tries < AVATAR_RETRY_MAX
    /\ Target(n).tries > 0 => Settled(n)
    /\ pull' = [pull EXCEPT ![n] = [Target(n) EXCEPT !.tries = @ + 1]]
    /\ Ask(n)
    /\ UNCHANGED <<localVars, seen, cache, answers>>

\* put_peer_avatar, whose failure is only logged.
Cached(n, i) == IF i = None \/ n \in Full THEN cache ELSE [cache EXCEPT ![n] = i]

\* event_pump, AvatarRequest: what came with it is kept, and a task answers with
\* the own image when the other does not have it.
HandleRequest(n) ==
    LET m == Head(wire[n]) IN
    /\ wire[n] # <<>> /\ m.kind = "request"
    /\ wire' = [wire EXCEPT ![n] = Tail(@)]
    /\ cache' = Cached(n, m.image)
    /\ answers' = IF file[n] \in {None, m.known} THEN answers
                  ELSE [answers EXCEPT ![n][file[n]] = @ + 1]
    /\ UNCHANGED <<localVars, seen, pull, faults>>

\* The task sends it, or the dial fails.
Answer(n, i) ==
    /\ answers[n][i] > 0
    /\ answers' = [answers EXCEPT ![n][i] = @ - 1]
    /\ \/ wire' = [wire EXCEPT ![Peer(n)] = Append(@, Reply(i))] /\ UNCHANGED faults
       \/ Fault("refuse") /\ UNCHANGED wire
    /\ UNCHANGED <<localVars, seen, cache, pull>>

\* event_pump, AvatarReply
HandleReply(n) ==
    LET m == Head(wire[n]) IN
    /\ wire[n] # <<>> /\ m.kind = "reply"
    /\ wire' = [wire EXCEPT ![n] = Tail(@)]
    /\ cache' = Cached(n, m.image)
    /\ UNCHANGED <<localVars, seen, pull, answers, faults>>

-----------------------------------------------------------------------------
\* What the user's call, the pump, the tasks and the network do by themselves.
Proceed(n) ==
    \/ SetHash(n) \/ Push(n)
    \/ PeerRemoved(n) \/ PullDone(n) \/ Retry(n)
    \/ HandleRequest(n) \/ HandleReply(n)
    \/ \E i \in Images : Answer(n, i)

Next ==
    \/ \E n \in Nodes :
         \/ Proceed(n) \/ Announce(n) \/ Restart(n)
         \/ \E i \in Images \cup {None} : Change(n, i)
    \/ Break

Spec == Init /\ [][Next]_vars

\* Announcements get through at last, calls return, the pump ticks, tasks are
\* scheduled and connections deliver.
FairSpec ==
    /\ Spec
    /\ \A n \in Nodes :
         /\ WF_vars(Announce(n))
         /\ WF_vars(SetHash(n) \/ Push(n))
         /\ WF_vars(PeerRemoved(n)) /\ WF_vars(PullDone(n)) /\ WF_vars(Retry(n))
         /\ WF_vars(HandleRequest(n) \/ HandleReply(n))
         /\ \A i \in Images : WF_vars(Answer(n, i))

-----------------------------------------------------------------------------
(* Properties. *)

\* When nobody changes an image any more each node that can store it shows the
\* one the other has, or none, although answers that were under way bring back
\* older ones and some messages are lost (retry_avatars, push_avatar, event_pump).
AvatarsConverge == <>[](\A n \in Nodes \ Full : cache[n] = file[Peer(n)])

\* The two nodes do not ask each other for ever, also when one cannot store what
\* it gets (AVATAR_RETRY_MAX).
PullsEnd == <>[](\A n \in Nodes : wire[n] = <<>>)

=============================================================================
