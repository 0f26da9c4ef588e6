---------------------------- MODULE Connections ----------------------------
(***************************************************************************)
(* The connections between two nodes (fq-net lib.rs): send_direct and      *)
(* ensure_connection with the dialling lock, the Noise IK handshake of     *)
(* dialler and acceptor, register_connection, which replaces an older      *)
(* connection, and the reader and writer task of either end.               *)
(*                                                                         *)
(* A connection has two ends.  The writer of an end owns the receiving     *)
(* half of its queue and ends when every sender of that queue is dropped:  *)
(* the table's, the reader's and those of calls that wait for room.  A     *)
(* writer that ends drops its half of the socket, and the peer reads the   *)
(* end of the stream once it has read what was written before.  A reader   *)
(* ends at the end of its stream or at the first envelope it cannot take.  *)
(***************************************************************************)
EXTENDS Naturals, Sequences, FiniteSets, Functions

CONSTANTS
    Nodes,     \* the two nodes
    Calls,     \* calls of send_direct, one envelope each
    Caller,    \* the node that makes each call
    MaxConns,  \* bound: connections that are ever dialled
    QueueCap,  \* CONN_QUEUE, with what the sockets buffer
    Faults,    \* the kinds of fault that may happen
    MaxEvents  \* bound: calls, resets, silences, restarts and disconnects together

\* refuse: a dial fails; cut: an established connection is reset; silence: the
\* network carries nothing of it any more and tells nobody, as when a peer loses
\* its power; unreadable: the reader cannot take an envelope, which exceeds the
\* largest one, is of another version, or does not decrypt or decode;
\* disconnect: Node::disconnect; stop: a node is shut down and started again;
\* stranger: the peer table of the acceptor does not have the dialler (yet).
FaultKinds == {"refuse", "cut", "silence", "unreadable", "disconnect", "stop", "stranger"}

ASSUME ConnectionsAssumption ==
    /\ \E a, b \in Nodes : a # b /\ Nodes = {a, b}
    /\ IsFiniteSet(Calls)
    /\ Caller \in [Calls -> Nodes]
    /\ MaxConns \in Nat \ {0} /\ QueueCap \in Nat \ {0}
    /\ Faults \subseteq FaultKinds /\ MaxEvents \in Nat

Conns == 1 .. MaxConns
None == 0
Other(n) == CHOOSE p \in Nodes : p # n

VARIABLES
    running, \* the node's process runs
    table,   \* Shared::conns: the connection registered for the other node
    dialing, \* Shared::dialing contains the other node
    call,    \* where each call of send_direct is
    via,     \* the connection it dials or has got the queue of
    reader,  \* the reader task of each end of a connection
    writer,  \* its writer task
    pipe,    \* what each end has put in its queue and the other has not read
    cut,     \* connections the network has reset
    silent,  \* connections on which nothing gets through any more
    got,     \* envelopes each node has received
    struck   \* resets, silences, restarts and disconnects so far

callVars == <<call, via>>
taskVars == <<reader, writer, pipe>>
netVars == <<cut, silent>>
vars == <<running, table, dialing, callVars, taskVars, netVars, got, struck>>

CallStates == {"idle", "grab", "wait", "dial", "shake", "send", "sent", "failed"}
ReaderStates == {"none", "shake", "on", "own", "off"}

\* Every variable ranges over the values the code can give it; the table names
\* connections whose end was registered, and only ends that exist write.
TypeOK ==
    /\ running \in [Nodes -> BOOLEAN]
    /\ table \in [Nodes -> Conns \cup {None}]
    /\ dialing \in [Nodes -> BOOLEAN]
    /\ call \in [Calls -> CallStates]
    /\ via \in [Calls -> Conns \cup {None}]
    /\ reader \in [Conns -> [Nodes -> ReaderStates]]
    /\ writer \in [Conns -> [Nodes -> {"none", "on", "done", "off"}]]
    /\ pipe \in [Conns -> [Nodes -> Seq(Calls)]]
    /\ \A c \in Conns, n \in Nodes :
         /\ pipe[c][n] \in Seq({k \in Calls : Caller[k] = n})
         /\ Len(pipe[c][n]) <= QueueCap
         /\ table[n] = c => writer[c][n] # "none"
         /\ writer[c][n] = "none" => pipe[c][n] = <<>>
    /\ cut \subseteq Conns /\ silent \subseteq Conns
    /\ got \in [Nodes -> SUBSET Calls]
    /\ struck \in 0 .. MaxEvents

Init ==
    /\ running = [n \in Nodes |-> TRUE]
    /\ table = [n \in Nodes |-> None]
    /\ dialing = [n \in Nodes |-> FALSE]
    /\ call = [k \in Calls |-> "idle"]
    /\ via = [k \in Calls |-> None]
    /\ reader = [c \in Conns |-> [n \in Nodes |-> "none"]]
    /\ writer = [c \in Conns |-> [n \in Nodes |-> "none"]]
    /\ pipe = [c \in Conns |-> [n \in Nodes |-> <<>>]]
    /\ cut = {} /\ silent = {}
    /\ got = [n \in Nodes |-> {}]
    /\ struck = 0

-----------------------------------------------------------------------------
(* Tasks. *)

More == struck + Cardinality({k \in Calls : call[k] # "idle"}) < MaxEvents

\* A fault of the bounded kinds happens.
Strike(f) == f \in Faults /\ More /\ struck' = struck + 1

Prefixes(s) == {SubSeq(s, 1, i) : i \in 0 .. Len(s)}

\* JoinHandle::abort on both tasks of the end of connection c at node n: what
\* was queued and not yet on the wire is lost.  A reader that has left its loop
\* awaits nothing any more and finishes.
Aborted(r) == IF r = "own" THEN "own" ELSE "off"

\* register_connection, one critical section: the tasks of the connection that
\* is registered are aborted, those of the new one are started.
Register(n, c) ==
    LET old == table[n] IN
    /\ table' = [table EXCEPT ![n] = c]
    /\ IF old = None
       THEN /\ reader' = [reader EXCEPT ![c][n] = "on"]
            /\ writer' = [writer EXCEPT ![c][n] = "on"]
            /\ UNCHANGED pipe
       ELSE /\ reader' = [reader EXCEPT ![c][n] = "on", ![old][n] = Aborted(@)]
            /\ writer' = [writer EXCEPT ![c][n] = "on", ![old][n] = "off"]
            /\ \E s \in Prefixes(pipe[old][n]) : pipe' = [pipe EXCEPT ![old][n] = s]

Fresh(c) == \A n \in Nodes : reader[c][n] = "none"

-----------------------------------------------------------------------------
(* send_direct: a call looks for a connection, dials or waits, and hands its *)
(* envelope over.                                                            *)

\* ensure_connection looks the peer up in the table ...
Look(k) ==
    LET n == Caller[k] IN
    /\ running[n]
    /\ \/ call[k] = "wait"
       \/ /\ call[k] = "idle" /\ More
          /\ \A j \in Calls : j < k /\ Caller[j] = n => call[j] # "idle"
    /\ IF table[n] # None
       THEN /\ call' = [call EXCEPT ![k] = "send"]
            /\ via' = [via EXCEPT ![k] = table[n]]
       ELSE /\ call' = [call EXCEPT ![k] = "grab"]
            /\ UNCHANGED via
    /\ UNCHANGED <<running, table, dialing, taskVars, netVars, got, struck>>

\* mutant: the lock is not looked at
GrabAnyway(k) ==
    /\ call[k] = "grab"
    /\ dialing' = [dialing EXCEPT ![Caller[k]] = TRUE]
    /\ call' = [call EXCEPT ![k] = "dial"]
    /\ UNCHANGED <<running, table, via, taskVars, netVars, got, struck>>

\* ... and then, in another critical section, competes for the right to dial.
\* Who does not get it polls until DIAL_WAIT is over.
Grab(k) ==
    LET n == Caller[k] IN
    /\ call[k] = "grab"
    /\ IF dialing[n]
       THEN /\ call' = [call EXCEPT ![k] = "wait"]
            /\ UNCHANGED dialing
       ELSE /\ dialing' = [dialing EXCEPT ![n] = TRUE]
            /\ call' = [call EXCEPT ![k] = "dial"]
    /\ UNCHANGED <<running, table, via, taskVars, netVars, got, struck>>

WaitExpires(k) ==
    /\ call[k] = "grab"
    /\ dialing[Caller[k]]
    /\ call' = [call EXCEPT ![k] = "failed"]
    /\ UNCHANGED <<running, table, dialing, via, taskVars, netVars, got, struck>>

\* connect_out and accept_in: the stream is open, and the acceptor has read the
\* first handshake message and answers it.
Dial(k) ==
    LET n == Caller[k] IN
    /\ call[k] = "dial"
    /\ running[Other(n)]
    /\ \E c \in Conns :
         /\ Fresh(c)
         /\ \A d \in 1 .. c - 1 : ~Fresh(d)
         /\ via' = [via EXCEPT ![k] = c]
         /\ reader' = [reader EXCEPT ![c] = [m \in Nodes |-> "shake"]]
    /\ call' = [call EXCEPT ![k] = "shake"]
    /\ UNCHANGED <<running, table, dialing, writer, pipe, netVars, got, struck>>

\* dial returns an error: the peer is not known, cannot be reached, or does not
\* answer within HANDSHAKE_TIMEOUT.  The lock is released.
DialFails(k) ==
    LET n == Caller[k] c == via[k] IN
    /\ \/ call[k] = "dial" /\ UNCHANGED taskVars
       \/ /\ call[k] = "shake"
          /\ reader' = [reader EXCEPT ![c][n] = "off"]
          /\ writer' = [writer EXCEPT ![c][n] = "off"]
          /\ UNCHANGED pipe
    /\ \/ "refuse" \in Faults \/ ~running[Other(n)]
       \/ c \in cut \cup silent
       \/ call[k] = "shake" /\ reader[c][Other(n)] = "off"
       \/ \A d \in Conns : ~Fresh(d) \* the bound
    /\ dialing' = [dialing EXCEPT ![n] = FALSE]
    /\ call' = [call EXCEPT ![k] = "failed"]
    /\ UNCHANGED <<running, table, via, netVars, got, struck>>

\* mutant: the lock is kept
DialDoneKeepsLock(k) ==
    LET n == Caller[k] c == via[k] IN
    /\ call[k] = "shake"
    /\ c \notin cut
    /\ Register(n, c)
    /\ call' = [call EXCEPT ![k] = "send"]
    /\ UNCHANGED <<running, dialing, via, netVars, got, struck>>

\* The answer is there: the dialler registers the connection and releases the
\* lock.
DialDone(k) ==
    LET n == Caller[k] c == via[k] IN
    /\ call[k] = "shake"
    /\ c \notin cut
    /\ Register(n, c)
    /\ dialing' = [dialing EXCEPT ![n] = FALSE]
    /\ call' = [call EXCEPT ![k] = "send"]
    /\ UNCHANGED <<running, via, netVars, got, struck>>

\* mutant: the queue has no limit
SendUnbounded(k) ==
    LET n == Caller[k] c == via[k] IN
    /\ call[k] = "send"
    /\ IF writer[c][n] = "on"
       THEN /\ pipe' = [pipe EXCEPT ![c][n] = Append(@, k)]
            /\ call' = [call EXCEPT ![k] = "sent"]
       ELSE /\ call' = [call EXCEPT ![k] = "failed"]
            /\ UNCHANGED pipe
    /\ UNCHANGED <<running, table, dialing, via, reader, writer, netVars, got, struck>>

\* tx.send: waits for room in the queue, and fails once the writer is gone.
Send(k) ==
    LET n == Caller[k] c == via[k] IN
    /\ call[k] = "send"
    /\ IF writer[c][n] = "on"
       THEN /\ Len(pipe[c][n]) < QueueCap
            /\ pipe' = [pipe EXCEPT ![c][n] = Append(@, k)]
            /\ call' = [call EXCEPT ![k] = "sent"]
       ELSE /\ call' = [call EXCEPT ![k] = "failed"]
            /\ UNCHANGED pipe
    /\ UNCHANGED <<running, table, dialing, via, reader, writer, netVars, got, struck>>

-----------------------------------------------------------------------------
(* The acceptor. *)

Dialled(n, c) == \E k \in Calls : Caller[k] = n /\ via[k] = c /\ call[k] = "shake"

\* accept_loop: the key of the dialler is looked up in the peer table.  The
\* connection of a known peer is registered, any other one is dropped.
Admit(n, c) ==
    /\ reader[c][n] = "shake" /\ ~Dialled(n, c)
    /\ \/ Register(n, c)
       \/ /\ "stranger" \in Faults
          /\ reader' = [reader EXCEPT ![c][n] = "off"]
          /\ writer' = [writer EXCEPT ![c][n] = "off"]
          /\ UNCHANGED <<table, pipe>>
    /\ UNCHANGED <<running, dialing, callVars, netVars, got, struck>>

-----------------------------------------------------------------------------
(* reader_task and writer_task. *)

\* mutant: an envelope read while the end of the peer is closing is skipped
ReadSkips(n, c) ==
    /\ reader[c][n] = "on"
    /\ pipe[c][Other(n)] # <<>> /\ c \notin silent
    /\ got' = [got EXCEPT ![n] = IF writer[c][Other(n)] = "on"
                                 THEN @ \cup {Head(pipe[c][Other(n)])} ELSE @]
    /\ pipe' = [pipe EXCEPT ![c][Other(n)] = Tail(@)]
    /\ UNCHANGED <<running, table, dialing, callVars, reader, writer, netVars, struck>>

\* reader_task receives an envelope.
Read(n, c) ==
    /\ reader[c][n] = "on"
    /\ pipe[c][Other(n)] # <<>> /\ c \notin silent
    /\ got' = [got EXCEPT ![n] = @ \cup {Head(pipe[c][Other(n)])}]
    /\ pipe' = [pipe EXCEPT ![c][Other(n)] = Tail(@)]
    /\ UNCHANGED <<running, table, dialing, callVars, reader, writer, netVars, struck>>

\* Nobody acknowledges what end n has written: TCP gives the connection up
\* after its retransmissions.  It has no keepalive, so that end n never learns
\* of the silence while it has nothing to write.
GivenUp(n, c) == c \in silent /\ (pipe[c][n] # <<>> \/ writer[c][n] = "off")

\* The stream of end n has ended: the peer has written its last, or has dropped
\* both halves, or the connection was reset or given up.
Ended(n, c) ==
    LET p == Other(n) IN
    \/ c \in cut \/ GivenUp(n, c)
    \/ /\ c \notin silent
       /\ writer[c][p] \in {"done", "off"} /\ (pipe[c][p] = <<>> \/ reader[c][p] = "off")

\* ReadPart::recv_envelope returns an error on what has arrived.
Unreadable(n, c) == "unreadable" \in Faults /\ pipe[c][Other(n)] # <<>> /\ c \notin silent

\* mutant: an end whose reader fails is taken to be replaced
ReadEndsAlwaysStale(n, c) ==
    /\ reader[c][n] = "on"
    /\ Ended(n, c) \/ Unreadable(n, c)
    /\ reader' = [reader EXCEPT ![c][n] = "off"]
    /\ UNCHANGED <<running, table, dialing, callVars, writer, pipe, netVars, got, struck>>

\* A read fails, of whatever cause.  Under one lock the reader finds out whether
\* the table holds a connection that is not its own ...
ReadEnds(n, c) ==
    /\ reader[c][n] = "on"
    /\ Ended(n, c) \/ Unreadable(n, c)
    /\ reader' = [reader EXCEPT ![c][n] = IF table[n] \in {c, None} THEN "own" ELSE "off"]
    /\ UNCHANGED <<running, table, dialing, callVars, writer, pipe, netVars, got, struck>>

\* ... and if not, it removes what is in the table under a second one.
CleanUp(n, c) ==
    /\ reader[c][n] = "own"
    /\ table' = [table EXCEPT ![n] = None]
    /\ reader' = [reader EXCEPT ![c][n] = "off"]
    /\ UNCHANGED <<running, dialing, callVars, writer, pipe, netVars, got, struck>>

\* Nobody can send to the queue any more: not the table, not the reader, not a
\* call that waits for room.
Dropped(n, c) ==
    /\ table[n] # c
    /\ reader[c][n] \notin {"on", "own"}
    /\ \A k \in Calls : ~(Caller[k] = n /\ call[k] = "send" /\ via[k] = c)

\* The writer has written all there was, and ends.
WriterDrains(n, c) ==
    /\ writer[c][n] = "on"
    /\ Dropped(n, c)
    /\ writer' = [writer EXCEPT ![c][n] = "done"]
    /\ UNCHANGED <<running, table, dialing, callVars, reader, pipe, netVars, got, struck>>

\* The stream is reset, given up, or dropped by the peer.
Refused(n, c) ==
    LET p == Other(n) IN
    \/ c \in cut \/ GivenUp(n, c)
    \/ c \notin silent /\ reader[c][p] = "off" /\ writer[c][p] # "on"

\* The writer ends at once, with it the envelope it was writing and some or all
\* of those behind it.
WriteFails(n, c) ==
    /\ writer[c][n] = "on"
    /\ pipe[c][n] # <<>>
    /\ Refused(n, c)
    /\ writer' = [writer EXCEPT ![c][n] = "off"]
    /\ \E s \in Prefixes(pipe[c][n]) \ {pipe[c][n]} : pipe' = [pipe EXCEPT ![c][n] = s]
    /\ UNCHANGED <<running, table, dialing, callVars, reader, netVars, got, struck>>

-----------------------------------------------------------------------------
(* The rest of the world. *)

Cut(c) ==
    /\ Strike("cut")
    /\ c \notin cut \cup silent
    /\ \A n \in Nodes : writer[c][n] = "on"
    /\ cut' = cut \cup {c}
    /\ pipe' = [pipe EXCEPT ![c] = [n \in Nodes |-> <<>>]]
    /\ UNCHANGED <<running, table, dialing, callVars, reader, writer, silent, got>>

\* A connection with nothing under way falls silent; one that carries something
\* is one that fell silent before.
Silence(c) ==
    /\ Strike("silence")
    /\ c \notin cut \cup silent
    /\ \E n \in Nodes : writer[c][n] = "on"
    /\ \A n \in Nodes : pipe[c][n] = <<>>
    /\ silent' = silent \cup {c}
    /\ UNCHANGED <<running, table, dialing, callVars, taskVars, cut, got>>

\* Node::disconnect: the entry is removed and its tasks are aborted.
Disconnect(n) ==
    LET c == table[n] IN
    /\ Strike("disconnect")
    /\ c # None
    /\ table' = [table EXCEPT ![n] = None]
    /\ reader' = [reader EXCEPT ![c][n] = Aborted(@)]
    /\ writer' = [writer EXCEPT ![c][n] = "off"]
    /\ \E s \in Prefixes(pipe[c][n]) : pipe' = [pipe EXCEPT ![c][n] = s]
    /\ UNCHANGED <<running, dialing, callVars, netVars, got>>

Active(k) == call[k] \notin {"idle", "sent", "failed"}

\* Node::shutdown, or the end of the process: every task ends, and tables,
\* locks and calls are gone.
Stop(n) ==
    /\ Strike("stop")
    /\ running[n]
    /\ running' = [running EXCEPT ![n] = FALSE]
    /\ table' = [table EXCEPT ![n] = None]
    /\ dialing' = [dialing EXCEPT ![n] = FALSE]
    /\ call' = [k \in Calls |-> IF Caller[k] = n /\ Active(k) THEN "failed" ELSE call[k]]
    /\ reader' = [c \in Conns |-> IF Fresh(c) THEN reader[c] ELSE [reader[c] EXCEPT ![n] = "off"]]
    /\ writer' = [c \in Conns |-> IF Fresh(c) THEN writer[c] ELSE [writer[c] EXCEPT ![n] = "off"]]
    /\ pipe' = [c \in Conns |-> [pipe[c] EXCEPT ![n] = <<>>]]
    /\ UNCHANGED <<via, netVars, got>>

Start(n) ==
    /\ ~running[n]
    /\ running' = [running EXCEPT ![n] = TRUE]
    /\ UNCHANGED <<table, dialing, callVars, taskVars, netVars, got, struck>>

-----------------------------------------------------------------------------
Call(k) == \/ Look(k) \/ Grab(k) \/ Dial(k) \/ DialFails(k) \/ DialDone(k) \/ Send(k)

Reader(n, c) == \/ Admit(n, c) \/ Read(n, c) \/ ReadEnds(n, c)
                \/ CleanUp(n, c)

Writer(n, c) == WriterDrains(n, c) \/ WriteFails(n, c)

\* The queue and the sockets are full and the other end does not read.
Blocked(n, c) == Len(pipe[c][n]) = QueueCap /\ reader[c][Other(n)] # "on"

Next ==
    \/ \E k \in Calls : Call(k) \/ WaitExpires(k)
    \/ \E n \in Nodes, c \in Conns : Reader(n, c) \/ Writer(n, c)
    \/ \E c \in Conns : Cut(c) \/ Silence(c)
    \/ \E n \in Nodes : Disconnect(n) \/ Stop(n) \/ Start(n)

Spec == Init /\ [][Next]_vars

\* Fairness of the runtime and of the sockets: a call that has started and
\* every task go on.  A handshake that is not answered times out, so a dial
\* ends one way or the other.  A writer whose peer has stopped reading need not
\* get rid of what it has.  Nothing is asked of users, of discovery or of faults.
Fairness ==
    /\ \A k \in Calls : WF_vars(call[k] # "idle" /\ Call(k))
    /\ \A n \in Nodes, c \in Conns :
         /\ WF_vars(Reader(n, c))
         /\ WF_vars(~Blocked(n, c) /\ WriterDrains(n, c)) /\ WF_vars(WriteFails(n, c))

FairSpec == Spec /\ Fairness
-----------------------------------------------------------------------------
(* Properties. *)

\* At most one call of a node dials, and the lock is taken exactly while one
\* does: no dial that fails, is refused or is interrupted by a restart leaves
\* the peer locked, or two dials running (ensure_connection).
OneDial ==
    \A n \in Nodes :
        LET D == {k \in Calls : Caller[k] = n /\ call[k] \in {"dial", "shake"}} IN
        Cardinality(D) <= 1 /\ (dialing[n] <=> D # {})

\* An envelope that was handed over and has neither arrived nor is under way to
\* a reader is lost for one of three reasons: its writer was aborted or failed,
\* the network has reset the connection, or the peer has stopped reading.  An
\* end that closes because the other one did sends what it still has.
LostOnlyWithConnection ==
    \A k \in Calls :
        LET n == Caller[k] p == Other(n) c == via[k] IN
        call[k] = "sent" =>
            \/ k \in got[p] \cup Range(pipe[c][n])
            \/ writer[c][n] = "off" \/ c \in cut \/ reader[c][p] = "off"

\* No call hangs: it returns, though the queue may be full, the peer may never
\* answer, the connection may be replaced while the call waits for room in its
\* queue (send_direct, ensure_connection).  The exception is a connection at both
\* ends of which the readers have failed while the queues were full.
Stuck(k) ==
    /\ call[k] = "send"
    /\ \A n \in Nodes :
         reader[via[k]][n] = "off" /\ writer[via[k]][n] = "on" /\ Blocked(n, via[k])

CallsReturn ==
    \A k \in Calls : (call[k] # "idle") ~> (call[k] \in {"sent", "failed"} \/ []Stuck(k))

\* No black hole: an entry of the table whose writer has ended here, or whose
\* other end does not read any more, leaves the table.  The end of any one task
\* has to bring down the other three of the connection, across both nodes
\* (reader_task, writer_task).  One that has fallen silent leaves it once something
\* is written to it, and not before: an idle entry for a peer that vanished is not
\* dead for this node, stays, and takes the next envelope with it.
Dead(n, c) ==
    \/ writer[c][n] # "on"
    \/ IF c \in silent THEN pipe[c][n] # <<>> ELSE reader[c][Other(n)] = "off"

NoBlackHole ==
    \A n \in Nodes, c \in Conns :
        (table[n] = c /\ Dead(n, c)) ~> (table[n] # c \/ ~Dead(n, c))

=============================================================================
