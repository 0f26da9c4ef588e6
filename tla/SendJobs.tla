------------------------------ MODULE SendJobs ------------------------------
(***************************************************************************)
(* What the application makes of file transfers (fq-core lib.rs, table     *)
(* transfers of fq-store).  A call starts a session and only then writes   *)
(* the session's row and remembers the source for a retry; the event pump  *)
(* meanwhile handles how sessions end, closes rows, and hands what broke   *)
(* off to a task that starts the file again under the row it had.          *)
(*                                                                         *)
(* A job is one file for one peer: a member's share of a group file, a     *)
(* file sent to one peer, the update package a peer asked for, or a file   *)
(* that is offered to this node.  The sessions themselves are in Transfer. *)
(***************************************************************************)
EXTENDS Naturals, Sequences, FiniteSets

CONSTANTS
    Batches,         \* the calls send_file and send_group_file: sets of jobs
    Updates,         \* jobs that answer update requests of peers
    Offers,          \* jobs of the other direction, offered by peers
    SEND_RETRY_MAX,  \* how often a job is started again
    Faults,          \* the kinds of fault that may happen
    MaxSpent         \* bound: deletions, clearings and faults

\* crash: the application stops; lag: the pump misses events, and ends.
FaultKinds == {"crash", "lag"}

Calls == UNION Batches
Jobs == Calls \cup Updates \cup Offers

ASSUME SendJobsAssumption ==
    /\ SEND_RETRY_MAX \in Nat
    /\ Calls \cap Updates = {} /\ Calls \cap Offers = {} /\ Updates \cap Offers = {}
    /\ \A B, C \in Batches : B = C \/ B \cap C = {}
    /\ Faults \subseteq FaultKinds
    /\ MaxSpent \in Nat

VARIABLES
    tries,     \* sessions each job has had
    session,   \* how each session stands
    events,    \* the broadcast channel between the node and the pump
    pump,      \* the event pump runs
    row,       \* the table transfers, keyed by session
    outgoing,  \* the sessions whose source is remembered
    retries,   \* OutgoingSend.retries of each job, in the map or in a retry task
    step,      \* how far the call is with each job
    retry,     \* the retry task of each job
    posted,    \* calls with their message in the history of the chat
    gaveUp,    \* jobs whose retry task has given up
    spent      \* deletions, clearings and faults so far

taskVars == <<outgoing, retries, step, retry, posted, gaveUp>>
vars == <<tries, session, events, pump, row, taskVars, spent>>

\* The token of the n-th session of a job.
Tokens == Jobs \X (1 .. SEND_RETRY_MAX + 1)
Latest(j) == <<j, tries[j]>>

\* broken: a reason that is_retryable_send_failure accepts; refused: any other.
Ends == {"done", "broken", "refused", "cancelled"}
Statuses == {"active", "done", "failed", "cancelled"}

\* Every variable ranges over the values the code can give it, and only sent
\* files of the user are remembered, each by its newest session.
TypeOK ==
    /\ tries \in [Jobs -> 0 .. SEND_RETRY_MAX + 1]
    /\ session \in [Tokens -> {"none", "asked", "on", "expired", "lost"} \cup Ends]
    /\ events \in Seq(Tokens \X ({"offer"} \cup Ends))
    /\ pump \in BOOLEAN
    /\ row \in [Tokens -> {"none"} \cup Statuses]
    /\ outgoing \subseteq Tokens
    /\ \A t \in outgoing : t[1] \in Calls /\ t = Latest(t[1])
    /\ retries \in [Jobs -> 0 .. SEND_RETRY_MAX]
    /\ step \in [Jobs -> {"new", "started", "recorded", "in", "out"}]
    /\ retry \in [Jobs -> {"none", "waits", "tries", "started", "renamed"}]
    /\ posted \subseteq Batches
    /\ gaveUp \subseteq Calls
    /\ spent \in 0 .. MaxSpent

Init ==
    /\ tries = [j \in Jobs |-> 0]
    /\ session = [t \in Tokens |-> "none"]
    /\ events = <<>> /\ pump = TRUE
    /\ row = [t \in Tokens |-> "none"]
    /\ outgoing = {} /\ retries = [j \in Jobs |-> 0]
    /\ step = [j \in Jobs |-> "new"]
    /\ retry = [j \in Jobs |-> "none"]
    /\ posted = {} /\ gaveUp = {}
    /\ spent = 0

Spend == spent < MaxSpent /\ spent' = spent + 1

\* A new session with a new token: of start_send, or of an offer (asked) that
\* waits for a decision.
NewSession(j, how) ==
    /\ tries' = [tries EXCEPT ![j] = @ + 1]
    /\ session' = [session EXCEPT ![<<j, tries[j] + 1>>] = how]

\* The pump's receiver gets every event of the node.
Tell(t, what) == events' = IF pump THEN Append(events, <<t, what>>) ELSE events

-----------------------------------------------------------------------------
(* The store. *)

\* Store::record_transfer_start
RecordStart(t) == row' = [row EXCEPT ![t] = "active"]

\* mutant: only transfers in the sending direction are closed
RecordFinishSends(t, status) ==
    row' = [row EXCEPT ![t] = IF @ = "none" \/ t[1] \in Offers THEN @ ELSE status]

\* Store::record_transfer_finish updates a row that is there.
RecordFinish(t, status) == row' = [row EXCEPT ![t] = IF @ = "none" THEN @ ELSE status]

\* Store::retry_transfer: the row, if it is there, goes over to the new token.
RetryTransfer(old, new) ==
    IF row[old] = "none" THEN row ELSE [row EXCEPT ![old] = "none", ![new] = "active"]

-----------------------------------------------------------------------------
(* send_file and send_group_file, and the answer to an UpdateRequest. *)

\* A call takes its jobs one after the other; an update has a task of its own.
Turn(j) ==
    /\ step[j] = "new"
    /\ j \notin Offers
    /\ \A B \in Batches : j \in B => \A i \in B : step[i] \notin {"started", "recorded"}

StartSession(j) ==
    /\ Turn(j)
    /\ NewSession(j, "on")
    /\ step' = [step EXCEPT ![j] = "started"]
    /\ UNCHANGED <<events, pump, row, outgoing, retries, retry, posted, gaveUp, spent>>

\* The peer cannot be reached.
StartFails(j) ==
    /\ Turn(j)
    /\ step' = [step EXCEPT ![j] = "out"]
    /\ UNCHANGED <<tries, session, events, pump, row, outgoing, retries, retry, posted, gaveUp, spent>>

Record(j) ==
    /\ step[j] = "started"
    /\ RecordStart(<<j, 1>>)
    /\ step' = [step EXCEPT ![j] = IF j \in Updates THEN "in" ELSE "recorded"]
    /\ UNCHANGED <<tries, session, events, pump, outgoing, retries, retry, posted, gaveUp, spent>>

Remember(j) ==
    /\ step[j] = "recorded"
    /\ outgoing' = outgoing \cup {<<j, 1>>}
    /\ step' = [step EXCEPT ![j] = "in"]
    /\ UNCHANGED <<tries, session, events, pump, row, retries, retry, posted, gaveUp, spent>>

\* All jobs have had their turn, and not all in vain.
Finished(B) == (\A j \in B : step[j] \in {"in", "out"}) /\ (\E j \in B : step[j] = "in")

\* The file gets its one message in the chat.
Post(B) ==
    /\ Finished(B) /\ B \notin posted
    /\ posted' = posted \cup {B}
    /\ UNCHANGED <<tries, session, events, pump, row, outgoing, retries, step, retry, gaveUp, spent>>

-----------------------------------------------------------------------------
(* The node: sessions begin by the peer's offer, are accepted, and end. *)

OfferArrives(j) ==
    /\ j \in Offers /\ tries[j] = 0
    /\ NewSession(j, "asked")
    /\ Tell(<<j, 1>>, "offer")
    /\ UNCHANGED <<pump, row, taskVars, spent>>

\* The user takes what is offered, or the node does: an update package, and
\* every file with auto_accept_files.
Accept(t) ==
    /\ session[t] = "asked"
    /\ session' = [session EXCEPT ![t] = "on"]
    /\ UNCHANGED <<tries, events, pump, row, taskVars, spent>>

\* A session ends and says so; an offer that waits is rejected, cancelled or
\* aborted by its sender.
SessionEnds(t, end) ==
    /\ session[t] = "on" \/ (session[t] = "asked" /\ end # "done")
    /\ session' = [session EXCEPT ![t] = end]
    /\ Tell(t, end)
    /\ UNCHANGED <<tries, pump, row, taskVars, spent>>

\* PENDING_TIMEOUT: nobody has decided.  This end is silent.
OfferExpires(t) ==
    /\ session[t] = "asked"
    /\ session' = [session EXCEPT ![t] = "expired"]
    /\ UNCHANGED <<tries, events, pump, row, taskVars, spent>>

-----------------------------------------------------------------------------
(* The pump, one event at a time. *)

Handle(what) ==
    /\ pump /\ events # <<>> /\ Head(events)[2] = what
    /\ events' = Tail(events)

\* FileOfferReceived, UpdateOfferReceived
HandleOffer ==
    /\ Handle("offer")
    /\ RecordStart(Head(events)[1])
    /\ UNCHANGED <<tries, session, pump, taskVars, spent>>

\* FileTransferCompleted
HandleDone ==
    /\ Handle("done")
    /\ RecordFinish(Head(events)[1], "done")
    /\ outgoing' = outgoing \ {Head(events)[1]}
    /\ UNCHANGED <<tries, session, pump, retries, step, retry, posted, gaveUp, spent>>

\* FileTransferFailed, when it is not worth a retry: the source stays remembered.
HandleRefused ==
    \E end \in {"refused", "cancelled"} :
        /\ Handle(end)
        /\ RecordFinish(Head(events)[1], IF end = "refused" THEN "failed" ELSE "cancelled")
        /\ UNCHANGED <<tries, session, pump, taskVars, spent>>

\* FileTransferFailed: a file that is remembered goes to spawn_send_retry.
HandleBroken ==
    LET t == Head(events)[1] IN
    /\ Handle("broken")
    /\ RecordFinish(t, "failed")
    /\ outgoing' = outgoing \ {t}
    /\ retry' = IF t \in outgoing THEN [retry EXCEPT ![t[1]] = "waits"] ELSE retry
    /\ UNCHANGED <<tries, session, pump, retries, step, posted, gaveUp, spent>>

-----------------------------------------------------------------------------
(* spawn_send_retry *)

\* mutant: the attempt is not counted
CountAttemptNot(j) == retries

\* Failed attempts count as well.
CountAttempt(j) == [retries EXCEPT ![j] = @ + 1]

\* An attempt begins after SEND_RETRY_DELAY.
RetryWakes(j) ==
    /\ retry[j] = "waits" /\ retries[j] < SEND_RETRY_MAX
    /\ retries' = CountAttempt(j)
    /\ retry' = [retry EXCEPT ![j] = "tries"]
    /\ UNCHANGED <<tries, session, events, pump, row, outgoing, step, posted, gaveUp, spent>>

RetryStarts(j) ==
    /\ retry[j] = "tries"
    /\ NewSession(j, "on")
    /\ retry' = [retry EXCEPT ![j] = "started"]
    /\ UNCHANGED <<events, pump, row, outgoing, retries, step, posted, gaveUp, spent>>

RetryFails(j) ==
    /\ retry[j] = "tries"
    /\ retry' = [retry EXCEPT ![j] = "waits"]
    /\ UNCHANGED <<tries, session, events, pump, row, outgoing, retries, step, posted, gaveUp, spent>>

RetryRenames(j) ==
    /\ retry[j] = "started"
    /\ row' = RetryTransfer(<<j, tries[j] - 1>>, Latest(j))
    /\ retry' = [retry EXCEPT ![j] = "renamed"]
    /\ UNCHANGED <<tries, session, events, pump, outgoing, retries, step, posted, gaveUp, spent>>

\* mutant: the task goes on with its attempts after one that has started
RetryEndsNot(j) == [retry EXCEPT ![j] = "waits"]

RetryEnds(j) == [retry EXCEPT ![j] = "none"]

RetryRemembers(j) ==
    /\ retry[j] = "renamed"
    /\ outgoing' = outgoing \cup {Latest(j)}
    /\ retry' = RetryEnds(j)
    /\ UNCHANGED <<tries, session, events, pump, row, retries, step, posted, gaveUp, spent>>

RetryGivesUp(j) ==
    /\ retry[j] = "waits" /\ retries[j] >= SEND_RETRY_MAX
    /\ gaveUp' = gaveUp \cup {j}
    /\ retry' = [retry EXCEPT ![j] = "none"]
    /\ UNCHANGED <<tries, session, events, pump, row, outgoing, retries, step, posted, spent>>

-----------------------------------------------------------------------------
(* The user's transfer history, faults. *)

\* Store::delete_transfer
DeleteTransfer(t) ==
    /\ row[t] # "none" /\ Spend
    /\ row' = [row EXCEPT ![t] = "none"]
    /\ UNCHANGED <<tries, session, events, pump, taskVars>>

\* Store::clear_transfers leaves what is under way.
ClearTransfers ==
    /\ \E t \in Tokens : row[t] \notin {"none", "active"}
    /\ Spend
    /\ row' = [t \in Tokens |-> IF row[t] = "active" THEN "active" ELSE "none"]
    /\ UNCHANGED <<tries, session, events, pump, taskVars>>

\* The pump's loop returns when its receiver has missed events.
PumpLags ==
    /\ "lag" \in Faults /\ pump /\ events # <<>> /\ Spend
    /\ pump' = FALSE /\ events' = <<>>
    /\ UNCHANGED <<tries, session, row, taskVars>>

\* mutant: rows that were under way are left as they are
StaleRowsKept == row

\* Store::mark_stale_transfers
StaleRows == [t \in Tokens |-> IF row[t] = "active" THEN "failed" ELSE row[t]]

\* The application stops and App::start begins anew: what was only in memory is
\* gone, calls under way with it.
Restart ==
    /\ "crash" \in Faults /\ Spend
    /\ session' = [t \in Tokens |-> IF session[t] \in {"asked", "on"} THEN "lost" ELSE session[t]]
    /\ events' = <<>> /\ pump' = TRUE
    /\ row' = StaleRows
    /\ outgoing' = {}
    /\ retry' = [j \in Jobs |-> "none"]
    /\ step' = [j \in Jobs |-> "out"]
    /\ UNCHANGED <<tries, retries, posted, gaveUp>>

-----------------------------------------------------------------------------
Next ==
    \/ \E j \in Jobs :
         \/ StartSession(j) \/ StartFails(j) \/ Record(j) \/ Remember(j)
         \/ OfferArrives(j)
         \/ RetryWakes(j) \/ RetryStarts(j) \/ RetryFails(j)
         \/ RetryRenames(j) \/ RetryRemembers(j) \/ RetryGivesUp(j)
    \/ \E B \in Batches : Post(B)
    \/ \E t \in Tokens :
         \/ Accept(t) \/ OfferExpires(t) \/ DeleteTransfer(t)
         \/ \E end \in Ends : SessionEnds(t, end)
    \/ HandleOffer \/ HandleDone \/ HandleRefused \/ HandleBroken
    \/ ClearTransfers \/ PumpLags \/ Restart

Spec == Init /\ [][Next]_vars

\* Tasks run: every call and retry goes on, sessions end (a session that hears
\* nothing ends by its timeout), and the pump takes what is in its channel.
\* Nobody has to decide on an offer.
Fairness ==
    /\ \A j \in Jobs :
         /\ WF_vars(Record(j)) /\ WF_vars(Remember(j))
         /\ WF_vars(RetryWakes(j)) /\ WF_vars(RetryStarts(j) \/ RetryFails(j))
         /\ WF_vars(RetryRenames(j)) /\ WF_vars(RetryRemembers(j)) /\ WF_vars(RetryGivesUp(j))
    /\ \A t \in Tokens : WF_vars(OfferExpires(t) \/ \E end \in Ends : SessionEnds(t, end))
    /\ WF_vars(HandleOffer \/ HandleDone \/ HandleRefused \/ HandleBroken)

FairSpec == Spec /\ Fairness

-----------------------------------------------------------------------------
(* Properties. *)

\* One file has one session at a time, even while a retry races the end of the
\* session before it: the peer is never sent the file twice at once.
OneSession ==
    \A j \in Jobs : Cardinality({n \in 1 .. SEND_RETRY_MAX + 1 : session[<<j, n>>] = "on"}) <= 1

\* What the history says of a file is how its session ended, and no row says so
\* while the session goes on; one file keeps one row, whatever is retried,
\* deleted or restarted (event_pump, retry_transfer, mark_stale_transfers).  Only
\* "failed" may be wrong: a restart says it of any end the pump had not seen.
RowsTruthful ==
    /\ \A t \in Tokens :
         /\ row[t] = "done" => session[t] = "done"
         /\ row[t] = "cancelled" => session[t] = "cancelled"
         /\ row[t] = "failed" => session[t] \notin {"none", "asked", "on"}
         /\ row[t] = "active" => session[t] # "lost"
    /\ \A j \in Jobs :
         Cardinality({n \in 1 .. SEND_RETRY_MAX + 1 : row[<<j, n>>] # "none"}) <= 1

\* A retry comes to an end: the file is under way again, or the user is told
\* that it was given up.
RetryConcludes == \A j \in Calls : (retry[j] # "none") ~> (retry[j] = "none")

\* The row of a file that a peer offers is closed, however its session ends:
\* accepted and done, broken, rejected or aborted, because the pump itself writes
\* the row before it sees the end.  The exception is an offer nobody decides on,
\* whose session expires without an event: its row says "active" until the next
\* start (receiver_driver, event_pump).
OffersSettle ==
    \A j \in Offers :
        (row[<<j, 1>>] = "active")
            ~> (row[<<j, 1>>] # "active" \/ session[<<j, 1>>] = "expired" \/ ~pump)

=============================================================================
