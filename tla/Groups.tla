------------------------------- MODULE Groups -------------------------------
(***************************************************************************)
(* Group chats (fq-core lib.rs, fq-store store.rs).  A group is a local    *)
(* list of members; a text to it is one message, sent to every member by   *)
(* itself and queued for those that cannot be reached, and the receivers   *)
(* file it under the group, which they create or join.  Here is what the   *)
(* databases of the nodes make of that: the rows of the history, the       *)
(* conversations with their previews, the queue and the lists of members,  *)
(* when texts arrive out of order, are recalled or deleted.                *)
(*                                                                         *)
(* What Delivery has in detail is short here: a send is refused or puts    *)
(* the copy on the wire, a row of the queue is sent and filed in one step, *)
(* and rows expire at any time.                                            *)
(***************************************************************************)
EXTENDS Naturals, FiniteSets

CONSTANTS
    Nodes,     \* the nodes
    Texts,     \* group texts; their numbers are their time stamps
    Sender,    \* who sends each
    None,      \* no row, no conversation, no group
    Faults,    \* the kinds of fault that may happen
    MaxSpent   \* bound: what users recall and delete, plus faults

\* break: a copy on the wire is lost; expire: a copy is too old for the queue.
FaultKinds == {"break", "expire"}

ASSUME GroupsAssumption ==
    /\ Texts \subseteq Nat \ {0} /\ IsFiniteSet(Texts)
    /\ Sender \in [Texts -> Nodes]
    /\ Faults \subseteq FaultKinds
    /\ MaxSpent \in Nat

VARIABLES
    members,  \* the table groups: the members of the group, at each node
    row,      \* the conversation under which a node has each text
    recalled, \* the texts that are recalled at a node
    conv,     \* the table conversations, without unread counters
    pending,  \* the rows of all queues
    filed,    \* queued recalls with a row of their own in the history
    wire,     \* copies under way
    call,     \* send_group_text and recall_message: where they are
    todo,     \* the members they have not come to
    heard,    \* copies a receiver has handled
    owed,     \* copies a call has sent or queued
    gone,     \* copies that faults have taken
    spent     \* recalls, deletions and faults so far

storeVars == <<row, recalled, conv>>
callVars == <<call, todo, owed>>
vars == <<members, storeVars, pending, filed, wire, callVars, heard, gone, spent>>

\* The conversation of the group, and one with each other node.
Keys == {"group"} \cup Nodes

\* One envelope to one member: the text itself or its recall.
Copy == [kind : {"text", "recall"}, text : Texts, to : Nodes]
CopyTo(p, kind, m) == [kind |-> kind, text |-> m, to |-> p]
From(c) == Sender[c.text]

Calls == {"text", "recall"} \X Texts

\* A preview is a text, or 0: the notice that replaces a recalled text, and the
\* empty body of a queued recall, which is filed as a row of its own.
Conversation == [last : Nat, preview : Texts \cup {0}]

\* Every variable ranges over the values the code can give it.  A queue is keyed
\* by envelope and receiver; what is queued, under way or heard was sent.
TypeOK ==
    /\ members \in [Nodes -> (SUBSET Nodes) \cup {None}]
    /\ row \in [Nodes -> [Texts -> Keys \cup {None}]]
    /\ recalled \in [Nodes -> SUBSET Texts]
    /\ conv \in [Nodes -> [Keys -> Conversation \cup {None}]]
    /\ \A n \in Nodes, m \in Texts : m \in recalled[n] => row[n][m] # None
    /\ owed \subseteq Copy
    /\ pending \cup wire \cup heard \subseteq owed
    /\ filed \subseteq owed /\ gone \subseteq owed
    /\ call \in [Calls -> {"new", "spread", "done"}]
    /\ todo \in [Calls -> SUBSET Nodes]
    /\ spent \in 0 .. MaxSpent

Init ==
    /\ members = [n \in Nodes |-> None]
    /\ row = [n \in Nodes |-> [m \in Texts |-> None]]
    /\ recalled = [n \in Nodes |-> {}]
    /\ conv = [n \in Nodes |-> [k \in Keys |-> None]]
    /\ pending = {} /\ filed = {} /\ wire = {}
    /\ call = [c \in Calls |-> "new"] /\ todo = [c \in Calls |-> {}]
    /\ heard = {} /\ owed = {} /\ gone = {}
    /\ spent = 0

Spend == spent < MaxSpent /\ spent' = spent + 1

-----------------------------------------------------------------------------
(* The store. *)

\* mutant: the preview is always that of the row that was inserted last
UpsertAlways(old, ts, preview) ==
    IF old = None THEN [last |-> ts, preview |-> preview]
    ELSE [last |-> IF ts > old.last THEN ts ELSE old.last, preview |-> preview]

\* The conversation after a row was inserted: the newest row gives the preview.
Upsert(old, ts, preview) ==
    IF old # None /\ ts < old.last THEN old
    ELSE [last |-> ts, preview |-> preview]

\* Store::insert_message, once for each identifier.
InsertText(n, m, k) ==
    IF row[n][m] # None THEN UNCHANGED <<row, conv>>
    ELSE /\ row' = [row EXCEPT ![n][m] = k]
         /\ conv' = [conv EXCEPT ![n][k] = Upsert(@, m, m)]

\* The preview after a text was recalled.
Withdraw(old, m) ==
    IF old # None /\ old.last <= m THEN [old EXCEPT !.preview = 0] ELSE old

\* Store::mark_message_recalled
MarkRecalled(n, m) ==
    /\ recalled' = [recalled EXCEPT ![n] = @ \cup {m}]
    /\ conv' = [conv EXCEPT ![n][row[n][m]] = Withdraw(@, m)]
    /\ UNCHANGED row

\* mutant: the queue has one row for each envelope, whoever is to get it
EnqueueById(c) == {d \in pending : <<d.kind, d.text>> # <<c.kind, c.text>>} \cup {c}

\* Store::enqueue
Enqueue(c) == pending \cup {c}

-----------------------------------------------------------------------------
(* Calls of the user. *)

CreateGroup(n) ==
    /\ members[n] = None
    /\ \A p \in Nodes : members[p] = None \* one group
    /\ members' = [members EXCEPT ![n] = Nodes \ {n}]
    /\ UNCHANGED <<storeVars, pending, filed, wire, callVars, heard, gone, spent>>

\* send_group_text looks the group up ...
StartText(m) ==
    /\ call[<<"text", m>>] = "new"
    /\ members[Sender[m]] # None
    /\ \A l \in Texts : l < m => call[<<"text", l>>] # "new" \* time stamps grow
    /\ call' = [call EXCEPT ![<<"text", m>>] = "spread"]
    /\ todo' = [todo EXCEPT ![<<"text", m>>] = members[Sender[m]]]
    /\ UNCHANGED <<members, storeVars, pending, filed, wire, owed, heard, gone, spent>>

\* mutant: the recall goes to the key under which the text is filed
AudienceIsKey(n, k) == {k}

\* Who is to get the recall of a text filed under k.
Audience(n, k) ==
    IF k # "group" THEN {k} ELSE IF members[n] = None THEN {} ELSE members[n]

\* recall_message marks the text, and sends the recall to the members of the
\* group, or to the peer under whom the text is filed.
StartRecall(m) ==
    LET n == Sender[m] k == row[n][m] IN
    /\ call[<<"recall", m>>] = "new"
    /\ k # None /\ Spend
    /\ MarkRecalled(n, m)
    /\ call' = [call EXCEPT ![<<"recall", m>>] = "done"]
    /\ todo' = [todo EXCEPT ![<<"recall", m>>] = Audience(n, k)]
    /\ UNCHANGED <<members, pending, filed, wire, owed, heard, gone>>

\* ... and both go through the members: each gets its copy, or has it queued.
SendCopy(kind, m, p) ==
    LET c == CopyTo(p, kind, m) IN
    /\ p \in todo[<<kind, m>>]
    /\ todo' = [todo EXCEPT ![<<kind, m>>] = @ \ {p}]
    /\ owed' = owed \cup {c}
    /\ \/ wire' = wire \cup {c} /\ UNCHANGED pending
       \/ pending' = Enqueue(c) /\ UNCHANGED wire
    /\ UNCHANGED <<members, storeVars, filed, call, heard, gone, spent>>

\* At last the text gets its one row.
FinishText(m) ==
    /\ call[<<"text", m>>] = "spread" /\ todo[<<"text", m>>] = {}
    /\ call' = [call EXCEPT ![<<"text", m>>] = "done"]
    /\ InsertText(Sender[m], m, "group")
    /\ UNCHANGED <<members, recalled, pending, filed, wire, todo, owed, heard, gone, spent>>

\* Store::delete_message: the row only.
DeleteMessage(n, m) ==
    /\ row[n][m] # None /\ Spend
    /\ row' = [row EXCEPT ![n][m] = None]
    /\ recalled' = [recalled EXCEPT ![n] = @ \ {m}]
    /\ UNCHANGED <<members, conv, pending, filed, wire, callVars, heard, gone>>

\* Store::delete_conversation: the entry only.
DeleteConversation(n, k) ==
    /\ conv[n][k] # None /\ Spend
    /\ conv' = [conv EXCEPT ![n][k] = None]
    /\ UNCHANGED <<members, row, recalled, pending, filed, wire, callVars, heard, gone>>

\* Store::delete_group: the list of members only.
DeleteGroup(n) ==
    /\ members[n] # None /\ Spend
    /\ members' = [members EXCEPT ![n] = None]
    /\ UNCHANGED <<storeVars, pending, filed, wire, callVars, heard, gone>>

-----------------------------------------------------------------------------
(* The pump. *)

\* create_group or add_group_member: the sender of a group text is a member.
Join(n, p) == IF members[n] = None THEN {p} ELSE members[n] \cup {p}

\* event_pump, Text: the group is created or joined, the text is filed under it.
HandleText(c) ==
    /\ c \in wire /\ c.kind = "text"
    /\ wire' = wire \ {c}
    /\ members' = [members EXCEPT ![c.to] = Join(c.to, From(c))]
    /\ InsertText(c.to, c.text, "group")
    /\ heard' = heard \cup {c}
    /\ UNCHANGED <<recalled, pending, filed, callVars, gone, spent>>

\* event_pump, Recall: a text that is not here is ignored.
HandleRecall(c) ==
    /\ c \in wire /\ c.kind = "recall"
    /\ wire' = wire \ {c}
    /\ IF row[c.to][c.text] # None THEN MarkRecalled(c.to, c.text) ELSE UNCHANGED storeVars
    /\ heard' = heard \cup {c}
    /\ UNCHANGED <<members, pending, filed, callVars, gone, spent>>

\* flush_pending: a queued text is sent again; it is filed, if it has no row yet,
\* in the conversation with the member.  Group texts are not acknowledged, so
\* the copy stays queued.
FlushText(c) ==
    /\ c \in pending /\ c.kind = "text"
    /\ wire' = wire \cup {c}
    /\ InsertText(From(c), c.text, c.to)
    /\ UNCHANGED <<members, recalled, pending, filed, callVars, heard, gone, spent>>

RecallStamp(m) == Cardinality(Texts) + m

\* A queued recall becomes a row without a body.
FlushRecall(c) ==
    /\ c \in pending /\ c.kind = "recall"
    /\ wire' = wire \cup {c}
    /\ IF c \in filed THEN UNCHANGED <<conv, filed>>
       ELSE /\ filed' = filed \cup {c}
            /\ conv' = [conv EXCEPT ![From(c)][c.to] = Upsert(@, RecallStamp(c.text), 0)]
    /\ UNCHANGED <<members, row, recalled, pending, callVars, heard, gone, spent>>

\* A copy that is older than PENDING_MAX_AGE leaves the queue.
Expire(c) ==
    /\ c \in pending /\ "expire" \in Faults /\ Spend
    /\ pending' = pending \ {c}
    /\ gone' = gone \cup {c}
    /\ UNCHANGED <<members, storeVars, filed, wire, callVars, heard>>

\* The connection of a copy dies: one that is not queued is lost.
Break(c) ==
    /\ c \in wire /\ "break" \in Faults /\ Spend
    /\ wire' = wire \ {c}
    /\ gone' = IF c \in pending THEN gone ELSE gone \cup {c}
    /\ UNCHANGED <<members, storeVars, pending, filed, callVars, heard>>

-----------------------------------------------------------------------------
Next ==
    \/ \E n \in Nodes :
         \/ CreateGroup(n) \/ DeleteGroup(n)
         \/ \E m \in Texts : DeleteMessage(n, m)
         \/ \E k \in Keys : DeleteConversation(n, k)
    \/ \E m \in Texts :
         \/ StartText(m) \/ FinishText(m) \/ StartRecall(m)
         \/ \E p \in Nodes, kind \in {"text", "recall"} : SendCopy(kind, m, p)
    \/ \E c \in pending : FlushText(c) \/ FlushRecall(c) \/ Expire(c)
    \/ \E c \in wire : HandleText(c) \/ HandleRecall(c) \/ Break(c)

Spec == Init /\ [][Next]_vars

-----------------------------------------------------------------------------
(* Properties. *)

\* No member is forgotten: a copy that a call has sent or queued is handled,
\* under way or still queued, unless its age or the death of the connection it
\* was handed to has taken it (send_group_text, recall_message, the primary key
\* of pending_messages, flush_pending).
NoCopyForgotten == owed \subseteq heard \cup wire \cup pending \cup gone

\* A conversation that previews a text has the time of that text as its last, in
\* whatever order texts and recalls arrive, and the text is not recalled as long
\* as it is filed in this conversation (insert_message, mark_message_recalled).
\* A preview survives the deletion of its text, which may then be filed, and
\* recalled, elsewhere.
PreviewTruthful ==
    \A n \in Nodes, k \in Keys :
        LET shown == conv[n][k].preview IN
        conv[n][k] # None /\ shown \in Texts =>
            /\ conv[n][k].last = shown
            /\ row[n][shown] = k => shown \notin recalled[n]

=============================================================================
