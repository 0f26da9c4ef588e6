--------------------------- MODULE SendJobsProofs ---------------------------
(***************************************************************************)
(* Proofs about SendJobs for any jobs, any number of attempts and any      *)
(* faults: types, that a job has one session at a time, and that what the  *)
(* history says of a transfer is how it ended.                             *)
(***************************************************************************)
EXTENDS SendJobs, FiniteSetTheorems, SequenceTheorems, TLAPS

N == 1 .. SEND_RETRY_MAX + 1

Told == {"offer"} \cup Ends

Types ==
    /\ tries \in [Jobs -> 0 .. SEND_RETRY_MAX + 1]
    /\ session \in [Tokens -> {"none", "asked", "on", "expired", "lost"} \cup Ends]
    /\ events \in Seq(Tokens \X Told)
    /\ pump \in BOOLEAN
    /\ row \in [Tokens -> {"none"} \cup Statuses]
    /\ outgoing \subseteq Tokens
    /\ retries \in [Jobs -> 0 .. SEND_RETRY_MAX]
    /\ step \in [Jobs -> {"new", "started", "recorded", "in", "out"}]
    /\ retry \in [Jobs -> {"none", "waits", "tries", "started", "renamed"}]
    /\ posted \subseteq Batches
    /\ gaveUp \subseteq Calls
    /\ spent \in 0 .. MaxSpent

\* Only files that a call has started and is done with are remembered.
Remembered ==
    \A t \in outgoing : t[1] \in Calls /\ t = Latest(t[1]) /\ step[t[1]] = "in"

\* An event tells how its session stands.
Tells(t, what) ==
    /\ what \in Ends => session[t] = what
    /\ what = "offer" => session[t] \notin {"none", "lost"} /\ t[1] \in Offers

Events ==
    \A i \in 1 .. Len(events), t \in Tokens, what \in Told :
        events[i] = <<t, what>> => Tells(t, what)

\* How a job, its call and its retry task go together: a retry task runs while
\* nothing of the job is remembered, and its attempts are counted before they
\* start a session.
JobOK(j) ==
    /\ j \in Offers => tries[j] <= 1
    /\ j \notin Offers /\ step[j] = "new" => tries[j] = 0
    /\ step[j] \in {"started", "recorded"} => j \notin Offers /\ tries[j] = 1
    /\ step[j] = "recorded" => j \in Calls
    /\ tries[j] <= retries[j] + 1
    /\ retry[j] # "none" => j \in Calls /\ step[j] = "in" /\ \A t \in outgoing : t[1] # j
    /\ retry[j] = "tries" => tries[j] <= retries[j]
    /\ retry[j] \in {"waits", "tries"} =>
          tries[j] >= 1 /\ session[<<j, tries[j]>>] \notin {"none", "on"}
    /\ retry[j] \in {"started", "renamed"} => tries[j] >= 2

JobsOK == \A j \in Jobs : JobOK(j)

\* Sessions are numbered, and only the newest of a job is under way; only offers
\* wait for a decision; after a restart nobody goes on with a job that has lost
\* its session.
SessionsOK ==
    \A j \in Jobs, n \in N :
        /\ session[<<j, n>>] = "none" <=> n > tries[j]
        /\ session[<<j, n>>] \in {"asked", "on"} => n = tries[j]
        /\ session[<<j, n>>] = "asked" => j \in Offers
        /\ session[<<j, n>>] = "lost" => step[j] = "out"

\* The rows, and that a job has one.
RowOK(t) ==
    /\ row[t] # "none" => session[t] # "none"
    /\ row[t] = "done" => session[t] = "done"
    /\ row[t] = "cancelled" => session[t] = "cancelled"
    /\ row[t] = "failed" => session[t] \notin {"none", "asked", "on"}
    /\ row[t] = "active" => session[t] # "lost"

RowsOK ==
    /\ \A t \in Tokens : RowOK(t)
    /\ \A j \in Jobs, m, n \in N : row[<<j, m>>] # "none" /\ row[<<j, n>>] # "none" => m = n

IInv == Types /\ Remembered /\ Events /\ JobsOK /\ SessionsOK /\ RowsOK

-----------------------------------------------------------------------------
(* Lemmas about the state. *)

LEMMA Kinds ==
  /\ SEND_RETRY_MAX \in Nat /\ MaxSpent \in Nat /\ N \subseteq Nat /\ 1 \in N
  /\ Tokens = Jobs \X N
  /\ Calls \cap Updates = {} /\ Calls \cap Offers = {} /\ Updates \cap Offers = {}
  /\ Calls \subseteq Jobs /\ Updates \subseteq Jobs /\ Offers \subseteq Jobs
  /\ \A j \in Jobs : j \in Calls \/ j \in Updates \/ j \in Offers
  BY SendJobsAssumption DEF N, Tokens, Jobs

LEMMA TokenParts ==
  ASSUME NEW t \in Tokens
  PROVE  t[1] \in Jobs /\ t[2] \in N /\ t = <<t[1], t[2]>>
  BY Kinds

LEMMA PutAt ==
  ASSUME NEW S, NEW f \in [Tokens -> S], NEW t \in Tokens, NEW v \in S
  PROVE  LET g == [f EXCEPT ![t] = v] IN
         /\ g \in [Tokens -> S] /\ g[t] = v
         /\ \A u \in Tokens : u # t => g[u] = f[u]
  OBVIOUS

LEMMA LatestToken ==
  ASSUME Types, NEW j \in Jobs, tries[j] >= 1
  PROVE  Latest(j) \in Tokens /\ Latest(j)[1] = j /\ tries[j] \in N
  BY Kinds DEF Types, Latest, N

-----------------------------------------------------------------------------
(* What the steps have in common. *)

LEMMA EventsKept ==
  ASSUME Types, Events, UNCHANGED <<events, session>>
  PROVE  Events'
  BY DEF Events, Tells

\* The sender of an event.
LEMMA TellEvents ==
  ASSUME Types, Events, NEW t \in Tokens, NEW what \in Told, Tell(t, what), Tells(t, what)',
         \A u \in Tokens, w \in Told : Tells(u, w) => Tells(u, w)'
  PROVE  Events' /\ events' \in Seq(Tokens \X Told)
<1>1. CASE pump
  <2>1. events' = Append(events, <<t, what>>) /\ <<t, what>> \in Tokens \X Told
    BY <1>1 DEF Tell
  <2>2. /\ events' \in Seq(Tokens \X Told) /\ Len(events') = Len(events) + 1
        /\ events'[Len(events) + 1] = <<t, what>> /\ Len(events) \in Nat
        /\ \A i \in 1 .. Len(events) : events'[i] = events[i]
    BY <2>1, AppendProperties, LenProperties DEF Types
  <2>3. ASSUME NEW i \in 1 .. Len(events'), NEW u \in Tokens, NEW w \in Told, events'[i] = <<u, w>>
        PROVE  Tells(u, w)'
    <3>1. CASE i \in 1 .. Len(events)
      <4>1. events[i] = <<u, w>>
        BY <2>2, <2>3, <3>1
      <4>2. Tells(u, w)
        BY <3>1, <4>1 DEF Events
      <4> QED
        BY <4>2
    <3>2. CASE i = Len(events) + 1
      <4>1. u = t /\ w = what
        BY <2>2, <2>3, <3>2
      <4> QED
        BY <4>1
    <3> QED
      BY <2>2, <3>1, <3>2
  <2> QED
    BY <2>2, <2>3 DEF Events
<1>2. CASE ~pump
  <2>1. events' = events
    BY <1>2 DEF Tell
  <2> QED
    BY <2>1 DEF Events, Types
<1> QED
  BY <1>1, <1>2

\* The receiver.
LEMMA HandleEvents ==
  ASSUME Types, Events, NEW what \in Told, Handle(what), UNCHANGED session
  PROVE  /\ Head(events) = <<Head(events)[1], what>> /\ Head(events)[1] \in Tokens
         /\ what \in Ends => session[Head(events)[1]] = what
         /\ what = "offer" => session[Head(events)[1]] \notin {"none", "lost"}
                              /\ Head(events)[1][1] \in Offers
         /\ Events' /\ events' \in Seq(Tokens \X Told)
<1>1. events # <<>> /\ Head(events)[2] = what /\ events' = Tail(events)
  BY DEF Handle
<1>2. /\ Head(events) \in Tokens \X Told /\ Len(events) \in Nat /\ Len(events) > 0
      /\ events' \in Seq(Tokens \X Told) /\ Len(events') = Len(events) - 1
      /\ Head(events) = events[1]
      /\ \A i \in 1 .. Len(events) - 1 : events'[i] = events[i + 1]
  BY <1>1, HeadTailProperties, LenProperties, EmptySeq DEF Types
<1>3. PICK t \in Tokens : events[1] = <<t, what>> /\ Head(events)[1] = t
  BY <1>1, <1>2
<1>4. Tells(t, what)
  BY <1>2, <1>3 DEF Events
<1>5. ASSUME NEW i \in 1 .. Len(events'), NEW u \in Tokens, NEW w \in Told, events'[i] = <<u, w>>
      PROVE  Tells(u, w)'
  <2>1. i + 1 \in 1 .. Len(events) /\ events[i + 1] = <<u, w>>
    BY <1>2, <1>5
  <2>2. Tells(u, w)
    BY <2>1 DEF Events
  <2> QED
    BY <2>2 DEF Tells
<1> QED
  BY <1>2, <1>3, <1>4, <1>5 DEF Events, Tells


LEMMA JobKept ==
  ASSUME NEW j \in Jobs, JobOK(j), UNCHANGED <<tries[j], retries[j], step[j], retry[j]>>,
         tries[j] >= 1 => session'[<<j, tries[j]>>] = session[<<j, tries[j]>>],
         \A t \in outgoing' : t[1] = j => t \in outgoing
  PROVE  JobOK(j)'
  BY DEF JobOK

LEMMA RememberedKept ==
  ASSUME Remembered, Types, UNCHANGED tries, outgoing' \subseteq outgoing,
         \A j \in Jobs : step[j] = "in" => step'[j] = "in"
  PROVE  Remembered'
  BY Kinds DEF Remembered, Latest, Types

LEMMA SessionsKept ==
  ASSUME SessionsOK, UNCHANGED <<tries, session>>,
         \A j \in Jobs : step[j] = "out" => step'[j] = "out"
  PROVE  SessionsOK'
  BY DEF SessionsOK

LEMMA RowsKept ==
  ASSUME RowsOK, UNCHANGED <<row, session>>
  PROVE  RowsOK'
  BY DEF RowsOK, RowOK

\* A session begins, where none of the job is under way.
LEMMA NewSessionStep ==
  ASSUME Types, SessionsOK, RowsOK, NEW j \in Jobs, tries[j] <= SEND_RETRY_MAX,
         \A n \in N : session[<<j, n>>] \notin {"asked", "on"},
         NEW how \in {"asked", "on"}, how = "asked" => j \in Offers,
         NewSession(j, how), UNCHANGED row,
         \A i \in Jobs : step[i] = "out" => step'[i] = "out"
  PROVE  /\ tries' \in [Jobs -> 0 .. SEND_RETRY_MAX + 1] /\ tries'[j] = tries[j] + 1
         /\ \A i \in Jobs : i # j => tries'[i] = tries[i]
         /\ session' \in [Tokens -> {"none", "asked", "on", "expired", "lost"} \cup Ends]
         /\ session'[<<j, tries[j] + 1>>] = how /\ <<j, tries[j] + 1>> \in Tokens
         /\ \A t \in Tokens : t # <<j, tries[j] + 1>> => session'[t] = session[t]
         /\ SessionsOK' /\ RowsOK'
         /\ \A u \in Tokens, w \in Told : Tells(u, w) => Tells(u, w)'
<1> DEFINE m == tries[j] + 1
           new == <<j, m>>
<1>1. m \in N /\ new \in Tokens /\ tries[j] \in Nat
  BY Kinds DEF Types, N
<1>2. /\ tries' \in [Jobs -> 0 .. SEND_RETRY_MAX + 1] /\ tries'[j] = m
      /\ \A i \in Jobs : i # j => tries'[i] = tries[i]
  BY <1>1 DEF NewSession, Types, N
<1>3. /\ session' \in [Tokens -> {"none", "asked", "on", "expired", "lost"} \cup Ends] /\ session'[new] = how
      /\ \A t \in Tokens : t # new => session'[t] = session[t]
  <2>1. session' = [session EXCEPT ![new] = how]
    BY DEF NewSession
  <2> HIDE DEF new
  <2> QED
    BY <1>1, <2>1, PutAt DEF Types
<1>4. session[new] = "none"
  BY <1>1 DEF SessionsOK
<1>5. SessionsOK'
  <2> SUFFICES ASSUME NEW i \in Jobs, NEW n \in N
               PROVE  /\ session'[<<i, n>>] = "none" <=> n > tries'[i]
                      /\ session'[<<i, n>>] \in {"asked", "on"} => n = tries'[i]
                      /\ session'[<<i, n>>] = "asked" => i \in Offers
                      /\ session'[<<i, n>>] = "lost" => step'[i] = "out"
    BY DEF SessionsOK
  <2>1. CASE i = j /\ n = m
    BY <1>1, <1>2, <1>3, <2>1, Kinds
  <2>2. CASE i = j /\ n # m
    <3>1. session'[<<i, n>>] = session[<<i, n>>] /\ session[<<i, n>>] \notin {"asked", "on"} /\ n \in Nat
      BY <1>3, <2>2, Kinds
    <3>2. n > tries'[i] <=> n > tries[i]
      BY <1>1, <1>2, <2>2, <3>1
    <3> QED
      BY <3>1, <3>2 DEF SessionsOK
  <2>3. CASE i # j
    <3>1. session'[<<i, n>>] = session[<<i, n>>] /\ tries'[i] = tries[i]
      BY <1>2, <1>3, <2>3, Kinds
    <3> QED
      BY <3>1 DEF SessionsOK
  <2> QED
    BY <2>1, <2>2, <2>3
<1>6. RowsOK'
  <2>1. row[new] = "none"
    BY <1>1, <1>4 DEF RowsOK, RowOK
  <2>2. ASSUME NEW t \in Tokens PROVE RowOK(t)'
    BY <1>3, <2>1 DEF RowsOK, RowOK
  <2> QED
    BY <2>2 DEF RowsOK
<1>7. ASSUME NEW u \in Tokens, NEW w \in Told, Tells(u, w) PROVE Tells(u, w)'
  <2>1. CASE u = new
    BY <1>4, <1>7, <2>1 DEF Tells, Told, Ends
  <2>2. CASE u # new
    BY <1>3, <1>7, <2>2 DEF Tells
  <2> QED
    BY <2>1, <2>2
<1> QED
  BY <1>1, <1>2, <1>3, <1>5, <1>6, <1>7

\* A row is written, the only one of its job.
LEMMA RowPut ==
  ASSUME Types, RowsOK, NEW t \in Tokens, NEW v \in {"none"} \cup Statuses,
         row' = [row EXCEPT ![t] = v], UNCHANGED session,
         v # "none" => session[t] # "none",
         v = "done" => session[t] = "done",
         v = "cancelled" => session[t] = "cancelled",
         v = "failed" => session[t] \notin {"none", "asked", "on"},
         v = "active" => session[t] # "lost",
         v # "none" => \A n \in N : row[<<t[1], n>>] # "none" => n = t[2]
  PROVE  row' \in [Tokens -> {"none"} \cup Statuses] /\ RowsOK'
<1>1. /\ row' \in [Tokens -> {"none"} \cup Statuses] /\ row'[t] = v
      /\ \A u \in Tokens : u # t => row'[u] = row[u]
  BY PutAt DEF Types
<1>2. ASSUME NEW u \in Tokens PROVE RowOK(u)'
  BY <1>1 DEF RowsOK, RowOK
<1>3. ASSUME NEW j \in Jobs, NEW m \in N, NEW n \in N,
             row'[<<j, m>>] # "none", row'[<<j, n>>] # "none"
      PROVE  m = n
  <2>1. CASE j # t[1]
    BY <1>1, <1>3, <2>1, Kinds DEF RowsOK
  <2>2. CASE j = t[1]
    <3>1. t = <<j, t[2]>> /\ t[2] \in N
      BY <2>2, TokenParts
    <3>2. \A i \in N : row'[<<j, i>>] # "none" => i = t[2] \/ row[<<j, i>>] # "none"
      BY <1>1, <3>1, Kinds
    <3>3. CASE v = "none"
      BY <1>1, <1>3, <3>1, <3>2, <3>3 DEF RowsOK
    <3>4. CASE v # "none"
      BY <1>3, <2>2, <3>2, <3>4
    <3> QED
      BY <3>3, <3>4
  <2> QED
    BY <2>1, <2>2
<1> QED
  BY <1>1, <1>2, <1>3 DEF RowsOK

\* Store::record_transfer_finish, when the session has ended like that.
LEMMA FinishRow ==
  ASSUME Types, RowsOK, NEW t \in Tokens, NEW status \in {"done", "failed", "cancelled"},
         RecordFinish(t, status), UNCHANGED session,
         session[t] \notin {"none", "asked", "on"},
         status = "failed" \/ session[t] = status
  PROVE  row' \in [Tokens -> {"none"} \cup Statuses] /\ RowsOK'
<1>1. t = <<t[1], t[2]>> /\ t[1] \in Jobs /\ t[2] \in N
  BY TokenParts
<1>2. CASE row[t] = "none"
  <2>1. row' = row
    BY <1>2 DEF RecordFinish, Types
  <2> QED
    BY <2>1, RowsKept DEF Types
<1>3. CASE row[t] # "none"
  <2>1. row' = [row EXCEPT ![t] = status] /\ status \in {"none"} \cup Statuses
    BY <1>3 DEF RecordFinish, Statuses
  <2>2. \A n \in N : row[<<t[1], n>>] # "none" => n = t[2]
    BY <1>1, <1>3 DEF RowsOK
  <2> QED
    BY <2>1, <2>2, RowPut
<1> QED
  BY <1>2, <1>3

-----------------------------------------------------------------------------
LEMMA InitInv == Init => IInv
<1> SUFFICES ASSUME Init PROVE IInv
  OBVIOUS
<1> USE DEF Init
<1>1. events \in Seq(Tokens \X Told) /\ Len(events) = 0
  BY EmptySeq
<1>2. Types
  BY <1>1, Kinds DEF Types
<1>3. Remembered /\ Events
  BY <1>1 DEF Remembered, Events
<1>4. JobsOK
  BY Kinds DEF JobsOK, JobOK
<1>5. SessionsOK
  BY Kinds DEF SessionsOK, N
<1>6. RowsOK
  BY Kinds DEF RowsOK, RowOK
<1> QED
  BY <1>2, <1>3, <1>4, <1>5, <1>6 DEF IInv

-----------------------------------------------------------------------------
(* The calls. *)

LEMMA StartSessionInv ==
  ASSUME IInv, NEW j \in Jobs, StartSession(j)
  PROVE  IInv'
<1> USE DEF IInv
<1>1. /\ step[j] = "new" /\ j \notin Offers /\ NewSession(j, "on")
      /\ step' = [step EXCEPT ![j] = "started"]
      /\ UNCHANGED <<events, pump, row, outgoing, retries, retry, posted, gaveUp, spent>>
  BY DEF StartSession, Turn
<1>2. \A i \in Jobs : step'[i] = IF i = j THEN "started" ELSE step[i]
  BY <1>1 DEF Types
<1>3. tries[j] = 0
  BY <1>1 DEF JobsOK, JobOK
<1>4. \A n \in N : session[<<j, n>>] \notin {"asked", "on"}
  BY <1>3, Kinds DEF SessionsOK, N
<1>5. /\ tries' \in [Jobs -> 0 .. SEND_RETRY_MAX + 1] /\ tries'[j] = 1
      /\ \A i \in Jobs : i # j => tries'[i] = tries[i]
      /\ session' \in [Tokens -> {"none", "asked", "on", "expired", "lost"} \cup Ends]
      /\ \A t \in Tokens : t # <<j, 1>> => session'[t] = session[t]
      /\ SessionsOK' /\ RowsOK'
      /\ \A u \in Tokens, w \in Told : Tells(u, w) => Tells(u, w)'
  <2>1. tries[j] <= SEND_RETRY_MAX /\ \A i \in Jobs : step[i] = "out" => step'[i] = "out"
    BY <1>1, <1>2, <1>3, Kinds
  <2>2. tries[j] + 1 = 1
    BY <1>3
  <2>3. /\ tries' \in [Jobs -> 0 .. SEND_RETRY_MAX + 1] /\ tries'[j] = tries[j] + 1
        /\ \A i \in Jobs : i # j => tries'[i] = tries[i]
        /\ session' \in [Tokens -> {"none", "asked", "on", "expired", "lost"} \cup Ends]
        /\ \A t \in Tokens : t # <<j, tries[j] + 1>> => session'[t] = session[t]
        /\ SessionsOK' /\ RowsOK'
        /\ \A u \in Tokens, w \in Told : Tells(u, w) => Tells(u, w)'
    BY <1>1, <1>4, <2>1, NewSessionStep
  <2> QED
    BY <2>2, <2>3
<1>6. Types'
  BY <1>1, <1>5 DEF Types
<1>7. Events'
  BY <1>1, <1>5, Zenon DEF Events
<1>8. \A t \in outgoing : t[1] # j
  BY <1>1 DEF Remembered
<1>9. Remembered'
  <2>1. ASSUME NEW t \in outgoing PROVE t[1] \in Calls /\ t = <<t[1], tries'[t[1]]>> /\ step'[t[1]] = "in"
    BY <1>2, <1>5, <1>8, Kinds DEF Remembered, Latest
  <2> QED
    BY <1>1, <2>1 DEF Remembered, Latest
<1>10. JobsOK'
  <2>1. ASSUME NEW i \in Jobs, i # j PROVE JobOK(i)'
    <3>1. tries[i] >= 1 => session'[<<i, tries[i]>>] = session[<<i, tries[i]>>]
      BY <1>5, <2>1, LatestToken DEF Latest
    <3> QED
      BY <1>1, <1>2, <1>5, <2>1, <3>1, JobKept DEF JobsOK
  <2>2. JobOK(j)'
    <3>1. JobOK(j) /\ retry[j] = "none" /\ retries[j] \in Nat
      BY <1>1 DEF JobsOK, JobOK, Types
    <3>2. retries'[j] = retries[j] /\ retry'[j] = "none" /\ step'[j] = "started" /\ tries'[j] = 1
      BY <1>1, <1>2, <1>5, <3>1
    <3> QED
      BY <1>1, <3>1, <3>2 DEF JobOK
  <2> QED
    BY <2>1, <2>2 DEF JobsOK
<1> QED
  BY <1>5, <1>6, <1>7, <1>9, <1>10

LEMMA StartFailsInv ==
  ASSUME IInv, NEW j \in Jobs, StartFails(j)
  PROVE  IInv'
<1> USE DEF IInv
<1>1. /\ step[j] = "new" /\ j \notin Offers /\ step' = [step EXCEPT ![j] = "out"]
      /\ UNCHANGED <<tries, session, events, pump, row, outgoing, retries, retry, posted, gaveUp, spent>>
  BY DEF StartFails, Turn
<1>2. \A i \in Jobs : step'[i] = IF i = j THEN "out" ELSE step[i]
  BY <1>1 DEF Types
<1>3. Types' /\ Events' /\ SessionsOK' /\ RowsOK' /\ Remembered'
  <2>1. Types'
    BY <1>1 DEF Types
  <2> QED
    BY <1>1, <1>2, <2>1, EventsKept, SessionsKept, RowsKept, RememberedKept
<1>4. JobsOK'
  <2>1. ASSUME NEW i \in Jobs, i # j PROVE JobOK(i)'
    BY <1>1, <1>2, <2>1, JobKept DEF JobsOK
  <2>2. JobOK(j)'
    BY <1>1, <1>2 DEF JobsOK, JobOK
  <2> QED
    BY <2>1, <2>2 DEF JobsOK
<1> QED
  BY <1>3, <1>4

LEMMA RecordInv ==
  ASSUME IInv, NEW j \in Jobs, Record(j)
  PROVE  IInv'
<1> USE DEF IInv
<1> DEFINE s == IF j \in Updates THEN "in" ELSE "recorded"
<1>1. /\ step[j] = "started" /\ row' = [row EXCEPT ![<<j, 1>>] = "active"]
      /\ step' = [step EXCEPT ![j] = s] /\ s \in {"in", "recorded"}
      /\ UNCHANGED <<tries, session, events, pump, outgoing, retries, retry, posted, gaveUp, spent>>
  BY DEF Record, RecordStart
<1>2. j \notin Offers /\ tries[j] = 1 /\ retry[j] = "none" /\ (s = "recorded" => j \in Calls)
  BY <1>1, Kinds DEF JobsOK, JobOK
<1> HIDE DEF s
<1>3. \A i \in Jobs : step'[i] = IF i = j THEN s ELSE step[i]
  BY <1>1 DEF Types
<1>4. row' \in [Tokens -> {"none"} \cup Statuses] /\ RowsOK'
  <2>1. <<j, 1>> \in Tokens /\ "active" \in {"none"} \cup Statuses
    BY Kinds DEF Statuses
  <2>2. session[<<j, 1>>] # "none" /\ session[<<j, 1>>] # "lost"
    BY <1>1, <1>2, Kinds DEF SessionsOK
  <2>3. \A n \in N : row[<<j, n>>] # "none" => n = 1
    <3> SUFFICES ASSUME NEW n \in N, row[<<j, n>>] # "none" PROVE n = 1
      OBVIOUS
    <3>1. session[<<j, n>>] # "none"
      BY Kinds DEF RowsOK, RowOK
    <3> QED
      BY <1>2, <3>1, Kinds DEF SessionsOK, N
  <2> QED
    BY <1>1, <2>1, <2>2, <2>3, RowPut
<1>5. Types'
  BY <1>1, <1>4 DEF Types
<1>6. Events' /\ SessionsOK' /\ Remembered'
  BY <1>1, <1>3, EventsKept, SessionsKept, RememberedKept
<1>7. JobsOK'
  <2>1. ASSUME NEW i \in Jobs, i # j PROVE JobOK(i)'
    BY <1>1, <1>3, <2>1, JobKept DEF JobsOK
  <2>2. JobOK(j)'
    BY <1>1, <1>2, <1>3 DEF JobsOK, JobOK
  <2> QED
    BY <2>1, <2>2 DEF JobsOK
<1> QED
  BY <1>4, <1>5, <1>6, <1>7

LEMMA RememberInv ==
  ASSUME IInv, NEW j \in Jobs, Remember(j)
  PROVE  IInv'
<1> USE DEF IInv
<1>1. /\ step[j] = "recorded" /\ outgoing' = outgoing \cup {<<j, 1>>}
      /\ step' = [step EXCEPT ![j] = "in"]
      /\ UNCHANGED <<tries, session, events, pump, row, retries, retry, posted, gaveUp, spent>>
  BY DEF Remember
<1>2. tries[j] = 1 /\ retry[j] = "none" /\ j \in Calls
  BY <1>1 DEF JobsOK, JobOK
<1>3. \A i \in Jobs : step'[i] = IF i = j THEN "in" ELSE step[i]
  BY <1>1 DEF Types
<1>4. Types'
  BY <1>1, Kinds DEF Types
<1>5. Events' /\ SessionsOK' /\ RowsOK'
  BY <1>1, <1>3, EventsKept, SessionsKept, RowsKept
<1>6. Remembered'
  <2>1. ASSUME NEW t \in outgoing' PROVE t[1] \in Calls /\ t = <<t[1], tries[t[1]]>> /\ step'[t[1]] = "in"
    BY <1>1, <1>2, <1>3, Kinds DEF Remembered, Latest
  <2> QED
    BY <1>1, <2>1 DEF Remembered, Latest
<1>7. JobsOK'
  <2>1. ASSUME NEW i \in Jobs, i # j PROVE JobOK(i)'
    BY <1>1, <1>3, <2>1, JobKept DEF JobsOK
  <2>2. JobOK(j)'
    <3>1. JobOK(j) /\ tries' = tries /\ retries' = retries /\ retry'[j] = "none" /\ step'[j] = "in"
      BY <1>1, <1>2, <1>3 DEF JobsOK
    <3> QED
      BY <1>2, <3>1 DEF JobOK
  <2> QED
    BY <2>1, <2>2 DEF JobsOK
<1> QED
  BY <1>4, <1>5, <1>6, <1>7

\* A step that leaves all but events and rows alone.
LEMMA RestKept ==
  ASSUME IInv, UNCHANGED <<tries, session, retries, step, retry>>, outgoing' \subseteq outgoing
  PROVE  Remembered' /\ JobsOK' /\ SessionsOK'
<1> USE DEF IInv
<1>1. JobsOK'
  BY JobKept DEF JobsOK
<1> QED
  BY <1>1, RememberedKept, SessionsKept

LEMMA PostInv ==
  ASSUME IInv, NEW B \in Batches, Post(B)
  PROVE  IInv'
<1> USE DEF IInv
<1>1. /\ posted' = posted \cup {B}
      /\ UNCHANGED <<tries, session, events, pump, row, outgoing, retries, step, retry, gaveUp, spent>>
  BY DEF Post
<1>2. Types'
  BY <1>1 DEF Types
<1> QED
  BY <1>1, <1>2, RestKept, EventsKept, RowsKept

-----------------------------------------------------------------------------
(* The node and the pump. *)

LEMMA OfferArrivesInv ==
  ASSUME IInv, NEW j \in Jobs, OfferArrives(j)
  PROVE  IInv'
<1> USE DEF IInv
<1>1. /\ j \in Offers /\ tries[j] = 0 /\ NewSession(j, "asked") /\ Tell(<<j, 1>>, "offer")
      /\ UNCHANGED <<pump, row, outgoing, retries, step, retry, posted, gaveUp, spent>>
  BY DEF OfferArrives, taskVars
<1>2. \A n \in N : session[<<j, n>>] \notin {"asked", "on"}
  BY <1>1, Kinds DEF SessionsOK, N
<1>3. /\ tries' \in [Jobs -> 0 .. SEND_RETRY_MAX + 1] /\ tries'[j] = 1
      /\ \A i \in Jobs : i # j => tries'[i] = tries[i]
      /\ session' \in [Tokens -> {"none", "asked", "on", "expired", "lost"} \cup Ends]
      /\ session'[<<j, 1>>] = "asked"
      /\ \A t \in Tokens : t # <<j, 1>> => session'[t] = session[t]
      /\ SessionsOK' /\ RowsOK'
      /\ \A u \in Tokens, w \in Told : Tells(u, w) => Tells(u, w)'
  <2>1. tries[j] <= SEND_RETRY_MAX /\ tries[j] + 1 = 1
    BY <1>1, Kinds
  <2>2. /\ tries' \in [Jobs -> 0 .. SEND_RETRY_MAX + 1] /\ tries'[j] = tries[j] + 1
        /\ \A i \in Jobs : i # j => tries'[i] = tries[i]
        /\ session' \in [Tokens -> {"none", "asked", "on", "expired", "lost"} \cup Ends]
        /\ session'[<<j, tries[j] + 1>>] = "asked"
        /\ \A t \in Tokens : t # <<j, tries[j] + 1>> => session'[t] = session[t]
        /\ SessionsOK' /\ RowsOK'
        /\ \A u \in Tokens, w \in Told : Tells(u, w) => Tells(u, w)'
    BY <1>1, <1>2, <2>1, NewSessionStep
  <2> QED
    BY <2>1, <2>2
<1>4. Events' /\ events' \in Seq(Tokens \X Told)
  <2>1. <<j, 1>> \in Tokens /\ "offer" \in Told /\ Tells(<<j, 1>>, "offer")'
    BY <1>1, <1>3, Kinds DEF Tells, Told, Ends
  <2> QED
    BY <1>1, <1>3, <2>1, TellEvents
<1>5. Types'
  BY <1>1, <1>3, <1>4 DEF Types
<1>6. Remembered'
  <2>1. ASSUME NEW t \in outgoing PROVE t[1] \in Calls /\ t = <<t[1], tries'[t[1]]>> /\ step[t[1]] = "in"
    BY <1>1, <1>3, Kinds DEF Remembered, Latest
  <2> QED
    BY <1>1, <2>1 DEF Remembered, Latest
<1>7. JobsOK'
  <2>1. ASSUME NEW i \in Jobs, i # j PROVE JobOK(i)'
    <3>1. tries[i] >= 1 => session'[<<i, tries[i]>>] = session[<<i, tries[i]>>]
      BY <1>3, <2>1, LatestToken DEF Latest
    <3> QED
      BY <1>1, <1>3, <2>1, <3>1, JobKept DEF JobsOK
  <2>2. JobOK(j)'
    <3>1. retry[j] = "none" /\ retries[j] \in Nat /\ step[j] \notin {"started", "recorded"}
      <4>1. JobOK(j) /\ j \notin Calls /\ retries[j] \in Nat
        BY <1>1, Kinds DEF JobsOK, Types
      <4> QED
        BY <1>1, <4>1 DEF JobOK
    <3>2. retries'[j] = retries[j] /\ retry'[j] = "none" /\ step'[j] = step[j] /\ tries'[j] = 1
      BY <1>1, <1>3, <3>1
    <3> QED
      BY <1>1, <3>1, <3>2, Kinds DEF JobOK
  <2> QED
    BY <2>1, <2>2 DEF JobsOK
<1> QED
  BY <1>3, <1>4, <1>5, <1>6, <1>7

\* A session that waits is taken, and one that waits or is under way ends.
LEMMA SessionMoves ==
  ASSUME IInv, NEW t \in Tokens, NEW s \in {"on", "expired"} \cup Ends,
         session[t] \in {"asked", "on"}, s = "on" => session[t] = "asked",
         session' = [session EXCEPT ![t] = s],
         UNCHANGED <<tries, row, outgoing, retries, step, retry>>
  PROVE  /\ session' \in [Tokens -> {"none", "asked", "on", "expired", "lost"} \cup Ends]
         /\ session'[t] = s
         /\ \A u \in Tokens, w \in Told : Tells(u, w) => Tells(u, w)'
         /\ SessionsOK' /\ RowsOK' /\ Remembered' /\ JobsOK'
<1> USE DEF IInv
<1>1. s \notin {"none", "asked", "lost", "offer"}
  BY DEF Ends
<1>2. /\ session' \in [Tokens -> {"none", "asked", "on", "expired", "lost"} \cup Ends]
      /\ session'[t] = s
      /\ \A u \in Tokens : u # t => session'[u] = session[u]
  BY PutAt DEF Types
<1>3. ASSUME NEW u \in Tokens, NEW w \in Told, Tells(u, w) PROVE Tells(u, w)'
  <2>1. CASE u = t
    BY <1>1, <1>2, <1>3, <2>1 DEF Tells, Ends
  <2>2. CASE u # t
    BY <1>2, <1>3, <2>2 DEF Tells
  <2> QED
    BY <2>1, <2>2
<1>4. SessionsOK'
  <2>1. ASSUME NEW i \in Jobs, NEW n \in N
        PROVE  /\ session'[<<i, n>>] = "none" <=> n > tries[i]
               /\ session'[<<i, n>>] \in {"asked", "on"} => n = tries[i]
               /\ session'[<<i, n>>] = "asked" => i \in Offers
               /\ session'[<<i, n>>] = "lost" => step[i] = "out"
    BY <1>1, <1>2, Kinds DEF SessionsOK
  <2> QED
    BY <2>1 DEF SessionsOK
<1>5. RowsOK'
  <2>1. ASSUME NEW u \in Tokens PROVE RowOK(u)'
    BY <1>1, <1>2 DEF RowsOK, RowOK
  <2> QED
    BY <2>1 DEF RowsOK
<1>6. Remembered'
  BY RememberedKept
<1>7. JobsOK'
  <2>1. ASSUME NEW i \in Jobs PROVE JobOK(i)'
    <3>1. CASE t # <<i, tries[i]>>
      <4>1. tries[i] >= 1 => session'[<<i, tries[i]>>] = session[<<i, tries[i]>>]
        BY <1>2, <3>1, LatestToken DEF Latest
      <4> QED
        BY <4>1, JobKept DEF JobsOK
    <3>2. CASE t = <<i, tries[i]>>
      <4>1. JobOK(i) /\ tries[i] \in N
        BY <3>2, Kinds DEF JobsOK
      <4>2. s = "on" => i \notin Calls
        BY <3>2, <4>1, Kinds DEF SessionsOK
      <4> QED
        BY <1>1, <1>2, <3>2, <4>1, <4>2 DEF JobOK
    <3> QED
      BY <3>1, <3>2
  <2> QED
    BY <2>1 DEF JobsOK
<1> QED
  BY <1>2, <1>3, <1>4, <1>5, <1>6, <1>7

LEMMA SessionEndsInv ==
  ASSUME IInv, NEW t \in Tokens, NEW end \in Ends, SessionEnds(t, end)
  PROVE  IInv'
<1> USE DEF IInv
<1>1. /\ session[t] \in {"asked", "on"} /\ session' = [session EXCEPT ![t] = end] /\ Tell(t, end)
      /\ UNCHANGED <<tries, pump, row, outgoing, retries, step, retry, posted, gaveUp, spent>>
  BY DEF SessionEnds, taskVars
<1>2. end \notin {"on", "offer"} /\ end \in Told
  BY DEF Ends, Told
<1>3. /\ session' \in [Tokens -> {"none", "asked", "on", "expired", "lost"} \cup Ends]
      /\ session'[t] = end
      /\ \A u \in Tokens, w \in Told : Tells(u, w) => Tells(u, w)'
      /\ SessionsOK' /\ RowsOK' /\ Remembered' /\ JobsOK'
  BY <1>1, <1>2, SessionMoves
<1>4. Events' /\ events' \in Seq(Tokens \X Told)
  <2>1. Tells(t, end)'
    BY <1>2, <1>3 DEF Tells
  <2> QED
    BY <1>1, <1>2, <1>3, <2>1, TellEvents
<1>5. Types'
  BY <1>1, <1>3, <1>4 DEF Types
<1> QED
  BY <1>3, <1>4, <1>5

\* The decision on an offer, and an offer that expires: neither is told.
LEMMA SilentMoveInv ==
  ASSUME IInv, NEW t \in Tokens, Accept(t) \/ OfferExpires(t)
  PROVE  IInv'
<1> USE DEF IInv
<1>1. PICK s \in {"on", "expired"} :
        /\ session[t] = "asked" /\ session' = [session EXCEPT ![t] = s]
        /\ UNCHANGED <<tries, events, pump, row, outgoing, retries, step, retry, posted, gaveUp, spent>>
  BY DEF Accept, OfferExpires, taskVars
<1>2. /\ session' \in [Tokens -> {"none", "asked", "on", "expired", "lost"} \cup Ends]
      /\ \A u \in Tokens, w \in Told : Tells(u, w) => Tells(u, w)'
      /\ SessionsOK' /\ RowsOK' /\ Remembered' /\ JobsOK'
  BY <1>1, SessionMoves
<1>3. Events'
  BY <1>1, <1>2, Zenon DEF Events
<1>4. Types'
  BY <1>1, <1>2 DEF Types
<1> QED
  BY <1>2, <1>3, <1>4

LEMMA HandleOfferInv ==
  ASSUME IInv, HandleOffer
  PROVE  IInv'
<1> USE DEF IInv
<1> DEFINE t == Head(events)[1]
<1>1. /\ Handle("offer") /\ row' = [row EXCEPT ![t] = "active"]
      /\ UNCHANGED <<tries, session, pump, outgoing, retries, step, retry, posted, gaveUp, spent>>
  BY DEF HandleOffer, RecordStart, taskVars
<1>2. "offer" \in Told
  BY DEF Told
<1>3. /\ t \in Tokens /\ session[t] \notin {"none", "lost"} /\ t[1] \in Offers
      /\ Events' /\ events' \in Seq(Tokens \X Told)
  BY <1>1, <1>2, HandleEvents
<1> HIDE DEF t
<1>4. row' \in [Tokens -> {"none"} \cup Statuses] /\ RowsOK'
  <2>1. t[1] \in Jobs /\ t[2] \in N /\ t = <<t[1], t[2]>> /\ tries[t[1]] <= 1 /\ tries[t[1]] \in Nat
    <3>1. t[1] \in Jobs /\ t[2] \in N /\ t = <<t[1], t[2]>>
      BY <1>3, TokenParts
    <3>2. JobOK(t[1]) /\ tries[t[1]] \in Nat
      BY <3>1 DEF JobsOK, Types
    <3> QED
      BY <1>3, <3>1, <3>2 DEF JobOK
  <2>2. \A n \in N : session[<<t[1], n>>] # "none" => n = 1
    BY <2>1, Kinds DEF SessionsOK, N
  <2>3. \A n \in N : row[<<t[1], n>>] # "none" => n = t[2]
    BY <1>3, <2>1, <2>2, Kinds DEF RowsOK, RowOK
  <2>4. "active" \in {"none"} \cup Statuses
    BY DEF Statuses
  <2> QED
    BY <1>1, <1>3, <2>3, <2>4, RowPut
<1>5. Types'
  BY <1>1, <1>3, <1>4 DEF Types
<1> QED
  BY <1>1, <1>3, <1>4, <1>5, RestKept

LEMMA HandleDoneInv ==
  ASSUME IInv, HandleDone
  PROVE  IInv'
<1> USE DEF IInv
<1> DEFINE t == Head(events)[1]
<1>1. /\ Handle("done") /\ RecordFinish(t, "done") /\ outgoing' \subseteq outgoing
      /\ UNCHANGED <<tries, session, pump, retries, step, retry, posted, gaveUp, spent>>
  BY DEF HandleDone
<1>2. "done" \in Told /\ "done" \in Ends
  BY DEF Told, Ends
<1>3. t \in Tokens /\ session[t] = "done" /\ Events' /\ events' \in Seq(Tokens \X Told)
  BY <1>1, <1>2, HandleEvents
<1> HIDE DEF t
<1>4. row' \in [Tokens -> {"none"} \cup Statuses] /\ RowsOK'
  BY <1>1, <1>3, FinishRow
<1>5. Types'
  BY <1>1, <1>3, <1>4 DEF Types
<1> QED
  BY <1>1, <1>3, <1>4, <1>5, RestKept

LEMMA HandleRefusedInv ==
  ASSUME IInv, HandleRefused
  PROVE  IInv'
<1> USE DEF IInv
<1> DEFINE t == Head(events)[1]
<1>1. PICK end \in {"refused", "cancelled"} :
        /\ Handle(end) /\ RecordFinish(t, IF end = "refused" THEN "failed" ELSE "cancelled")
        /\ UNCHANGED <<tries, session, pump, outgoing, retries, step, retry, posted, gaveUp, spent>>
  BY DEF HandleRefused, taskVars
<1>2. end \in Told /\ end \in Ends
  BY <1>1 DEF Told, Ends
<1>3. t \in Tokens /\ session[t] = end /\ Events' /\ events' \in Seq(Tokens \X Told)
  BY <1>1, <1>2, HandleEvents
<1> HIDE DEF t
<1>4. row' \in [Tokens -> {"none"} \cup Statuses] /\ RowsOK'
  <2> DEFINE s == IF end = "refused" THEN "failed" ELSE "cancelled"
  <2>1. s \in {"done", "failed", "cancelled"} /\ (s = "failed" \/ session[t] = s)
        /\ session[t] \notin {"none", "asked", "on"}
    BY <1>1, <1>3
  <2>2. RecordFinish(t, s)
    BY <1>1
  <2> HIDE DEF s
  <2> QED
    BY <1>1, <1>3, <2>1, <2>2, FinishRow
<1>5. Types'
  BY <1>1, <1>3, <1>4 DEF Types
<1> QED
  BY <1>1, <1>3, <1>4, <1>5, RestKept

LEMMA HandleBrokenInv ==
  ASSUME IInv, HandleBroken
  PROVE  IInv'
<1> USE DEF IInv
<1>1. /\ Handle("broken") /\ RecordFinish(Head(events)[1], "failed")
      /\ outgoing' = outgoing \ {Head(events)[1]}
      /\ retry' = IF Head(events)[1] \in outgoing
                  THEN [retry EXCEPT ![Head(events)[1][1]] = "waits"] ELSE retry
      /\ UNCHANGED <<tries, session, pump, retries, step, posted, gaveUp, spent>>
  BY DEF HandleBroken
<1>2. "broken" \in Told /\ "broken" \in Ends
  BY DEF Told, Ends
<1>3. /\ Head(events)[1] \in Tokens /\ session[Head(events)[1]] = "broken"
      /\ Events' /\ events' \in Seq(Tokens \X Told)
  BY <1>1, <1>2, HandleEvents
<1>4. PICK t \in Tokens : t = Head(events)[1]
  BY <1>3
<1>5. /\ RecordFinish(t, "failed") /\ outgoing' = outgoing \ {t} /\ session[t] = "broken"
      /\ retry' = IF t \in outgoing THEN [retry EXCEPT ![t[1]] = "waits"] ELSE retry
  BY <1>1, <1>3, <1>4
<1>6. row' \in [Tokens -> {"none"} \cup Statuses] /\ RowsOK'
  <2>1. session[t] \notin {"none", "asked", "on"}
    BY <1>5
  <2> QED
    BY <1>1, <1>5, <2>1, FinishRow
<1>7. PICK j \in Jobs : j = t[1]
  BY TokenParts
<1>8. /\ retry' \in [Jobs -> {"none", "waits", "tries", "started", "renamed"}]
      /\ \A i \in Jobs : retry'[i] = IF t \in outgoing /\ i = j THEN "waits" ELSE retry[i]
  BY <1>5, <1>7 DEF Types
<1>9. Types'
  BY <1>1, <1>3, <1>5, <1>6, <1>8 DEF Types
<1>10. Remembered' /\ SessionsOK'
  BY <1>1, <1>5, RememberedKept, SessionsKept
<1>11. JobsOK'
  <2>1. ASSUME NEW i \in Jobs, ~(t \in outgoing /\ i = j) PROVE JobOK(i)'
    BY <1>1, <1>5, <1>8, <2>1, JobKept DEF JobsOK
  <2>2. ASSUME t \in outgoing PROVE JobOK(j)'
    <3>1. j \in Calls /\ t = <<j, tries[j]>> /\ step[j] = "in"
      BY <1>7, <2>2 DEF Remembered, Latest
    <3>2. JobOK(j) /\ tries[j] \in Nat
      BY DEF JobsOK, Types
    <3>3. \A u \in outgoing' : u[1] # j
      BY <1>5, <3>1 DEF Remembered, Latest
    <3>4. tries[j] >= 1
      <4>1. tries[j] = t[2] /\ t[2] \in N
        BY <3>1, TokenParts
      <4> QED
        BY <4>1 DEF N
    <3>5. retry'[j] = "waits" /\ session'[<<j, tries'[j]>>] = "broken"
      BY <1>1, <1>5, <1>8, <2>2, <3>1
    <3> QED
      BY <1>1, <3>1, <3>2, <3>3, <3>4, <3>5 DEF JobOK
  <2> QED
    BY <2>1, <2>2 DEF JobsOK
<1> QED
  BY <1>3, <1>6, <1>9, <1>10, <1>11

-----------------------------------------------------------------------------
(* The retry task. *)

\* A step of the task that changes how far it is, and how often it tried.
LEMMA RetryMoves ==
  ASSUME IInv, NEW j \in Jobs, retry[j] # "none",
         NEW r \in {"none", "waits", "tries"}, retry' = [retry EXCEPT ![j] = r],
         retries' \in [Jobs -> 0 .. SEND_RETRY_MAX],
         \A i \in Jobs : i # j => retries'[i] = retries[i],
         retries'[j] >= retries[j],
         r = "waits" => retry[j] = "tries",
         r = "tries" => retry[j] = "waits" /\ retries'[j] = retries[j] + 1,
         gaveUp' \subseteq Calls,
         UNCHANGED <<tries, session, events, pump, row, outgoing, step, posted, spent>>
  PROVE  IInv'
<1> USE DEF IInv
<1>1. /\ retry' \in [Jobs -> {"none", "waits", "tries", "started", "renamed"}] /\ retry'[j] = r
      /\ \A i \in Jobs : i # j => retry'[i] = retry[i]
  BY DEF Types
<1>2. Types'
  BY <1>1 DEF Types
<1>3. Events' /\ SessionsOK' /\ RowsOK' /\ Remembered'
  BY EventsKept, SessionsKept, RowsKept, RememberedKept
<1>4. JobsOK'
  <2>1. ASSUME NEW i \in Jobs, i # j PROVE JobOK(i)'
    BY <1>1, <2>1, JobKept DEF JobsOK
  <2>2. JobOK(j)'
    <3>1. JobOK(j) /\ tries[j] \in Nat /\ retries[j] \in Nat /\ retries'[j] \in Nat
      <4>1. \A n \in 0 .. SEND_RETRY_MAX + 1 : n \in Nat
        BY Kinds
      <4>2. \A n \in 0 .. SEND_RETRY_MAX : n \in Nat
        BY Kinds
      <4> QED
        BY <4>1, <4>2 DEF JobsOK, Types
    <3>2. tries[j] <= retries[j] + 1 /\ tries[j] <= retries'[j] + 1
      BY <3>1 DEF JobOK
    <3>3. r = "tries" => tries[j] <= retries'[j]
      BY <3>1, <3>2
    <3> QED
      BY <1>1, <3>1, <3>2, <3>3 DEF JobOK
  <2> QED
    BY <2>1, <2>2 DEF JobsOK
<1> QED
  BY <1>2, <1>3, <1>4

LEMMA RetryWakesInv ==
  ASSUME IInv, NEW j \in Jobs, RetryWakes(j)
  PROVE  IInv'
<1>1. retries \in [Jobs -> 0 .. SEND_RETRY_MAX] /\ SEND_RETRY_MAX \in Nat
  BY Kinds DEF IInv, Types
<1>2. /\ retry[j] = "waits" /\ retries[j] < SEND_RETRY_MAX
      /\ retries' = [retries EXCEPT ![j] = retries[j] + 1] /\ retry' = [retry EXCEPT ![j] = "tries"]
      /\ UNCHANGED <<tries, session, events, pump, row, outgoing, step, posted, gaveUp, spent>>
  BY <1>1 DEF RetryWakes, CountAttempt
<1>3. /\ retries' \in [Jobs -> 0 .. SEND_RETRY_MAX]
      /\ \A i \in Jobs : i # j => retries'[i] = retries[i]
      /\ retries'[j] = retries[j] + 1 /\ retries'[j] >= retries[j]
  BY <1>1, <1>2
<1>4. gaveUp' \subseteq Calls
  BY <1>2 DEF IInv, Types
<1> QED
  BY <1>2, <1>3, <1>4, RetryMoves

LEMMA RetryFailsInv ==
  ASSUME IInv, NEW j \in Jobs, RetryFails(j)
  PROVE  IInv'
<1>1. /\ retry[j] = "tries" /\ retry' = [retry EXCEPT ![j] = "waits"]
      /\ UNCHANGED <<tries, session, events, pump, row, outgoing, retries, step, posted, gaveUp, spent>>
  BY DEF RetryFails
<1>2. /\ retries' \in [Jobs -> 0 .. SEND_RETRY_MAX] /\ gaveUp' \subseteq Calls
      /\ \A i \in Jobs : retries'[i] = retries[i]
      /\ retries'[j] >= retries[j]
  BY <1>1 DEF IInv, Types
<1> QED
  BY <1>1, <1>2, RetryMoves

LEMMA RetryGivesUpInv ==
  ASSUME IInv, NEW j \in Jobs, RetryGivesUp(j)
  PROVE  IInv'
<1>1. /\ retry[j] = "waits" /\ retry' = [retry EXCEPT ![j] = "none"] /\ gaveUp' = gaveUp \cup {j}
      /\ UNCHANGED <<tries, session, events, pump, row, outgoing, retries, step, posted, spent>>
  BY DEF RetryGivesUp
<1>2. j \in Calls
  BY <1>1 DEF IInv, JobsOK, JobOK
<1>3. /\ retries' \in [Jobs -> 0 .. SEND_RETRY_MAX] /\ gaveUp' \subseteq Calls
      /\ \A i \in Jobs : retries'[i] = retries[i]
      /\ retries'[j] >= retries[j]
  BY <1>1, <1>2 DEF IInv, Types
<1> QED
  BY <1>1, <1>3, RetryMoves

LEMMA RetryStartsInv ==
  ASSUME IInv, NEW j \in Jobs, RetryStarts(j)
  PROVE  IInv'
<1> USE DEF IInv
<1>1. /\ retry[j] = "tries" /\ NewSession(j, "on") /\ retry' = [retry EXCEPT ![j] = "started"]
      /\ UNCHANGED <<events, pump, row, outgoing, retries, step, posted, gaveUp, spent>>
  BY DEF RetryStarts
<1>2. /\ tries[j] \in Nat /\ retries[j] \in Nat /\ retries[j] <= SEND_RETRY_MAX
      /\ SEND_RETRY_MAX \in Nat
  BY Kinds DEF Types
<1>3. /\ tries[j] >= 1 /\ tries[j] <= retries[j] /\ session[<<j, tries[j]>>] # "on"
      /\ j \in Calls /\ step[j] = "in" /\ \A t \in outgoing : t[1] # j
  BY <1>1 DEF JobsOK, JobOK
<1>4. \A n \in N : session[<<j, n>>] \notin {"asked", "on"}
  BY <1>3, Kinds DEF SessionsOK
<1>5. /\ tries' \in [Jobs -> 0 .. SEND_RETRY_MAX + 1] /\ tries'[j] = tries[j] + 1
      /\ \A i \in Jobs : i # j => tries'[i] = tries[i]
      /\ session' \in [Tokens -> {"none", "asked", "on", "expired", "lost"} \cup Ends]
      /\ \A t \in Tokens : t # <<j, tries[j] + 1>> => session'[t] = session[t]
      /\ SessionsOK' /\ RowsOK'
      /\ \A u \in Tokens, w \in Told : Tells(u, w) => Tells(u, w)'
  <2>1. tries[j] <= SEND_RETRY_MAX
    BY <1>2, <1>3
  <2> QED
    BY <1>1, <1>4, <2>1, NewSessionStep
<1>6. /\ retry' \in [Jobs -> {"none", "waits", "tries", "started", "renamed"}]
      /\ retry'[j] = "started" /\ \A i \in Jobs : i # j => retry'[i] = retry[i]
  BY <1>1 DEF Types
<1>7. Types'
  BY <1>1, <1>5, <1>6 DEF Types
<1>8. Events'
  BY <1>1, <1>5 DEF Events
<1>9. Remembered'
  <2>1. ASSUME NEW t \in outgoing
        PROVE  t[1] \in Calls /\ t = <<t[1], tries'[t[1]]>> /\ step[t[1]] = "in"
    BY <1>3, <1>5, Kinds DEF Remembered, Latest
  <2> QED
    BY <1>1, <2>1 DEF Remembered, Latest
<1>10. JobsOK'
  <2>1. ASSUME NEW i \in Jobs, i # j PROVE JobOK(i)'
    <3>1. tries[i] >= 1 => session'[<<i, tries[i]>>] = session[<<i, tries[i]>>]
      BY <1>5, <2>1, LatestToken DEF Latest
    <3> QED
      BY <1>1, <1>5, <1>6, <2>1, <3>1, JobKept DEF JobsOK
  <2>2. JobOK(j)'
    <3>1. tries'[j] <= retries[j] + 1 /\ tries'[j] >= 2
      BY <1>2, <1>3, <1>5
    <3>2. j \notin Offers
      BY <1>3, Kinds
    <3> QED
      BY <1>1, <1>3, <1>6, <3>1, <3>2 DEF JobOK
  <2> QED
    BY <2>1, <2>2 DEF JobsOK
<1> QED
  BY <1>5, <1>7, <1>8, <1>9, <1>10

LEMMA RetryRenamesInv ==
  ASSUME IInv, NEW j \in Jobs, RetryRenames(j)
  PROVE  IInv'
<1> USE DEF IInv
<1>1. /\ retry[j] = "started" /\ row' = RetryTransfer(<<j, tries[j] - 1>>, <<j, tries[j]>>)
      /\ retry' = [retry EXCEPT ![j] = "renamed"]
      /\ UNCHANGED <<tries, session, events, pump, outgoing, retries, step, posted, gaveUp, spent>>
  BY DEF RetryRenames, Latest
<1>2. tries[j] >= 2 /\ step[j] = "in" /\ j \in Calls /\ \A t \in outgoing : t[1] # j
  BY <1>1 DEF JobsOK, JobOK
<1>3. PICK new \in N : new = tries[j]
  BY <1>2, LatestToken DEF Types, N
<1>4. PICK old \in N : old = tries[j] - 1 /\ old # new
  BY <1>2, <1>3, Kinds DEF N
<1>5. /\ <<j, old>> \in Tokens /\ <<j, new>> \in Tokens
      /\ session[<<j, new>>] \notin {"none", "lost"}
  BY <1>2, <1>3, Kinds DEF SessionsOK
<1>6. row' \in [Tokens -> {"none"} \cup Statuses] /\ RowsOK'
  <2>1. row' = IF row[<<j, old>>] = "none" THEN row
               ELSE [[row EXCEPT ![<<j, old>>] = "none"] EXCEPT ![<<j, new>>] = "active"]
    BY <1>1, <1>3, <1>4 DEF RetryTransfer
  <2>2. CASE row[<<j, old>>] = "none"
    BY <1>1, <2>1, <2>2, RowsKept DEF Types
  <2>3. CASE row[<<j, old>>] # "none"
    <3>1. PICK mid : mid = [row EXCEPT ![<<j, old>>] = "none"]
      OBVIOUS
    <3>2. /\ mid \in [Tokens -> {"none"} \cup Statuses] /\ mid[<<j, old>>] = "none"
          /\ \A u \in Tokens : u # <<j, old>> => mid[u] = row[u]
      BY <1>5, <3>1, PutAt DEF Types
    <3>3. row' = [mid EXCEPT ![<<j, new>>] = "active"] /\ "active" \in {"none"} \cup Statuses
      BY <2>1, <2>3, <3>1 DEF Statuses
    <3>4. /\ row' \in [Tokens -> {"none"} \cup Statuses] /\ row'[<<j, new>>] = "active"
          /\ \A u \in Tokens : u # <<j, new>> => row'[u] = mid[u]
      BY <1>5, <3>2, <3>3, PutAt
    <3>5. /\ row'[<<j, old>>] = "none"
          /\ \A u \in Tokens : u \notin {<<j, old>>, <<j, new>>} => row'[u] = row[u]
      BY <1>4, <1>5, <3>2, <3>4
    <3>6. ASSUME NEW u \in Tokens PROVE RowOK(u)'
      <4>1. CASE u = <<j, new>>
        BY <1>1, <1>5, <3>4, <4>1 DEF RowOK
      <4>2. CASE u = <<j, old>>
        BY <3>5, <4>2 DEF RowOK
      <4>3. CASE u \notin {<<j, old>>, <<j, new>>}
        <5>1. row'[u] = row[u] /\ session'[u] = session[u]
          BY <1>1, <3>5, <4>3
        <5> QED
          BY <5>1 DEF RowsOK, RowOK
      <4> QED
        BY <4>1, <4>2, <4>3
    <3>7. ASSUME NEW i \in Jobs, NEW m \in N, NEW n \in N,
                 row'[<<i, m>>] # "none", row'[<<i, n>>] # "none"
          PROVE  m = n
      <4>1. CASE i = j
        <5>1. \A k \in N : row'[<<j, k>>] # "none" => k = new
          <6> SUFFICES ASSUME NEW k \in N, k # new, row'[<<j, k>>] # "none" PROVE FALSE
            OBVIOUS
          <6>1. k # old
            BY <3>5
          <6>2. row'[<<j, k>>] = row[<<j, k>>]
            BY <3>5, <6>1, Kinds
          <6>3. k = old
            BY <2>3, <6>2 DEF RowsOK
          <6> QED
            BY <6>1, <6>3
        <5> QED
          BY <3>7, <4>1, <5>1
      <4>2. CASE i # j
        BY <3>5, <3>7, <4>2, Kinds DEF RowsOK
      <4> QED
        BY <4>1, <4>2
    <3> QED
      BY <3>4, <3>6, <3>7 DEF RowsOK
  <2> QED
    BY <2>2, <2>3
<1>7. /\ retry' \in [Jobs -> {"none", "waits", "tries", "started", "renamed"}]
      /\ retry'[j] = "renamed" /\ \A i \in Jobs : i # j => retry'[i] = retry[i]
  BY <1>1 DEF Types
<1>8. Types'
  BY <1>1, <1>6, <1>7 DEF Types
<1>9. Events' /\ Remembered' /\ SessionsOK'
  BY <1>1, EventsKept, RememberedKept, SessionsKept
<1>10. JobsOK'
  <2>1. ASSUME NEW i \in Jobs, i # j PROVE JobOK(i)'
    BY <1>1, <1>7, <2>1, JobKept DEF JobsOK
  <2>2. JobOK(j)'
    BY <1>1, <1>2, <1>7 DEF JobsOK, JobOK
  <2> QED
    BY <2>1, <2>2 DEF JobsOK
<1> QED
  BY <1>6, <1>8, <1>9, <1>10

LEMMA RetryRemembersInv ==
  ASSUME IInv, NEW j \in Jobs, RetryRemembers(j)
  PROVE  IInv'
<1> USE DEF IInv
<1>1. /\ retry[j] = "renamed" /\ outgoing' = outgoing \cup {Latest(j)}
      /\ retry' = [retry EXCEPT ![j] = "none"]
      /\ UNCHANGED <<tries, session, events, pump, row, retries, step, posted, gaveUp, spent>>
  BY DEF RetryRemembers, RetryEnds
<1>2. tries[j] >= 2 /\ step[j] = "in" /\ j \in Calls
  BY <1>1 DEF JobsOK, JobOK
<1>3. PICK new \in Tokens : new = Latest(j) /\ new = <<j, tries[j]>> /\ new[1] = j
  <2>1. tries[j] >= 1
    BY <1>2 DEF Types
  <2> QED
    BY <2>1, LatestToken DEF Latest
<1>4. /\ retry' \in [Jobs -> {"none", "waits", "tries", "started", "renamed"}]
      /\ retry'[j] = "none" /\ \A i \in Jobs : i # j => retry'[i] = retry[i]
  BY <1>1 DEF Types
<1>5. Types'
  <2>1. outgoing' \subseteq Tokens
    BY <1>1, <1>3 DEF Types
  <2> QED
    BY <1>1, <1>4, <2>1 DEF Types
<1>6. Events' /\ SessionsOK' /\ RowsOK'
  BY <1>1, EventsKept, SessionsKept, RowsKept
<1>7. Remembered'
  <2>1. ASSUME NEW t \in outgoing'
        PROVE  t[1] \in Calls /\ t = <<t[1], tries[t[1]]>> /\ step[t[1]] = "in"
    BY <1>1, <1>2, <1>3 DEF Remembered, Latest
  <2> QED
    BY <1>1, <2>1 DEF Remembered, Latest
<1>8. JobsOK'
  <2>1. ASSUME NEW i \in Jobs, i # j PROVE JobOK(i)'
    BY <1>1, <1>3, <1>4, <2>1, JobKept DEF JobsOK
  <2>2. JobOK(j)'
    BY <1>1, <1>2, <1>4 DEF JobsOK, JobOK
  <2> QED
    BY <2>1, <2>2 DEF JobsOK
<1> QED
  BY <1>5, <1>6, <1>7, <1>8

-----------------------------------------------------------------------------
(* The user's transfer history, faults. *)

LEMMA DeleteTransferInv ==
  ASSUME IInv, NEW t \in Tokens, DeleteTransfer(t)
  PROVE  IInv'
<1> USE DEF IInv
<1>1. /\ row' = [row EXCEPT ![t] = "none"] /\ spent < MaxSpent /\ spent' = spent + 1
      /\ UNCHANGED <<tries, session, events, pump, outgoing, retries, step, retry, posted, gaveUp>>
  BY DEF DeleteTransfer, Spend, taskVars
<1>2. row' \in [Tokens -> {"none"} \cup Statuses] /\ RowsOK'
  BY <1>1, RowPut
<1>3. spent' \in 0 .. MaxSpent
  BY <1>1, Kinds DEF Types
<1>4. Types'
  BY <1>1, <1>2, <1>3 DEF Types
<1> QED
  BY <1>1, <1>2, <1>4, RestKept, EventsKept

LEMMA ClearTransfersInv ==
  ASSUME IInv, ClearTransfers
  PROVE  IInv'
<1> USE DEF IInv
<1>1. /\ row' = [t \in Tokens |-> IF row[t] = "active" THEN "active" ELSE "none"]
      /\ spent < MaxSpent /\ spent' = spent + 1
      /\ UNCHANGED <<tries, session, events, pump, outgoing, retries, step, retry, posted, gaveUp>>
  BY DEF ClearTransfers, Spend, taskVars
<1>2. \A t \in Tokens : row'[t] = row[t] \/ row'[t] = "none"
  BY <1>1
<1>3. row' \in [Tokens -> {"none"} \cup Statuses]
  BY <1>1 DEF Statuses
<1>4. RowsOK'
  <2>1. ASSUME NEW u \in Tokens PROVE RowOK(u)'
    BY <1>1, <1>2 DEF RowsOK, RowOK
  <2>2. ASSUME NEW i \in Jobs, NEW m \in N, NEW n \in N,
               row'[<<i, m>>] # "none", row'[<<i, n>>] # "none"
        PROVE  m = n
    BY <1>2, <2>2, Kinds DEF RowsOK
  <2> QED
    BY <2>1, <2>2 DEF RowsOK
<1>5. spent' \in 0 .. MaxSpent
  BY <1>1, Kinds DEF Types
<1>6. Types'
  BY <1>1, <1>3, <1>5 DEF Types
<1> QED
  BY <1>1, <1>4, <1>6, RestKept, EventsKept

LEMMA PumpLagsInv ==
  ASSUME IInv, PumpLags
  PROVE  IInv'
<1> USE DEF IInv
<1>1. /\ pump' = FALSE /\ events' = <<>> /\ spent < MaxSpent /\ spent' = spent + 1
      /\ UNCHANGED <<tries, session, row, outgoing, retries, step, retry, posted, gaveUp>>
  BY DEF PumpLags, Spend, taskVars
<1>2. events' \in Seq(Tokens \X Told) /\ Len(events') = 0
  BY <1>1, EmptySeq
<1>3. Events'
  BY <1>2 DEF Events
<1>4. spent' \in 0 .. MaxSpent
  BY <1>1, Kinds DEF Types
<1>5. Types'
  BY <1>1, <1>2, <1>4 DEF Types
<1> QED
  BY <1>1, <1>3, <1>5, RestKept, RowsKept

LEMMA RestartInv ==
  ASSUME IInv, Restart
  PROVE  IInv'
<1> USE DEF IInv
<1>1. /\ session' = [t \in Tokens |-> IF session[t] \in {"asked", "on"}
                                       THEN "lost" ELSE session[t]]
      /\ row' = [t \in Tokens |-> IF row[t] = "active" THEN "failed" ELSE row[t]]
      /\ events' = <<>> /\ pump' = TRUE /\ outgoing' = {}
      /\ retry' = [j \in Jobs |-> "none"] /\ step' = [j \in Jobs |-> "out"]
      /\ spent < MaxSpent /\ spent' = spent + 1
      /\ UNCHANGED <<tries, retries, posted, gaveUp>>
  BY DEF Restart, Spend, StaleRows
<1>2. /\ events' \in Seq(Tokens \X Told) /\ Len(events') = 0
      /\ session' \in [Tokens -> {"none", "asked", "on", "expired", "lost"} \cup Ends]
      /\ row' \in [Tokens -> {"none"} \cup Statuses]
  BY <1>1, EmptySeq DEF Types, Statuses
<1>3. Events' /\ Remembered'
  BY <1>1, <1>2 DEF Events, Remembered
<1>4. spent' \in 0 .. MaxSpent
  BY <1>1, Kinds DEF Types
<1>5. Types'
  BY <1>1, <1>2, <1>4 DEF Types
<1>6. SessionsOK'
  <2>1. ASSUME NEW i \in Jobs, NEW n \in N
        PROVE  /\ session'[<<i, n>>] = "none" <=> n > tries[i]
               /\ session'[<<i, n>>] \notin {"asked", "on"}
               /\ step'[i] = "out"
    BY <1>1, Kinds DEF SessionsOK
  <2> QED
    BY <1>1, <2>1 DEF SessionsOK
<1>7. RowsOK'
  <2>1. ASSUME NEW u \in Tokens PROVE RowOK(u)'
    BY <1>1 DEF RowsOK, RowOK
  <2>2. \A t \in Tokens : row'[t] # "none" => row[t] # "none"
    BY <1>1
  <2>3. ASSUME NEW i \in Jobs, NEW m \in N, NEW n \in N,
               row'[<<i, m>>] # "none", row'[<<i, n>>] # "none"
        PROVE  m = n
    BY <2>2, <2>3, Kinds DEF RowsOK
  <2> QED
    BY <2>1, <2>3 DEF RowsOK
<1>8. JobsOK'
  <2>1. ASSUME NEW j \in Jobs PROVE JobOK(j)'
    BY <1>1 DEF JobsOK, JobOK
  <2> QED
    BY <2>1 DEF JobsOK
<1> QED
  BY <1>3, <1>5, <1>6, <1>7, <1>8

-----------------------------------------------------------------------------
LEMMA NextInv ==
  ASSUME IInv, [Next]_vars
  PROVE  IInv'
<1>1. CASE Next
  <2>1. ASSUME NEW j \in Jobs,
               StartSession(j) \/ StartFails(j) \/ Record(j) \/ Remember(j) \/ OfferArrives(j)
        PROVE  IInv'
    BY <2>1, StartSessionInv, StartFailsInv, RecordInv, RememberInv, OfferArrivesInv
  <2>2. ASSUME NEW j \in Jobs,
               RetryWakes(j) \/ RetryStarts(j) \/ RetryFails(j)
                 \/ RetryRenames(j) \/ RetryRemembers(j) \/ RetryGivesUp(j)
        PROVE  IInv'
    BY <2>2, RetryWakesInv, RetryStartsInv, RetryFailsInv, RetryRenamesInv, RetryRemembersInv,
       RetryGivesUpInv
  <2>3. ASSUME NEW B \in Batches, Post(B) PROVE IInv'
    BY <2>3, PostInv
  <2>4. ASSUME NEW t \in Tokens,
               Accept(t) \/ OfferExpires(t) \/ DeleteTransfer(t) \/ \E end \in Ends : SessionEnds(t, end)
        PROVE  IInv'
    BY <2>4, DeleteTransferInv, SessionEndsInv, SilentMoveInv
  <2>5. CASE HandleOffer \/ HandleDone \/ HandleRefused \/ HandleBroken
    BY <2>5, HandleOfferInv, HandleDoneInv, HandleRefusedInv, HandleBrokenInv
  <2>6. CASE ClearTransfers \/ PumpLags \/ Restart
    BY <2>6, ClearTransfersInv, PumpLagsInv, RestartInv
  <2> QED
    BY <1>1, <2>1, <2>2, <2>3, <2>4, <2>5, <2>6 DEF Next
<1>2. CASE UNCHANGED vars
  <2>1. UNCHANGED <<tries, session, events, pump, row, outgoing, retries, step, retry, posted,
                    gaveUp, spent>>
    BY <1>2 DEF vars, taskVars
  <2>2. Types'
    BY <2>1 DEF IInv, Types
  <2>3. Events' /\ RowsOK'
    BY <2>1, EventsKept, RowsKept DEF IInv
  <2> QED
    BY <2>1, <2>2, <2>3, RestKept DEF IInv
<1> QED
  BY <1>1, <1>2

-----------------------------------------------------------------------------
(* What follows from the invariant. *)

\* IInv is an invariant: the events on their way, the sources remembered, the
\* retry tasks, the sessions and the rows agree as described above.
THEOREM Invariance == Spec => []IInv
<1>1. Init => IInv
  BY InitInv
<1>2. IInv /\ [Next]_vars => IInv'
  BY NextInv
<1> QED
  BY <1>1, <1>2, PTL DEF Spec

\* Types, and that a source is remembered under the newest session of its file.
THEOREM TypeCorrect == Spec => []TypeOK
<1>1. IInv => TypeOK
  BY DEF IInv, Types, Remembered, TypeOK, Told
<1> QED
  BY <1>1, Invariance, PTL

LEMMA AtMostOne ==
  ASSUME NEW S, \A x, y \in S : x = y
  PROVE  Cardinality(S) <= 1
<1>1. CASE S = {}
  BY <1>1, FS_EmptySet
<1>2. CASE S # {}
  <2>1. PICK x : S = {x}
    BY <1>2
  <2>2. Cardinality({x}) = 1
    BY FS_Singleton
  <2> QED
    BY <2>1, <2>2
<1> QED
  BY <1>1, <1>2

\* A file has at most one session under way, whatever its retry task and the
\* end of the session before do, and through restarts.
THEOREM OneSessionAtATime == Spec => []OneSession
<1>1. IInv => OneSession
  <2> SUFFICES ASSUME IInv, NEW j \in Jobs
               PROVE  Cardinality({n \in N : session[<<j, n>>] = "on"}) <= 1
    BY DEF OneSession, N
  <2>1. \A m, n \in {k \in N : session[<<j, k>>] = "on"} : m = n
    BY DEF IInv, SessionsOK
  <2> QED
    BY <2>1, AtMostOne
<1> QED
  BY <1>1, Invariance, PTL

\* The rows of the transfer history say how their sessions ended, and a file
\* has one row, through retries, deletions and restarts.
THEOREM HistoryIsTruthful == Spec => []RowsTruthful
<1>1. IInv => RowsTruthful
  <2> SUFFICES ASSUME IInv PROVE RowsTruthful
    OBVIOUS
  <2>1. ASSUME NEW j \in Jobs
        PROVE  Cardinality({n \in N : row[<<j, n>>] # "none"}) <= 1
    <3>1. \A m, n \in {k \in N : row[<<j, k>>] # "none"} : m = n
      BY DEF IInv, RowsOK
    <3> QED
      BY <3>1, AtMostOne
  <2>2. ASSUME NEW t \in Tokens PROVE RowOK(t)
    BY DEF IInv, RowsOK
  <2> QED
    BY <2>1, <2>2 DEF RowsTruthful, RowOK, N
<1> QED
  BY <1>1, Invariance, PTL

=============================================================================
