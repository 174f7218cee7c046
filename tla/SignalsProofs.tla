--------------------------- MODULE SignalsProofs ----------------------------
(***************************************************************************)
(* Proofs about the way of a signal: the Telegram feed of one chat, the    *)
(* signal worker, and the settings its routes are copied under, for any    *)
(* number of messages, deliveries, requests, routes and lots; and the      *)
(* rules for legs, volumes, hours and symbols.                             *)
(***************************************************************************)
EXTENDS TelegramFeed, CopySettings, SignalProcessing, SignalCases, Extrema, FiniteSetTheorems, TLAPS

-----------------------------------------------------------------------------
(***************************************************************************)
(* The Telegram feed: each message below the cursor is covered: published, *)
(* passed over, behind the point the cursor started from, or overtaken by  *)
(* an edit or by a later update.                                           *)
(***************************************************************************)
Fates == {"coming", "arrived", "lost"}

Poll == [at : {"off", "latest", "read", "wait"}, rest : Seq(Ids), seen : 0..MaxId]

ChatTyped ==
    /\ kinds \in Seq(Kinds) /\ Len(kinds) <= MaxId
    /\ fate \in Seq(Fates) /\ Len(fate) = Len(kinds)
    /\ cursor \in 0..MaxId /\ cursor <= Len(kinds) /\ base \in 0..MaxId
    /\ published \subseteq 1..Len(kinds) /\ skipped \subseteq 1..Len(kinds)
    /\ edited \subseteq 1..Len(kinds)

WorkTyped ==
    /\ queue \in Seq(Call) /\ stage \in {"start", "asked", "advance"} /\ poll \in Poll
    /\ \A i \in DOMAIN queue : queue[i].id <= Len(kinds)

\* The holder of the lock is at the head of the queue, and it published its
\* message before it advances the cursor.
HolderIsHead ==
    /\ stage # "start" => queue # <<>>
    /\ stage = "advance" => Head(queue).from = "edit" \/ Head(queue).id \in published

\* Live updates arrive in the order of the ids and wait in that order.
LiveInOrder ==
    /\ \A i \in DOMAIN queue : queue[i].from = "live" => fate[queue[i].id] = "arrived"
    /\ \A i, j \in DOMAIN queue :
         i < j /\ queue[i].from = "live" /\ queue[j].from = "live" => queue[i].id < queue[j].id
    /\ \A n \in 1..Len(kinds) : fate[n] = "arrived" => \A m \in 1..(n - 1) : fate[m] # "coming"

\* A live update that arrived and left the queue was published or passed over.
ArrivedIsDone ==
    \A m \in 1..Len(kinds) :
        fate[m] = "arrived" /\ ~LiveQueued(m) => m \in published \cup skipped

EditsAreKnown == \A i \in DOMAIN queue : queue[i].from = "edit" => queue[i].id \in edited

\* Why a message may lie below the cursor, in a form that no step takes back.
Accounted(m) ==
    \/ m \in published \cup skipped
    \/ m <= base
    \/ \E n \in edited : n >= m
    \/ /\ fate[m] = "lost"
       /\ \E n \in (m + 1)..Len(kinds) : fate[n] = "arrived" /\ ~LiveQueued(n)

AccountedBelow(n) == \A m \in 1..Len(kinds) : m < n => Accounted(m)

\* The poll has one call in the queue, and while it waits for it nowhere else.
OnePollCall ==
    \A i \in DOMAIN queue : queue[i].from = "poll" =>
        /\ poll.at = "wait"
        /\ \A j \in DOMAIN queue : queue[j].from = "poll" => j = i

\* The poll hands over consecutive ids, each after all below it are covered.
PollInOrder ==
    /\ \A k \in 1..Len(poll.rest) : poll.rest[k] <= Len(kinds)
    /\ \A k \in 1..(Len(poll.rest) - 1) : poll.rest[k + 1] = poll.rest[k] + 1
    /\ poll.at = "read" /\ poll.rest # <<>> => AccountedBelow(poll.rest[1])
    /\ \A i \in DOMAIN queue : queue[i].from = "poll" =>
         /\ AccountedBelow(queue[i].id)
         /\ poll.rest # <<>> => poll.rest[1] = queue[i].id + 1

CursorCovers == AccountedBelow(cursor + 1)

FeedIInv ==
    /\ ChatTyped /\ WorkTyped /\ HolderIsHead /\ LiveInOrder /\ ArrivedIsDone /\ EditsAreKnown
    /\ OnePollCall /\ PollInOrder /\ CursorCovers

-----------------------------------------------------------------------------

-----------------------------------------------------------------------------
\* What every step keeps: nothing published, passed over, edited or lost comes
\* back, and an update that was dealt with stays so.
Steady ==
    /\ Len(kinds) \in Nat /\ Len(kinds') \in Nat /\ Len(kinds) <= Len(kinds')
    /\ published \subseteq published' /\ skipped \subseteq skipped' /\ edited \subseteq edited'
    /\ base \in Nat /\ base' \in Nat /\ base <= base'
    /\ \A m \in 1..Len(kinds) :
         /\ fate[m] = "lost" => fate'[m] = "lost"
         /\ fate[m] = "arrived" /\ ~LiveQueued(m) => fate'[m] = "arrived" /\ ~LiveQueued(m)'

\* A message that is covered stays so in every step that is steady.
LEMMA AccountedStays ==
  ASSUME Steady, NEW m \in 1..Len(kinds), Accounted(m)
  PROVE  Accounted(m)'
<1>1. CASE m \in published \cup skipped
  BY <1>1 DEF Steady, Accounted
<1>2. CASE m <= base
  BY <1>2 DEF Steady, Accounted
<1>3. CASE \E n \in edited : n >= m
  BY <1>3 DEF Steady, Accounted
<1>4. CASE fate[m] = "lost" /\ \E n \in (m + 1)..Len(kinds) : fate[n] = "arrived" /\ ~LiveQueued(n)
  <2>1. PICK n \in (m + 1)..Len(kinds) : fate[n] = "arrived" /\ ~LiveQueued(n)
    BY <1>4
  <2>2. n \in 1..Len(kinds) /\ n \in (m + 1)..Len(kinds')
    BY DEF Steady
  <2>3. fate'[m] = "lost" /\ fate'[n] = "arrived" /\ ~LiveQueued(n)'
    BY <1>4, <2>1, <2>2 DEF Steady
  <2> QED
    BY <2>2, <2>3 DEF Accounted
<1> QED
  BY <1>1, <1>2, <1>3, <1>4 DEF Accounted

\* So do all messages below one.
LEMMA BelowStays ==
  ASSUME Steady, NEW n \in Nat, n <= Len(kinds) + 1, AccountedBelow(n)
  PROVE  AccountedBelow(n)'
<1> SUFFICES ASSUME NEW m \in 1..Len(kinds'), m < n PROVE Accounted(m)'
  BY DEF AccountedBelow
<1>1. m \in 1..Len(kinds)
  BY DEF Steady
<1> QED
  BY <1>1, AccountedStays DEF AccountedBelow

\* The fields of a call have their types.
LEMMA CallFields == \A q \in Call : q.id \in Ids /\ q.from \in {"live", "edit", "poll"}
  BY DEF Call

\* The fields of the poll have their types.
LEMMA PollFields ==
  \A q \in Poll : /\ q.at \in {"off", "latest", "read", "wait"} /\ q.rest \in Seq(Ids) /\ q.seen \in 0..MaxId
                  /\ Len(q.rest) \in Nat /\ \A k \in 1..Len(q.rest) : q.rest[k] \in Ids
  BY DEF Poll

\* The members of the queue are calls.
LEMMA QueueFields ==
  ASSUME WorkTyped
  PROVE  \A i \in DOMAIN queue : /\ queue[i] \in Call /\ queue[i].id \in Ids
                                 /\ queue[i].from \in {"live", "edit", "poll"} /\ queue[i].id <= Len(kinds)
<1>1. \A i \in DOMAIN queue : queue[i] \in Call
  BY DEF WorkTyped
<1> QED
  BY <1>1, CallFields DEF WorkTyped

\* With the poll as it was and no new call of its own, what is covered stays so.
LEMMA PollStays ==
  ASSUME FeedAssumption, WorkTyped, PollInOrder, OnePollCall, Steady, UNCHANGED poll,
         \A i \in DOMAIN queue' : queue'[i].from = "poll" =>
            \E j \in DOMAIN queue : queue[j] = queue'[i]
  PROVE  PollInOrder'
<1>1. poll \in Poll /\ Len(poll.rest) \in Nat /\ \A k \in 1..Len(poll.rest) : poll.rest[k] \in Nat
  BY PollFields DEF WorkTyped, Ids
<1>2. \A k \in 1..Len(poll.rest) : poll.rest[k] <= Len(kinds')
  BY <1>1 DEF PollInOrder, Steady
<1>3. ASSUME poll.at = "read", poll.rest # <<>> PROVE AccountedBelow(poll.rest[1])'
  <2>1. 1 \in 1..Len(poll.rest)
    BY <1>1, <1>3, PollFields
  <2>2. PICK n \in Nat : n = poll.rest[1] /\ n <= Len(kinds) + 1 /\ AccountedBelow(n)
    BY <1>1, <1>3, <2>1 DEF PollInOrder, Steady
  <2>3. poll'.rest[1] = n
    BY <2>2
  <2>4. AccountedBelow(n)'
    BY <2>2, BelowStays
  <2> QED
    BY <2>3, <2>4 DEF AccountedBelow
<1>4. ASSUME NEW i \in DOMAIN queue', queue'[i].from = "poll"
      PROVE  /\ AccountedBelow(queue[i].id)'
             /\ poll.rest # <<>> => poll.rest[1] = queue'[i].id + 1
  <2>1. PICK j \in DOMAIN queue : queue[j] = queue'[i]
    BY <1>4
  <2>2. PICK n \in Nat : /\ n = queue[j].id /\ n <= Len(kinds) + 1 /\ AccountedBelow(n)
                         /\ poll.rest # <<>> => poll.rest[1] = n + 1
    BY <1>4, <2>1, QueueFields DEF PollInOrder, Steady, Ids
  <2>3. queue'[i].id = n
    BY <2>1, <2>2
  <2>4. AccountedBelow(n)'
    BY <2>2, BelowStays
  <2> QED
    BY <2>2, <2>3, <2>4 DEF AccountedBelow
<1> QED
  BY <1>2, <1>3, <1>4 DEF PollInOrder

\* The cursor stays, and what is below it stays covered.
LEMMA CursorStays ==
  ASSUME ChatTyped, CursorCovers, Steady, UNCHANGED cursor
  PROVE  CursorCovers'
<1>1. PICK n \in Nat : n = cursor + 1 /\ n <= Len(kinds) + 1 /\ AccountedBelow(n) /\ cursor' + 1 = n
  BY DEF ChatTyped, CursorCovers
<1>2. AccountedBelow(n)'
  BY <1>1, BelowStays
<1> QED
  BY <1>1, <1>2 DEF CursorCovers, AccountedBelow

\* What the queue holds after a call joined it.
LEMMA QueueAppend ==
  ASSUME WorkTyped, NEW q \in Call, queue' = Append(queue, q)
  PROVE  /\ queue' \in Seq(Call) /\ Len(queue) \in Nat /\ DOMAIN queue = 1..Len(queue)
         /\ DOMAIN queue' = 1..(Len(queue) + 1) /\ queue' # <<>>
         /\ \A i \in DOMAIN queue : queue'[i] = queue[i]
         /\ queue'[Len(queue) + 1] = q
         /\ queue # <<>> => Head(queue') = Head(queue)
         /\ \A m : LiveQueued(m)' <=> LiveQueued(m) \/ (q.id = m /\ q.from = "live")
<1>1. /\ queue' \in Seq(Call) /\ Len(queue) \in Nat /\ DOMAIN queue = 1..Len(queue)
      /\ DOMAIN queue' = 1..(Len(queue) + 1) /\ queue' # <<>>
      /\ \A i \in DOMAIN queue : queue'[i] = queue[i]
      /\ queue'[Len(queue) + 1] = q
      /\ queue # <<>> => Head(queue') = Head(queue)
  BY DEF WorkTyped
<1>2. \A m : LiveQueued(m)' <=> LiveQueued(m) \/ (q.id = m /\ q.from = "live")
  BY <1>1 DEF LiveQueued
<1> QED
  BY <1>1, <1>2

\* What the queue holds after its head left it.
LEMMA QueueTail ==
  ASSUME WorkTyped, queue # <<>>, queue' = Tail(queue)
  PROVE  /\ queue' \in Seq(Call) /\ 1 \in DOMAIN queue /\ Head(queue) = queue[1]
         /\ \A i \in DOMAIN queue' : i \in Nat \ {0} /\ i + 1 \in DOMAIN queue /\ queue'[i] = queue[i + 1]
         /\ \A i \in DOMAIN queue : i \in Nat \ {0} /\ (i # 1 => i - 1 \in DOMAIN queue' /\ queue'[i - 1] = queue[i])
         /\ \A m : LiveQueued(m)' => LiveQueued(m)
         /\ \A m : LiveQueued(m) => LiveQueued(m)' \/ (Head(queue).id = m /\ Head(queue).from = "live")
<1>1. /\ queue' \in Seq(Call) /\ 1 \in DOMAIN queue /\ Head(queue) = queue[1]
      /\ \A i \in DOMAIN queue' : i \in Nat \ {0} /\ i + 1 \in DOMAIN queue /\ queue'[i] = queue[i + 1]
      /\ \A i \in DOMAIN queue : i \in Nat \ {0} /\ (i # 1 => i - 1 \in DOMAIN queue' /\ queue'[i - 1] = queue[i])
  BY DEF WorkTyped
<1>2. \A m : LiveQueued(m)' => LiveQueued(m)
  BY <1>1 DEF LiveQueued
<1>3. \A m : LiveQueued(m) => LiveQueued(m)' \/ (Head(queue).id = m /\ Head(queue).from = "live")
  BY <1>1 DEF LiveQueued
<1> QED
  BY <1>1, <1>2, <1>3

-----------------------------------------------------------------------------
\* One lemma per kind of step.

LEMMA PostKeeps ==
  ASSUME FeedAssumption, FeedIInv, NEW k \in Kinds, Post(k)
  PROVE  FeedIInv'
<1> DEFINE n == Len(kinds)
<1>1. PICK x \in {"coming", "lost"} : fate' = Append(fate, x)
  BY DEF Post
<1>2. /\ kinds' = Append(kinds, k) /\ n < MaxId
      /\ UNCHANGED <<queue, stage, cursor, poll, published, skipped, edited, base>>
  BY DEF Post
<1>3. /\ n \in Nat /\ Len(kinds') = n + 1 /\ kinds' \in Seq(Kinds)
      /\ fate' \in Seq(Fates) /\ Len(fate') = n + 1
      /\ \A m \in 1..n : fate'[m] = fate[m]
      /\ fate'[n + 1] = x
  BY <1>1, <1>2 DEF FeedIInv, ChatTyped, Fates
<1>4. ChatTyped'
  BY <1>2, <1>3, FeedAssumption DEF FeedIInv, ChatTyped
<1>5. \A m : LiveQueued(m)' <=> LiveQueued(m)
  BY <1>2 DEF LiveQueued
<1>6. Steady
  BY <1>2, <1>3, <1>4, <1>5, FeedAssumption DEF FeedIInv, ChatTyped, Steady
<1>7. \A i \in DOMAIN queue : queue[i].id \in 1..n /\ queue[i].id <= n
  BY QueueFields DEF FeedIInv, Ids
<1>8. WorkTyped'
  BY <1>2, <1>3, <1>7 DEF FeedIInv, WorkTyped
<1>9. LiveInOrder'
  <2>1. \A i \in DOMAIN queue' : queue'[i].from = "live" => fate'[queue'[i].id] = "arrived"
    BY <1>2, <1>3, <1>7 DEF FeedIInv, LiveInOrder
  <2>2. \A m \in 1..Len(kinds') : fate'[m] = "arrived" => m \in 1..n /\ fate[m] = "arrived"
    BY <1>3
  <2>3. \A m \in 1..Len(kinds') : fate'[m] = "arrived" => \A l \in 1..(m - 1) : fate'[l] # "coming"
    BY <2>2, <1>3 DEF FeedIInv, LiveInOrder
  <2> QED
    BY <2>1, <2>3, <1>2 DEF FeedIInv, LiveInOrder
<1>10. ArrivedIsDone'
  BY <1>2, <1>3, <1>5 DEF FeedIInv, ArrivedIsDone
<1>11. HolderIsHead' /\ EditsAreKnown' /\ OnePollCall'
  BY <1>2 DEF FeedIInv, HolderIsHead, EditsAreKnown, OnePollCall
<1>12. PollInOrder' /\ CursorCovers'
  BY <1>2, <1>6, PollStays, CursorStays DEF FeedIInv
<1> QED
  BY <1>4, <1>8, <1>9, <1>10, <1>11, <1>12 DEF FeedIInv

\* Fewer updates are on their way.
LEMMA FatesFall ==
  ASSUME FeedAssumption, FeedIInv, fate' \in Seq(Fates), Len(fate') = Len(kinds),
         UNCHANGED <<kinds, queue, stage, cursor, poll, published, skipped, edited, base>>,
         \A m \in 1..Len(kinds) : fate'[m] = fate[m] \/ (fate[m] = "coming" /\ fate'[m] = "lost")
  PROVE  FeedIInv'
<1>1. ChatTyped' /\ WorkTyped'
  BY DEF FeedIInv, ChatTyped, WorkTyped
<1>2. \A m : LiveQueued(m)' <=> LiveQueued(m)
  BY DEF LiveQueued
<1>3. Steady
  BY <1>1, <1>2, FeedAssumption DEF FeedIInv, ChatTyped, Steady
<1>4. \A i \in DOMAIN queue : queue[i].id \in 1..Len(kinds)
  BY QueueFields DEF FeedIInv, Ids
<1>5. \A m \in 1..Len(kinds) : fate'[m] = "arrived" <=> fate[m] = "arrived"
  OBVIOUS
<1>6. LiveInOrder'
  <2>1. \A i \in DOMAIN queue' : queue'[i].from = "live" => fate'[queue'[i].id] = "arrived"
    BY <1>4, <1>5 DEF FeedIInv, LiveInOrder
  <2>2. \A n \in 1..Len(kinds) : fate'[n] = "arrived" => \A m \in 1..(n - 1) : fate'[m] # "coming"
    <3> TAKE n \in 1..Len(kinds)
    <3> HAVE fate'[n] = "arrived"
    <3> TAKE m \in 1..(n - 1)
    <3>1. fate[m] # "coming" /\ m \in 1..Len(kinds)
      BY <1>5 DEF FeedIInv, LiveInOrder, ChatTyped
    <3> QED
      BY <3>1
  <2> QED
    BY <2>1, <2>2 DEF FeedIInv, LiveInOrder
<1>7. ArrivedIsDone'
  BY <1>2, <1>5 DEF FeedIInv, ArrivedIsDone
<1>8. HolderIsHead' /\ EditsAreKnown' /\ OnePollCall'
  BY DEF FeedIInv, HolderIsHead, EditsAreKnown, OnePollCall
<1>9. PollInOrder' /\ CursorCovers'
  BY <1>3, PollStays, CursorStays DEF FeedIInv
<1> QED
  BY <1>1, <1>6, <1>7, <1>8, <1>9 DEF FeedIInv

\* A live update or an edit joins the queue.
LEMMA CallJoins ==
  ASSUME FeedAssumption, FeedIInv, NEW q \in Call, q.id <= Len(kinds), q.from \in {"live", "edit"},
         queue' = Append(queue, q), fate' \in Seq(Fates), Len(fate') = Len(kinds),
         UNCHANGED <<kinds, stage, cursor, poll, published, skipped, base>>,
         edited \subseteq edited', edited' \subseteq 1..Len(kinds),
         q.from = "edit" => q.id \in edited' /\ fate' = fate,
         q.from = "live" => /\ fate[q.id] = "coming" /\ fate'[q.id] = "arrived"
                            /\ \A m \in 1..Len(kinds) : m # q.id => fate'[m] = fate[m]
                            /\ \A m \in 1..(q.id - 1) : fate[m] # "coming"
  PROVE  FeedIInv'
<1>1. /\ queue' \in Seq(Call) /\ Len(queue) \in Nat /\ DOMAIN queue = 1..Len(queue)
      /\ DOMAIN queue' = 1..(Len(queue) + 1) /\ queue' # <<>>
      /\ \A i \in DOMAIN queue : queue'[i] = queue[i]
      /\ queue'[Len(queue) + 1] = q
      /\ queue # <<>> => Head(queue') = Head(queue)
      /\ \A m : LiveQueued(m)' <=> LiveQueued(m) \/ (q.id = m /\ q.from = "live")
  BY QueueAppend DEF FeedIInv
<1>2. \A i \in DOMAIN queue : queue[i].id \in 1..Len(kinds)
  BY QueueFields DEF FeedIInv, Ids
<1>3. q.id \in 1..Len(kinds)
  BY CallFields DEF Ids
<1>4. Len(kinds) \in Nat
  BY DEF FeedIInv, ChatTyped
<1>5. \A m \in 1..Len(kinds) : /\ fate[m] = "arrived" => fate'[m] = "arrived"
                               /\ fate[m] = "lost" => fate'[m] = "lost"
                               /\ fate'[m] = "arrived" => fate[m] = "arrived" \/ (m = q.id /\ q.from = "live")
                               /\ fate'[m] = "coming" => fate[m] = "coming"
  BY <1>3
<1>6. ChatTyped'
  BY DEF FeedIInv, ChatTyped
<1>7. WorkTyped'
  <2>1. \A i \in DOMAIN queue' : queue'[i].id <= Len(kinds')
    BY <1>1, <1>2, <1>3, <1>4
  <2> QED
    BY <1>1, <2>1 DEF FeedIInv, WorkTyped
<1>8. Steady
  <2>1. \A m \in 1..Len(kinds) : fate[m] = "arrived" /\ ~LiveQueued(m) => ~LiveQueued(m)'
    BY <1>1
  <2> QED
    BY <1>5, <1>6, <2>1, FeedAssumption DEF FeedIInv, ChatTyped, Steady
<1>9. HolderIsHead' /\ EditsAreKnown'
  <2>1. HolderIsHead'
    BY <1>1 DEF FeedIInv, HolderIsHead
  <2>2. ASSUME NEW i \in DOMAIN queue', queue'[i].from = "edit" PROVE queue'[i].id \in edited'
    <3>1. CASE i \in DOMAIN queue
      BY <1>1, <2>2, <3>1 DEF FeedIInv, EditsAreKnown
    <3>2. CASE i = Len(queue) + 1
      BY <1>1, <2>2, <3>2
    <3> QED
      BY <1>1, <3>1, <3>2
  <2>3. EditsAreKnown'
    BY <2>2 DEF EditsAreKnown
  <2> QED
    BY <2>1, <2>3
<1>10. LiveInOrder'
  <2>1. \A i \in DOMAIN queue' : queue'[i].from = "live" => fate'[queue'[i].id] = "arrived"
    BY <1>1, <1>2, <1>3, <1>5 DEF FeedIInv, LiveInOrder
  <2>2. \A n \in 1..Len(kinds) : fate'[n] = "arrived" => \A m \in 1..(n - 1) : fate'[m] # "coming"
    <3> TAKE n \in 1..Len(kinds)
    <3> HAVE fate'[n] = "arrived"
    <3> TAKE m \in 1..(n - 1)
    <3>1. m \in 1..Len(kinds)
      BY <1>4
    <3>2. fate[m] # "coming"
      BY <1>5 DEF FeedIInv, LiveInOrder
    <3> QED
      BY <1>5, <3>1, <3>2
  <2>3. q.from = "live" => \A i \in DOMAIN queue : queue[i].from = "live" => queue[i].id < q.id
    <3> HAVE q.from = "live"
    <3> TAKE i \in DOMAIN queue
    <3> HAVE queue[i].from = "live"
    <3>1. fate[queue[i].id] = "arrived"
      BY DEF FeedIInv, LiveInOrder
    <3>2. ~(q.id < queue[i].id)
      BY <1>2, <1>3, <1>4, <3>1 DEF FeedIInv, LiveInOrder
    <3> QED
      BY <1>2, <1>3, <1>4, <3>1, <3>2
  <2>4. \A i, j \in DOMAIN queue' :
          i < j /\ queue'[i].from = "live" /\ queue'[j].from = "live" => queue'[i].id < queue'[j].id
    BY <1>1, <2>3 DEF FeedIInv, LiveInOrder
  <2> QED
    BY <2>1, <2>2, <2>4 DEF LiveInOrder
<1>11. ArrivedIsDone'
  BY <1>1, <1>5 DEF FeedIInv, ArrivedIsDone
<1>12. \A i \in DOMAIN queue' : queue'[i].from = "poll" => i \in DOMAIN queue /\ queue[i] = queue'[i]
  BY <1>1
<1>13. OnePollCall'
  BY <1>12 DEF FeedIInv, OnePollCall
<1>14. PollInOrder' /\ CursorCovers'
  BY <1>8, <1>12, PollStays, CursorStays DEF FeedIInv
<1> QED
  BY <1>6, <1>7, <1>9, <1>10, <1>11, <1>13, <1>14 DEF FeedIInv

\* The holder publishes its message.
LEMMA PublishKeeps ==
  ASSUME FeedAssumption, FeedIInv, queue # <<>>, Publish(Head(queue).id)
  PROVE  FeedIInv'
<1>1. 1 \in DOMAIN queue /\ Head(queue) = queue[1]
  BY DEF FeedIInv, WorkTyped
<1>2. Head(queue).id \in 1..Len(kinds) /\ Len(kinds) \in Nat
  BY <1>1, QueueFields DEF FeedIInv, Ids, ChatTyped
<1>3. /\ UNCHANGED <<kinds, fate, queue, cursor, poll, skipped, edited, base>>
      /\ stage' = "advance" /\ published \subseteq published'
      /\ published' \subseteq published \cup {Head(queue).id}
      /\ Head(queue).from = "edit" \/ Head(queue).id \in published'
  BY DEF Publish
<1>4. ChatTyped' /\ WorkTyped'
  BY <1>2, <1>3 DEF FeedIInv, ChatTyped, WorkTyped
<1>5. \A m : LiveQueued(m)' <=> LiveQueued(m)
  BY <1>3 DEF LiveQueued
<1>6. Steady
  BY <1>3, <1>4, <1>5, FeedAssumption DEF FeedIInv, ChatTyped, Steady
<1>7. HolderIsHead' /\ EditsAreKnown' /\ OnePollCall' /\ LiveInOrder'
  BY <1>3 DEF FeedIInv, HolderIsHead, EditsAreKnown, OnePollCall, LiveInOrder
<1>8. ArrivedIsDone'
  BY <1>3, <1>5 DEF FeedIInv, ArrivedIsDone
<1>9. PollInOrder' /\ CursorCovers'
  BY <1>3, <1>6, PollStays, CursorStays DEF FeedIInv
<1> QED
  BY <1>4, <1>7, <1>8, <1>9 DEF FeedIInv

\* The holder has dealt with its message and leaves the lock.
LEMMA LeaveKeeps ==
  ASSUME FeedAssumption, FeedIInv, queue # <<>>, Leave, cursor' = Advanced(Head(queue).id),
         UNCHANGED <<kinds, fate, edited, base>>,
         published \subseteq published', published' \subseteq 1..Len(kinds),
         skipped \subseteq skipped', skipped' \subseteq 1..Len(kinds),
         Head(queue).from = "edit" \/ Head(queue).id \in published' \cup skipped'
  PROVE  FeedIInv'
<1>1. /\ queue' \in Seq(Call) /\ 1 \in DOMAIN queue /\ Head(queue) = queue[1]
      /\ \A i \in DOMAIN queue' : i \in Nat \ {0} /\ i + 1 \in DOMAIN queue /\ queue'[i] = queue[i + 1]
      /\ \A i \in DOMAIN queue : i \in Nat \ {0} /\ (i # 1 => i - 1 \in DOMAIN queue' /\ queue'[i - 1] = queue[i])
      /\ \A m : LiveQueued(m)' => LiveQueued(m)
      /\ \A m : LiveQueued(m) => LiveQueued(m)' \/ (Head(queue).id = m /\ Head(queue).from = "live")
  BY QueueTail DEF FeedIInv, Leave
<1>2. PICK n \in 1..Len(kinds) : n = Head(queue).id
  BY <1>1, QueueFields DEF FeedIInv, Ids
<1>3. Len(kinds) \in Nat /\ cursor \in Nat /\ n \in Nat /\ cursor' = IF n > cursor THEN n ELSE cursor
  BY <1>2 DEF FeedIInv, ChatTyped, Advanced
<1>4. ChatTyped'
  BY <1>3, FeedAssumption DEF FeedIInv, ChatTyped
<1>5. Steady
  BY <1>1, <1>4, FeedAssumption DEF FeedIInv, ChatTyped, Steady
<1>6. poll' \in Poll /\ poll'.rest = poll.rest
      /\ IF Head(queue).from = "poll" THEN poll'.at = "read" ELSE poll' = poll
  <2>1. poll \in Poll
    BY DEF FeedIInv, WorkTyped
  <2> QED
    BY <2>1 DEF Leave, Poll
<1>7. WorkTyped'
  <2>1. \A i \in DOMAIN queue' : queue'[i].id <= Len(kinds')
    BY <1>1, QueueFields DEF FeedIInv
  <2> QED
    BY <1>1, <1>6, <2>1 DEF WorkTyped, Leave
<1>8. HolderIsHead'
  BY DEF Leave, HolderIsHead
<1>9. LiveInOrder'
  <2>1. \A i \in DOMAIN queue' : queue'[i].from = "live" => fate'[queue'[i].id] = "arrived"
    BY <1>1 DEF FeedIInv, LiveInOrder
  <2>2. \A i, j \in DOMAIN queue' :
          i < j /\ queue'[i].from = "live" /\ queue'[j].from = "live" => queue'[i].id < queue'[j].id
    <3> TAKE i, j \in DOMAIN queue'
    <3> HAVE i < j /\ queue'[i].from = "live" /\ queue'[j].from = "live"
    <3>1. i + 1 \in DOMAIN queue /\ j + 1 \in DOMAIN queue /\ i + 1 < j + 1
          /\ queue'[i] = queue[i + 1] /\ queue'[j] = queue[j + 1]
      BY <1>1
    <3> QED
      BY <3>1 DEF FeedIInv, LiveInOrder
  <2> QED
    BY <2>1, <2>2 DEF FeedIInv, LiveInOrder
<1>10. ArrivedIsDone'
  BY <1>1, <1>2 DEF FeedIInv, ArrivedIsDone
<1>11. EditsAreKnown'
  BY <1>1 DEF FeedIInv, EditsAreKnown
<1>12. \A i \in DOMAIN queue' : queue'[i].from = "poll" => Head(queue).from # "poll"
  <2> TAKE i \in DOMAIN queue'
  <2> HAVE queue'[i].from = "poll"
  <2>1. i + 1 \in DOMAIN queue /\ queue[i + 1].from = "poll" /\ i + 1 # 1
    BY <1>1
  <2> QED
    BY <1>1, <2>1 DEF FeedIInv, OnePollCall
<1>13. OnePollCall'
  <2> SUFFICES ASSUME NEW i \in DOMAIN queue', queue'[i].from = "poll"
               PROVE  /\ poll'.at = "wait"
                      /\ \A j \in DOMAIN queue' : queue'[j].from = "poll" => j = i
    BY DEF OnePollCall
  <2>1. i + 1 \in DOMAIN queue /\ queue[i + 1].from = "poll"
    BY <1>1
  <2>2. poll'.at = "wait"
    BY <1>6, <1>12, <2>1 DEF FeedIInv, OnePollCall
  <2>3. ASSUME NEW j \in DOMAIN queue', queue'[j].from = "poll" PROVE j = i
    <3>1. j + 1 \in DOMAIN queue /\ queue[j + 1].from = "poll"
      BY <1>1, <2>3
    <3>2. j + 1 = i + 1
      BY <2>1, <3>1 DEF FeedIInv, OnePollCall
    <3> QED
      BY <1>1, <3>2
  <2> QED
    BY <2>2, <2>3
<1>14. Accounted(n)'
  BY <1>2, <1>3, <1>1 DEF Accounted, FeedIInv, EditsAreKnown
<1>15. ASSUME NEW m \in 1..Len(kinds), m < n PROVE Accounted(m)'
  <2>1. CASE Head(queue).from = "live"
    <3>1. fate[n] = "arrived"
      BY <1>1, <1>2, <2>1 DEF FeedIInv, LiveInOrder
    <3>2. ~LiveQueued(n)'
      <4> SUFFICES ASSUME NEW i \in DOMAIN queue', queue'[i].id = n, queue'[i].from = "live" PROVE FALSE
        BY DEF LiveQueued
      <4>1. i + 1 \in DOMAIN queue /\ queue[i + 1].id = n /\ queue[i + 1].from = "live" /\ 1 < i + 1
        BY <1>1
      <4> QED
        BY <1>1, <1>2, <1>3, <2>1, <4>1 DEF FeedIInv, LiveInOrder
    <3>3. fate[m] # "coming"
      BY <1>3, <1>15, <3>1 DEF FeedIInv, LiveInOrder
    <3>4. CASE fate[m] = "lost"
      <4>1. fate'[m] = "lost" /\ n \in (m + 1)..Len(kinds') /\ fate'[n] = "arrived"
        BY <1>3, <1>15, <3>1, <3>4
      <4> QED
        BY <4>1, <3>2 DEF Accounted
    <3>5. CASE fate[m] = "arrived"
      <4>1. ~LiveQueued(m)
        <5> SUFFICES ASSUME NEW i \in DOMAIN queue, queue[i].id = m, queue[i].from = "live" PROVE FALSE
          BY DEF LiveQueued
        <5>1. i # 1 /\ 1 < i
          BY <1>1, <1>2, <1>3, <1>15
        <5> QED
          BY <1>1, <1>2, <1>3, <1>15, <2>1, <5>1 DEF FeedIInv, LiveInOrder
      <4>2. m \in published \cup skipped
        BY <3>5, <4>1 DEF FeedIInv, ArrivedIsDone
      <4> QED
        BY <4>2 DEF Accounted
    <3>6. fate[m] \in Fates
      BY DEF FeedIInv, ChatTyped
    <3> QED
      BY <3>3, <3>4, <3>5, <3>6 DEF Fates
  <2>2. CASE Head(queue).from = "edit"
    <3>1. n \in edited' /\ n >= m
      BY <1>1, <1>2, <1>3, <1>15, <2>2 DEF FeedIInv, EditsAreKnown
    <3> QED
      BY <3>1 DEF Accounted
  <2>3. CASE Head(queue).from = "poll"
    <3>1. Accounted(m)
      BY <1>1, <1>2, <1>15, <2>3 DEF FeedIInv, PollInOrder, AccountedBelow
    <3> QED
      BY <3>1, <1>5, AccountedStays
  <2> QED
    BY <1>1, <2>1, <2>2, <2>3, QueueFields DEF FeedIInv
<1>16. CursorCovers'
  <2> SUFFICES ASSUME NEW m \in 1..Len(kinds'), m < cursor' + 1 PROVE Accounted(m)'
    BY DEF CursorCovers, AccountedBelow
  <2>1. m \in 1..Len(kinds)
    OBVIOUS
  <2>2. CASE m <= cursor
    <3>1. Accounted(m)
      BY <1>3, <2>1, <2>2 DEF FeedIInv, CursorCovers, AccountedBelow
    <3> QED
      BY <1>5, <2>1, <3>1, AccountedStays
  <2>3. CASE m > cursor
    <3>1. m < n \/ m = n
      BY <1>3, <2>1, <2>3
    <3> QED
      BY <1>14, <1>15, <2>1, <3>1
  <2> QED
    BY <1>3, <2>1, <2>2, <2>3
<1>17. PollInOrder'
  <2>1. CASE Head(queue).from = "poll"
    <3>1. \A i \in DOMAIN queue' : queue'[i].from # "poll"
      BY <1>12, <2>1
    <3>2. poll.rest # <<>> => poll.rest[1] = n + 1
      BY <1>1, <1>2, <2>1 DEF FeedIInv, PollInOrder
    <3>3. \A m \in 1..Len(kinds') : m < n + 1 => Accounted(m)'
      <4> TAKE m \in 1..Len(kinds')
      <4> HAVE m < n + 1
      <4>1. m \in 1..Len(kinds) /\ (m < n \/ m = n)
        BY <1>3
      <4> QED
        BY <1>14, <1>15, <4>1
    <3>4. poll'.rest # <<>> => AccountedBelow(poll.rest[1])'
      BY <1>6, <3>2, <3>3 DEF AccountedBelow
    <3> QED
      BY <1>6, <3>1, <3>4 DEF FeedIInv, PollInOrder
  <2>2. CASE Head(queue).from # "poll"
    <3>1. \A i \in DOMAIN queue' : queue'[i].from = "poll" => \E j \in DOMAIN queue : queue[j] = queue'[i]
      BY <1>1
    <3> QED
      BY <1>5, <1>6, <2>2, <3>1, PollStays DEF FeedIInv
  <2> QED
    BY <2>1, <2>2
<1> QED
  BY <1>4, <1>7, <1>8, <1>9, <1>10, <1>11, <1>13, <1>16, <1>17 DEF FeedIInv

\* A function on 1..n is a sequence.
LEMMA IsSequence ==
  ASSUME NEW S, NEW n \in Nat, NEW f \in [1..n -> S]
  PROVE  f \in Seq(S) /\ Len(f) = n
  OBVIOUS

\* The cursor is set, and the base with it.
LEMMA BaseKeeps ==
  ASSUME FeedAssumption, FeedIInv,
         UNCHANGED <<kinds, fate, queue, stage, published, skipped, edited>>,
         cursor' \in 0..Len(kinds), base' \in 0..MaxId, base <= base', cursor' <= base',
         poll' = poll \/ (poll.at # "wait" /\ poll' = NoPoll)
  PROVE  FeedIInv'
<1>1. Len(kinds) \in Nat /\ Len(kinds) <= MaxId /\ poll \in Poll
  BY DEF FeedIInv, ChatTyped, WorkTyped
<1>2. NoPoll \in Poll /\ NoPoll.at = "off" /\ NoPoll.rest = <<>>
  BY FeedAssumption DEF NoPoll, Poll
<1>3. ChatTyped'
  BY <1>1, FeedAssumption DEF FeedIInv, ChatTyped
<1>4. WorkTyped'
  BY <1>1, <1>2 DEF FeedIInv, WorkTyped
<1>5. \A m : LiveQueued(m)' <=> LiveQueued(m)
  BY DEF LiveQueued
<1>6. Steady
  BY <1>1, <1>5, FeedAssumption DEF FeedIInv, ChatTyped, Steady
<1>7. HolderIsHead' /\ EditsAreKnown' /\ LiveInOrder'
  BY DEF FeedIInv, HolderIsHead, EditsAreKnown, LiveInOrder
<1>8. ArrivedIsDone'
  BY <1>5 DEF FeedIInv, ArrivedIsDone
<1>9. OnePollCall' /\ PollInOrder'
  <2>1. CASE poll' = poll
    BY <1>6, <2>1, PollStays DEF FeedIInv, OnePollCall
  <2>2. CASE poll.at # "wait" /\ poll' = NoPoll
    <3>1. \A i \in DOMAIN queue' : queue'[i].from # "poll"
      BY <2>2 DEF FeedIInv, OnePollCall
    <3> QED
      BY <1>2, <2>2, <3>1 DEF OnePollCall, PollInOrder
  <2> QED
    BY <2>1, <2>2
<1>10. CursorCovers'
  <2> SUFFICES ASSUME NEW m \in 1..Len(kinds'), m < cursor' + 1 PROVE Accounted(m)'
    BY DEF CursorCovers, AccountedBelow
  <2>1. m \in Nat /\ cursor' \in Nat /\ base' \in Nat
    BY <1>1, <1>3, FeedAssumption DEF ChatTyped
  <2>2. \A x, y, z \in Nat : x < y + 1 /\ y <= z => x <= z
    OBVIOUS
  <2>3. m <= base'
    BY <2>1, <2>2
  <2> QED
    BY <2>3 DEF Accounted
<1> QED
  BY <1>3, <1>4, <1>7, <1>8, <1>9, <1>10 DEF FeedIInv

\* A missing cursor is set to the newest message the signal worker knows; it
\* never moves back.
LEMMA RefreshKeeps ==
  ASSUME FeedAssumption, FeedIInv, RefreshCache
  PROVE  FeedIInv' /\ cursor' >= cursor
<1>1. UNCHANGED <<kinds, fate, queue, stage, poll, published, skipped, edited>>
  BY DEF RefreshCache
<1>2. Len(kinds) \in Nat /\ Len(kinds) <= MaxId /\ cursor \in 0..Len(kinds) /\ base \in 0..MaxId /\ MaxId \in Nat
  BY FeedAssumption DEF FeedIInv, ChatTyped
<1>3. CASE cursor = 0 /\ Polled /\ published # {}
  <2>1. cursor' = Max(published) /\ base' = Max({base, Max(published)})
    BY <1>3 DEF RefreshCache
  <2>2. published \subseteq 0..Len(kinds) /\ published \subseteq 1..Len(kinds)
    BY DEF FeedIInv, ChatTyped
  <2>3. Max(published) \in published
    BY <1>2, <1>3, <2>2, MaxOfBounded
  <2>4. Max(published) \in 1..Len(kinds)
    BY <2>2, <2>3
  <2>5. {base, Max(published)} \subseteq 0..MaxId /\ {base, Max(published)} # {}
    BY <1>2, <2>4
  <2>6. base' \in {base, Max(published)} /\ \A y \in {base, Max(published)} : y <= base'
    BY <1>2, <2>1, <2>5, MaxOfBounded
  <2>7. base' \in 0..MaxId /\ base <= base' /\ cursor' <= base' /\ cursor' \in 0..Len(kinds)
    BY <1>2, <2>1, <2>4, <2>5, <2>6
  <2> QED
    BY <1>1, <1>2, <1>3, <2>7, BaseKeeps
<1>4. CASE ~(cursor = 0 /\ Polled /\ published # {})
  <2>1. cursor' = cursor /\ base' = base
    BY <1>4 DEF RefreshCache
  <2>2. \A m : LiveQueued(m)' <=> LiveQueued(m)
    BY <1>1 DEF LiveQueued
  <2>3. Steady
    BY <1>1, <1>2, <2>1, <2>2 DEF Steady
  <2>4. ChatTyped' /\ WorkTyped' /\ HolderIsHead' /\ EditsAreKnown' /\ LiveInOrder' /\ OnePollCall'
    BY <1>1, <2>1 DEF FeedIInv, ChatTyped, WorkTyped, HolderIsHead, EditsAreKnown, LiveInOrder, OnePollCall
  <2>5. ArrivedIsDone'
    BY <1>1, <2>2 DEF FeedIInv, ArrivedIsDone
  <2>6. PollInOrder' /\ CursorCovers'
    BY <1>1, <2>1, <2>3, PollStays, CursorStays DEF FeedIInv
  <2> QED
    BY <1>2, <2>1, <2>4, <2>5, <2>6 DEF FeedIInv
<1> QED
  BY <1>3, <1>4

\* A poll without a cursor sets it to the latest message it saw, or a later
\* one.
LEMMA LatestKeeps ==
  ASSUME FeedAssumption, FeedIInv, NEW m \in Ids, SetLatest(m)
  PROVE  FeedIInv' /\ poll.at = "latest" /\ cursor' >= poll.seen
<1>1. /\ poll.at = "latest" /\ m \in poll.seen..Len(kinds) /\ cursor' = m /\ base' = Max({base, m})
      /\ poll' = NoPoll /\ UNCHANGED <<kinds, fate, queue, stage, published, skipped, edited>>
  BY DEF SetLatest
<1>2. /\ Len(kinds) \in Nat /\ Len(kinds) <= MaxId /\ base \in 0..MaxId /\ MaxId \in Nat
      /\ poll.seen \in 0..MaxId
  BY FeedAssumption, PollFields DEF FeedIInv, ChatTyped, WorkTyped
<1>3. {base, m} \subseteq 0..MaxId /\ {base, m} # {}
  BY <1>2 DEF Ids
<1>4. base' \in {base, m} /\ \A y \in {base, m} : y <= base'
  BY <1>1, <1>2, <1>3, MaxOfBounded
<1>5. base' \in 0..MaxId /\ base <= base' /\ cursor' <= base' /\ cursor' \in 0..Len(kinds)
  BY <1>1, <1>2, <1>3, <1>4
<1>6. FeedIInv'
  BY <1>1, <1>5, BaseKeeps
<1> QED
  BY <1>1, <1>2, <1>6

\* The recovery poll starts, reads or ends: no call of its own is queued.
LEMMA PollTurns ==
  ASSUME FeedAssumption, FeedIInv, poll.at # "wait", poll' \in Poll,
         UNCHANGED <<kinds, fate, queue, stage, cursor, published, skipped, edited, base>>,
         \A k \in 1..Len(poll'.rest) : poll'.rest[k] <= Len(kinds),
         \A k \in 1..(Len(poll'.rest) - 1) : poll'.rest[k + 1] = poll'.rest[k] + 1,
         poll'.rest # <<>> => poll'.rest[1] = cursor + 1
  PROVE  FeedIInv'
<1>1. \A m : LiveQueued(m)' <=> LiveQueued(m)
  BY DEF LiveQueued
<1>2. Steady
  BY <1>1, FeedAssumption DEF FeedIInv, ChatTyped, Steady
<1>3. ChatTyped' /\ WorkTyped' /\ HolderIsHead' /\ EditsAreKnown' /\ LiveInOrder'
  BY DEF FeedIInv, ChatTyped, WorkTyped, HolderIsHead, EditsAreKnown, LiveInOrder
<1>4. ArrivedIsDone'
  BY <1>1 DEF FeedIInv, ArrivedIsDone
<1>5. CursorCovers'
  BY <1>2, CursorStays DEF FeedIInv
<1>6. \A i \in DOMAIN queue' : queue'[i].from # "poll"
  BY DEF FeedIInv, OnePollCall
<1>7. OnePollCall'
  BY <1>6 DEF OnePollCall
<1>8. poll'.rest # <<>> => AccountedBelow(poll.rest[1])'
  BY <1>5 DEF CursorCovers, AccountedBelow
<1>9. PollInOrder'
  BY <1>6, <1>8 DEF PollInOrder
<1> QED
  BY <1>3, <1>4, <1>5, <1>7, <1>9 DEF FeedIInv

\* The smaller of two numbers, as Min picks it.
LEMMA SmallerOfTwo ==
  ASSUME NEW a \in Nat, NEW b \in Nat
  PROVE  Min({a, b}) \in Nat /\ Min({a, b}) <= a /\ Min({a, b}) <= b
<1>1. \E x \in {a, b} : \A y \in {a, b} : x <= y
  <2>1. CASE a <= b
    BY <2>1
  <2>2. CASE b <= a
    BY <2>2
  <2> QED
    BY <2>1, <2>2
<1> DEFINE m == CHOOSE x \in {a, b} : \A y \in {a, b} : x <= y
<1>2. m \in {a, b} /\ \A y \in {a, b} : m <= y
  BY <1>1
<1> HIDE DEF m
<1>3. m \in Nat /\ m <= a /\ m <= b
  BY <1>2
<1> QED
  BY <1>3 DEF Min, m

\* The poll reads the messages after the cursor.
LEMMA PollReadKeeps ==
  ASSUME FeedAssumption, FeedIInv, PollRead
  PROVE  FeedIInv'
<1> DEFINE n == Min({PollLimit, Len(kinds) - cursor})
<1>1. /\ poll.at = "off" /\ Len(kinds) > cursor
      /\ poll' = [at |-> "read", rest |-> Missed(cursor), seen |-> 0]
      /\ UNCHANGED <<kinds, fate, queue, stage, cursor, published, skipped, edited, base>>
  BY DEF PollRead
<1>2. Len(kinds) \in Nat /\ Len(kinds) <= MaxId /\ cursor \in Nat /\ MaxId \in Nat /\ PollLimit \in Nat
  BY FeedAssumption DEF FeedIInv, ChatTyped
<1>3. n \in Nat /\ n <= Len(kinds) - cursor
  BY <1>1, <1>2, SmallerOfTwo
<1>4. Missed(cursor) = [i \in 1..n |-> cursor + i]
  BY DEF Missed
<1> HIDE DEF n
<1>5. Missed(cursor) \in [1..n -> Ids]
  BY <1>2, <1>3, <1>4 DEF Ids
<1>6. Missed(cursor) \in Seq(Ids) /\ Len(Missed(cursor)) = n
  BY <1>3, <1>5, IsSequence
<1>7. poll'.rest = Missed(cursor) /\ poll' \in Poll
  BY <1>1, <1>2, <1>6 DEF Poll
<1>8. /\ \A k \in 1..Len(poll'.rest) : poll'.rest[k] <= Len(kinds)
      /\ \A k \in 1..(Len(poll'.rest) - 1) : poll'.rest[k + 1] = poll'.rest[k] + 1
      /\ poll'.rest # <<>> => poll'.rest[1] = cursor + 1
  BY <1>2, <1>3, <1>4, <1>6, <1>7
<1> QED
  BY <1>1, <1>7, <1>8, PollTurns

\* The poll hands its next message to the publisher.
LEMMA PollPublishKeeps ==
  ASSUME FeedAssumption, FeedIInv, PollPublish
  PROVE  FeedIInv'
<1>1. /\ poll.at = "read" /\ poll \in Poll /\ poll.rest \in Seq(Ids)
      /\ UNCHANGED <<kinds, fate, stage, cursor, published, skipped, edited, base>>
  BY PollFields DEF PollPublish, FeedIInv, WorkTyped
<1>2. CASE poll.rest = <<>>
  <2>1. poll' = NoPoll /\ UNCHANGED queue
    BY <1>2 DEF PollPublish
  <2>2. NoPoll \in Poll /\ NoPoll.rest = <<>>
    BY FeedAssumption DEF NoPoll, Poll
  <2> QED
    BY <1>1, <2>1, <2>2, PollTurns
<1>3. CASE poll.rest # <<>>
  <2> DEFINE q == [id |-> Head(poll.rest), from |-> "poll"]
  <2>1. poll' = [poll EXCEPT !.at = "wait", !.rest = Tail(@)] /\ queue' = Append(queue, q)
    BY <1>3 DEF PollPublish
  <2>2. /\ Head(poll.rest) = poll.rest[1] /\ poll.rest[1] \in Ids /\ Tail(poll.rest) \in Seq(Ids)
        /\ Len(poll.rest) \in Nat \ {0} /\ Len(Tail(poll.rest)) = Len(poll.rest) - 1
        /\ \A k \in 1..(Len(poll.rest) - 1) : Tail(poll.rest)[k] = poll.rest[k + 1]
    BY <1>1, <1>3
  <2>3. poll'.at = "wait" /\ poll'.rest = Tail(poll.rest) /\ poll' \in Poll
    BY <1>1, <2>1, <2>2 DEF Poll
  <2>4. q \in Call /\ q.id = poll.rest[1] /\ q.from = "poll"
    BY <2>2 DEF Call
  <2> HIDE DEF q
  <2>5. /\ queue' \in Seq(Call) /\ Len(queue) \in Nat /\ DOMAIN queue = 1..Len(queue)
        /\ DOMAIN queue' = 1..(Len(queue) + 1) /\ queue' # <<>>
        /\ \A i \in DOMAIN queue : queue'[i] = queue[i]
        /\ queue'[Len(queue) + 1] = q
        /\ queue # <<>> => Head(queue') = Head(queue)
        /\ \A m : LiveQueued(m)' <=> LiveQueued(m) \/ (q.id = m /\ q.from = "live")
    BY <2>1, <2>4, QueueAppend DEF FeedIInv
  <2>6. \A m : LiveQueued(m)' <=> LiveQueued(m)
    BY <2>4, <2>5
  <2>7. Steady
    BY <1>1, <2>6, FeedAssumption DEF FeedIInv, ChatTyped, Steady
  <2>8. q.id <= Len(kinds) /\ q.id \in Nat /\ AccountedBelow(q.id)
    BY <1>1, <1>3, <2>2, <2>4 DEF FeedIInv, PollInOrder, Ids
  <2>9. ChatTyped'
    BY <1>1 DEF FeedIInv, ChatTyped
  <2>10. \A i \in DOMAIN queue : queue[i].from # "poll"
    BY <1>1 DEF FeedIInv, OnePollCall
  <2>11. ASSUME NEW i \in DOMAIN queue'
         PROVE  (i \in DOMAIN queue /\ queue'[i] = queue[i]) \/ (i = Len(queue) + 1 /\ queue'[i] = q)
    BY <2>5
  <2>12. WorkTyped'
    <3>1. \A i \in DOMAIN queue' : queue'[i].id <= Len(kinds')
      BY <1>1, <2>8, <2>11 DEF FeedIInv, WorkTyped
    <3> QED
      BY <1>1, <2>3, <2>5, <3>1 DEF FeedIInv, WorkTyped
  <2>13. HolderIsHead' /\ EditsAreKnown'
    <3>1. HolderIsHead'
      BY <1>1, <2>5 DEF FeedIInv, HolderIsHead
    <3>2. \A i \in DOMAIN queue' : queue'[i].from = "edit" => queue'[i].id \in edited'
      BY <1>1, <2>4, <2>11 DEF FeedIInv, EditsAreKnown
    <3> QED
      BY <3>1, <3>2 DEF EditsAreKnown
  <2>14. \A i \in DOMAIN queue' : queue'[i].from = "live" => i \in DOMAIN queue /\ queue'[i] = queue[i]
    BY <2>4, <2>11
  <2>15. LiveInOrder'
    BY <1>1, <2>14 DEF FeedIInv, LiveInOrder
  <2>16. ArrivedIsDone'
    BY <1>1, <2>6 DEF FeedIInv, ArrivedIsDone
  <2>17. \A i \in DOMAIN queue' : queue'[i].from = "poll" => i = Len(queue) + 1 /\ queue'[i] = q
    BY <2>10, <2>11
  <2>18. OnePollCall'
    BY <2>3, <2>17 DEF OnePollCall
  <2>19. PollInOrder'
    <3>1. \A k \in 1..Len(poll'.rest) : poll'.rest[k] <= Len(kinds')
      BY <1>1, <2>2, <2>3 DEF FeedIInv, PollInOrder
    <3>2. \A k \in 1..(Len(poll'.rest) - 1) : poll'.rest[k + 1] = poll'.rest[k] + 1
      BY <1>1, <2>2, <2>3 DEF FeedIInv, PollInOrder
    <3>3. PICK n \in Nat : n = q.id /\ n <= Len(kinds) /\ AccountedBelow(n)
      BY <2>8
    <3>4. AccountedBelow(n)'
      BY <2>7, <3>3, BelowStays DEF Steady
    <3>5. poll'.rest # <<>> => poll'.rest[1] = n + 1
      <4> HAVE poll'.rest # <<>>
      <4>1. 1 \in 1..(Len(poll.rest) - 1)
        BY <2>2, <2>3
      <4> QED
        BY <2>2, <2>3, <2>4, <3>3, <4>1 DEF FeedIInv, PollInOrder
    <3>6. \A i \in DOMAIN queue' : queue'[i].from = "poll" =>
             AccountedBelow(queue[i].id)' /\ (poll'.rest # <<>> => poll'.rest[1] = queue'[i].id + 1)
      BY <2>17, <3>3, <3>4, <3>5 DEF AccountedBelow
    <3> QED
      BY <2>3, <3>1, <3>2, <3>6 DEF PollInOrder
  <2>20. CursorCovers'
    BY <1>1, <2>7, CursorStays DEF FeedIInv
  <2> QED
    BY <2>9, <2>12, <2>13, <2>15, <2>16, <2>18, <2>19, <2>20 DEF FeedIInv
<1> QED
  BY <1>2, <1>3

\* A crash loses the updates that were on their way or in the queue, and the
\* poll; what the cursor covers was dealt with before.
LEMMA CrashKeeps ==
  ASSUME FeedAssumption, FeedIInv, Crash
  PROVE  FeedIInv'
<1>1. /\ queue' = <<>> /\ stage' = "start" /\ poll' = NoPoll
      /\ UNCHANGED <<kinds, cursor, published, skipped, edited, base>>
  BY DEF Crash
<1>2. NoPoll \in Poll /\ NoPoll.rest = <<>> /\ <<>> \in Seq(Call) /\ DOMAIN (<<>>) = {}
  BY FeedAssumption DEF NoPoll, Poll
<1>3. Len(kinds) \in Nat /\ DOMAIN fate = 1..Len(kinds) /\ \A m \in 1..Len(kinds) : fate[m] \in Fates
  BY DEF FeedIInv, ChatTyped
<1>4. fate' = [m \in 1..Len(kinds) |-> IF fate[m] = "coming" \/ LiveQueued(m) THEN "lost" ELSE fate[m]]
  BY <1>3 DEF Crash
<1>5. fate' \in [1..Len(kinds) -> Fates]
  BY <1>3, <1>4 DEF Fates
<1>6. fate' \in Seq(Fates) /\ Len(fate') = Len(kinds)
  BY <1>3, <1>5, IsSequence
<1>7. \A m \in 1..Len(kinds) : fate'[m] = IF fate[m] = "coming" \/ LiveQueued(m) THEN "lost" ELSE fate[m]
  BY <1>4
<1>8. \A m : ~LiveQueued(m)'
  BY <1>1, <1>2 DEF LiveQueued
<1>9. ChatTyped' /\ WorkTyped'
  BY <1>1, <1>2, <1>6 DEF FeedIInv, ChatTyped, WorkTyped
<1>10. Steady
  BY <1>1, <1>7, <1>8, FeedAssumption DEF FeedIInv, ChatTyped, Steady
<1>11. HolderIsHead' /\ EditsAreKnown' /\ OnePollCall' /\ PollInOrder'
  BY <1>1, <1>2 DEF HolderIsHead, EditsAreKnown, OnePollCall, PollInOrder, NoPoll
<1>12. LiveInOrder'
  <2>1. \A n \in 1..Len(kinds) : fate'[n] = "arrived" => \A m \in 1..(n - 1) : fate'[m] # "coming"
    <3> TAKE n \in 1..Len(kinds)
    <3> HAVE fate'[n] = "arrived"
    <3> TAKE m \in 1..(n - 1)
    <3>1. m \in 1..Len(kinds)
      BY <1>3
    <3> QED
      BY <1>7, <3>1
  <2> QED
    BY <1>1, <1>2, <2>1 DEF LiveInOrder
<1>13. ArrivedIsDone'
  BY <1>1, <1>7 DEF FeedIInv, ArrivedIsDone
<1>14. CursorCovers'
  BY <1>1, <1>10, CursorStays DEF FeedIInv
<1> QED
  BY <1>9, <1>11, <1>12, <1>13, <1>14 DEF FeedIInv

\* Steps of the user, the connection and the permission lookup.
LEMMA QuietKeeps ==
  ASSUME FeedAssumption, FeedIInv, stage' \in {stage, "start", "asked"},
         stage' # "start" => queue # <<>>,
         UNCHANGED <<kinds, fate, queue, cursor, poll, published, skipped, edited, base>>
  PROVE  FeedIInv'
<1>1. \A m : LiveQueued(m)' <=> LiveQueued(m)
  BY DEF LiveQueued
<1>2. Steady
  BY <1>1, FeedAssumption DEF FeedIInv, ChatTyped, Steady
<1>3. ChatTyped' /\ WorkTyped' /\ EditsAreKnown' /\ LiveInOrder' /\ OnePollCall'
  BY DEF FeedIInv, ChatTyped, WorkTyped, EditsAreKnown, LiveInOrder, OnePollCall
<1>4. HolderIsHead'
  BY DEF FeedIInv, HolderIsHead
<1>5. ArrivedIsDone'
  BY <1>1 DEF FeedIInv, ArrivedIsDone
<1>6. PollInOrder' /\ CursorCovers'
  BY <1>2, PollStays, CursorStays DEF FeedIInv
<1> QED
  BY <1>3, <1>4, <1>5, <1>6 DEF FeedIInv

-----------------------------------------------------------------------------
\* At first there is no cursor, so that nothing is below it.
LEMMA FeedInitIInv == FeedInit => FeedIInv
<1> SUFFICES ASSUME FeedInit PROVE FeedIInv
  OBVIOUS
<1>1. /\ kinds = <<"text">> /\ fate = <<"lost">> /\ queue = <<>> /\ stage = "start" /\ cursor = 0 /\ base = 0
      /\ poll = NoPoll /\ published \subseteq {1} /\ skipped = {} /\ edited = {}
  BY DEF FeedInit
<1>2. /\ kinds \in Seq(Kinds) /\ fate \in Seq(Fates) /\ Len(kinds) = 1 /\ Len(fate) = 1 /\ fate[1] = "lost"
      /\ queue \in Seq(Call) /\ DOMAIN queue = {}
  BY <1>1 DEF Kinds, Fates
<1>3. NoPoll \in Poll /\ NoPoll.rest = <<>> /\ NoPoll.at = "off"
  BY FeedAssumption DEF NoPoll, Poll
<1>4. ChatTyped /\ WorkTyped
  BY <1>1, <1>2, <1>3, FeedAssumption DEF ChatTyped, WorkTyped
<1>5. HolderIsHead /\ LiveInOrder /\ ArrivedIsDone /\ EditsAreKnown /\ OnePollCall
  BY <1>1, <1>2 DEF HolderIsHead, LiveInOrder, ArrivedIsDone, EditsAreKnown, OnePollCall
<1>6. PollInOrder
  BY <1>1, <1>2, <1>3 DEF PollInOrder
<1>7. CursorCovers
  BY <1>1, <1>2 DEF CursorCovers, AccountedBelow
<1> QED
  BY <1>4, <1>5, <1>6, <1>7 DEF FeedIInv

\* One step of the feed: the invariant, and when the cursor may move back.
LEMMA FeedStep ==
  ASSUME FeedIInv, [FeedNext]_feedVars
  PROVE  FeedIInv' /\ (cursor' < cursor => poll.at = "latest" /\ cursor' >= poll.seen)
<1> DEFINE Goal == FeedIInv' /\ (cursor' < cursor => poll.at = "latest" /\ cursor' >= poll.seen)
<1>1. cursor \in Nat /\ Len(kinds) \in Nat /\ FeedAssumption
  BY FeedAssumption DEF FeedIInv, ChatTyped
<1>2. cursor' = cursor => ~(cursor' < cursor)
  BY <1>1
<1>3. ASSUME NEW k \in Kinds, Post(k) PROVE Goal
  BY <1>1, <1>2, <1>3, PostKeeps DEF Post
<1>4. ASSUME NEW m \in 1..Len(kinds), LoseUpdate(m) PROVE Goal
  <2>1. fate \in Seq(Fates) /\ Len(fate) = Len(kinds)
    BY DEF FeedIInv, ChatTyped
  <2>2. fate[m] = "coming" /\ fate' = [fate EXCEPT ![m] = "lost"]
    BY <1>4 DEF LoseUpdate
  <2>3. fate' \in Seq(Fates) /\ Len(fate') = Len(kinds)
    BY <2>1, <2>2 DEF Fates
  <2>4. \A n \in 1..Len(kinds) : fate'[n] = fate[n] \/ (fate[n] = "coming" /\ fate'[n] = "lost")
    BY <2>1, <2>2
  <2> QED
    BY <1>1, <1>2, <1>4, <2>3, <2>4, FatesFall DEF LoseUpdate
<1>5. ASSUME NEW m \in 1..Len(kinds), Arrive(m) PROVE Goal
  <2> DEFINE q == [id |-> m, from |-> "live"]
  <2>1. fate \in Seq(Fates) /\ Len(fate) = Len(kinds) /\ Len(kinds) <= MaxId
    BY DEF FeedIInv, ChatTyped
  <2>2. /\ fate[m] = "coming" /\ fate' = [fate EXCEPT ![m] = "arrived"] /\ queue' = Append(queue, q)
        /\ \A n \in 1..(m - 1) : fate[n] # "coming"
        /\ UNCHANGED <<kinds, stage, cursor, poll, published, skipped, edited, base>>
    BY <1>5 DEF Arrive
  <2>3. fate' \in Seq(Fates) /\ Len(fate') = Len(kinds)
    BY <2>1, <2>2 DEF Fates
  <2>4. fate'[m] = "arrived" /\ \A n \in 1..Len(kinds) : n # m => fate'[n] = fate[n]
    BY <2>1, <2>2
  <2>5. q \in Call /\ q.id = m /\ q.from = "live" /\ m <= Len(kinds)
    BY <1>1, <2>1, FeedAssumption DEF Call, Ids
  <2>6. edited' \subseteq 1..Len(kinds) /\ edited \subseteq edited'
    BY <2>2 DEF FeedIInv, ChatTyped
  <2> HIDE DEF q
  <2>7. FeedIInv'
    BY <1>1, <2>2, <2>3, <2>4, <2>5, <2>6, CallJoins
  <2> QED
    BY <1>2, <2>2, <2>7
<1>6. ASSUME NEW m \in 1..Len(kinds), Edit(m) PROVE Goal
  <2> DEFINE q == [id |-> m, from |-> "edit"]
  <2>1. fate \in Seq(Fates) /\ Len(fate) = Len(kinds) /\ Len(kinds) <= MaxId
    BY DEF FeedIInv, ChatTyped
  <2>2. /\ queue' = Append(queue, q) /\ edited' = edited \cup {m}
        /\ UNCHANGED <<kinds, fate, stage, cursor, poll, published, skipped, base>>
    BY <1>6 DEF Edit
  <2>3. q \in Call /\ q.id = m /\ q.from = "edit" /\ m <= Len(kinds)
    BY <1>1, <2>1, FeedAssumption DEF Call, Ids
  <2>4. edited' \subseteq 1..Len(kinds) /\ edited \subseteq edited' /\ m \in edited'
    BY <2>2 DEF FeedIInv, ChatTyped
  <2> HIDE DEF q
  <2>5. FeedIInv'
    BY <1>1, <2>1, <2>2, <2>3, <2>4, CallJoins
  <2> QED
    BY <1>2, <2>2, <2>5
<1>7. ASSUME NEW b \in BOOLEAN, SetPaused(b) PROVE Goal
  BY <1>1, <1>2, <1>7, QuietKeeps DEF SetPaused, FeedIInv, HolderIsHead
<1>8. CASE SkipMessage
  <2>1. /\ queue # <<>> /\ Leave /\ cursor' = Advanced(Head(queue).id)
        /\ UNCHANGED <<kinds, fate, published, edited, base>>
        /\ skipped' = IF Head(queue).from = "edit" THEN skipped ELSE skipped \cup {Head(queue).id}
    BY <1>8 DEF SkipMessage
  <2>2. 1 \in DOMAIN queue /\ Head(queue) = queue[1]
    BY <2>1 DEF FeedIInv, WorkTyped
  <2>3. Head(queue).id \in 1..Len(kinds)
    BY <2>2, QueueFields DEF FeedIInv, Ids
  <2>4. skipped' \subseteq 1..Len(kinds) /\ published' \subseteq 1..Len(kinds)
    BY <2>1, <2>3 DEF FeedIInv, ChatTyped
  <2>5. FeedIInv'
    BY <1>1, <2>1, <2>4, LeaveKeeps
  <2> QED
    BY <1>1, <2>1, <2>3, <2>5 DEF Advanced
<1>9. CASE AskPermission
  BY <1>1, <1>2, <1>9, QuietKeeps DEF AskPermission
<1>10. CASE PublishAsked \/ PublishMessage
  <2>1. queue # <<>> /\ Publish(Head(queue).id)
    BY <1>10 DEF PublishAsked, PublishMessage, FeedIInv, HolderIsHead
  <2> QED
    BY <1>1, <1>2, <2>1, PublishKeeps DEF Publish
<1>11. CASE AdvanceCursor
  <2>1. /\ queue # <<>> /\ Leave /\ cursor' = Advanced(Head(queue).id)
        /\ UNCHANGED <<kinds, fate, published, skipped, edited, base>>
        /\ Head(queue).from = "edit" \/ Head(queue).id \in published
    BY <1>11 DEF AdvanceCursor, FeedIInv, HolderIsHead
  <2>2. 1 \in DOMAIN queue /\ Head(queue) = queue[1]
    BY <2>1 DEF FeedIInv, WorkTyped
  <2>3. Head(queue).id \in 1..Len(kinds)
    BY <2>2, QueueFields DEF FeedIInv, Ids
  <2>4. skipped' \subseteq 1..Len(kinds) /\ published' \subseteq 1..Len(kinds)
    BY <2>1 DEF FeedIInv, ChatTyped
  <2>5. FeedIInv'
    BY <1>1, <2>1, <2>4, LeaveKeeps
  <2> QED
    BY <1>1, <2>1, <2>3, <2>5 DEF Advanced
<1>12. CASE RefreshCache
  <2>1. FeedIInv' /\ cursor' >= cursor
    BY <1>1, <1>12, RefreshKeeps
  <2>2. cursor' \in Nat
    BY <2>1, FeedAssumption DEF FeedIInv, ChatTyped
  <2> QED
    BY <1>1, <2>1, <2>2
<1>13. CASE PollLatest
  <2>1. /\ poll.at = "off" /\ poll' = [at |-> "latest", rest |-> <<>>, seen |-> Len(kinds)]
        /\ UNCHANGED <<kinds, fate, queue, stage, cursor, published, skipped, edited, base>>
    BY <1>13 DEF PollLatest
  <2>2. Len(kinds) \in 0..MaxId
    BY FeedAssumption DEF FeedIInv, ChatTyped
  <2>3. poll' \in Poll /\ poll'.rest = <<>>
    BY <2>1, <2>2 DEF Poll
  <2>4. FeedIInv'
    BY <1>1, <2>1, <2>3, PollTurns
  <2> QED
    BY <1>2, <2>1, <2>4
<1>14. ASSUME NEW m \in Ids, SetLatest(m) PROVE Goal
  BY <1>1, <1>14, LatestKeeps
<1>15. CASE PollRead
  BY <1>1, <1>2, <1>15, PollReadKeeps DEF PollRead
<1>16. CASE PollPublish
  BY <1>1, <1>2, <1>16, PollPublishKeeps DEF PollPublish
<1>17. CASE Disconnect \/ Revoke
  <2>1. fate \in Seq(Fates) /\ DOMAIN fate = 1..Len(kinds)
    BY DEF FeedIInv, ChatTyped
  <2>2. /\ fate' = NotComing(fate)
        /\ UNCHANGED <<kinds, queue, stage, cursor, poll, published, skipped, edited, base>>
    BY <1>17 DEF Disconnect, Revoke
  <2>3. fate' = [m \in 1..Len(kinds) |-> IF fate[m] = "coming" THEN "lost" ELSE fate[m]]
    BY <2>1, <2>2 DEF NotComing
  <2>4. fate' \in [1..Len(kinds) -> Fates]
    BY <2>1, <2>3 DEF Fates
  <2>5. fate' \in Seq(Fates) /\ Len(fate') = Len(kinds)
    BY <1>1, <2>4, IsSequence
  <2>6. \A m \in 1..Len(kinds) : fate'[m] = fate[m] \/ (fate[m] = "coming" /\ fate'[m] = "lost")
    BY <2>3
  <2>7. FeedIInv'
    BY <1>1, <2>2, <2>5, <2>6, FatesFall
  <2> QED
    BY <1>2, <2>2, <2>7
<1>18. CASE Crash
  BY <1>1, <1>2, <1>18, CrashKeeps DEF Crash
<1>19. CASE LoseRoutes \/ RouteAgain \/ SignInAgain \/ Attach
  BY <1>1, <1>2, <1>19, QuietKeeps DEF LoseRoutes, RouteAgain, SignInAgain, Attach, FeedIInv, HolderIsHead
<1>20. CASE UNCHANGED feedVars
  BY <1>1, <1>2, <1>20, QuietKeeps DEF feedVars, FeedIInv, HolderIsHead
<1> QED
  BY <1>3, <1>4, <1>5, <1>6, <1>7, <1>8, <1>9, <1>10, <1>11, <1>12, <1>13, <1>14, <1>15, <1>16, <1>17,
     <1>18, <1>19, <1>20 DEF FeedNext, HolderStep, PollStep

\* A message below the cursor that is covered is explained.
LEMMA AccountedIsExplained == FeedIInv => GapsExplained
<1> SUFFICES ASSUME FeedIInv, NEW m \in 1..Len(kinds), m <= cursor, m \notin published \cup skipped,
                    ~Queued(m), fate[m] # "coming"
             PROVE  \/ m <= base
                    \/ /\ fate[m] = "lost"
                       /\ \/ \E n \in (m + 1)..Len(kinds) : fate[n] = "arrived"
                          \/ \E n \in m..Len(kinds) : n \in edited
  BY DEF GapsExplained
<1>1. Accounted(m)
  BY DEF FeedIInv, CursorCovers, AccountedBelow, ChatTyped
<1>2. ~LiveQueued(m)
  BY DEF Queued, LiveQueued
<1>3. fate[m] = "lost"
  BY <1>2 DEF FeedIInv, ArrivedIsDone, ChatTyped, Fates
<1>4. ASSUME NEW n \in edited, n >= m PROVE n \in m..Len(kinds)
  BY <1>4 DEF FeedIInv, ChatTyped
<1> QED
  BY <1>1, <1>3, <1>4 DEF Accounted

\* Whatever updates are lost and wherever the runtime crashes or disconnects, a
\* message the cursor passed was published, passed over or under way, or its gap
\* has one of the known causes: publish_message, the poll's order and the lock
\* leave no other, for any number of messages and any poll limit.
THEOREM GapsAreExplained == FeedSpec => []GapsExplained
<1>1. FeedIInv /\ [FeedNext]_feedVars => FeedIInv'
  BY FeedStep
<1> QED
  BY <1>1, FeedInitIInv, AccountedIsExplained, PTL DEF FeedSpec

\* _advance_source_cursor and the cache never lower the cursor; only the answer to
\* the poll's first request does, and never below the latest message it saw.
THEOREM CursorMovesBackOnlyAtStartHolds == FeedSpec => CursorMovesBackOnlyAtStart
<1>1. FeedIInv /\ [FeedNext]_feedVars => FeedIInv'
  BY FeedStep
<1>2. FeedIInv /\ [FeedNext]_feedVars =>
        [cursor' < cursor => poll.at = "latest" /\ cursor' >= poll.seen]_feedVars
  BY FeedStep
<1> QED
  BY <1>1, <1>2, FeedInitIInv, PTL DEF FeedSpec, CursorMovesBackOnlyAtStart

\* The flags of a source and its runtime, and the count of faults.
FlagsTyped ==
    /\ paused \in BOOLEAN /\ routed \in BOOLEAN /\ cached \in BOOLEAN
    /\ connected \in BOOLEAN /\ revoked \in BOOLEAN /\ faults \in 0..MaxFaults

\* Every step keeps them.
LEMMA FlagsStay ==
  ASSUME FlagsTyped, [FeedNext]_feedVars
  PROVE  FlagsTyped'
<1>1. ASSUME UNCHANGED <<paused, routed, cached, connected, revoked, faults>> PROVE FlagsTyped'
  BY <1>1, Zenon DEF FlagsTyped
<1>2. CASE \/ \E k \in Kinds : Post(k)
           \/ \E m \in 1..Len(kinds) : LoseUpdate(m) \/ Arrive(m) \/ Edit(m)
           \/ HolderStep \/ PollStep \/ UNCHANGED feedVars
  BY <1>1, <1>2, Zenon DEF Post, LoseUpdate, Arrive, Edit, HolderStep, SkipMessage, AskPermission,
     PublishAsked, PublishMessage, Publish, AdvanceCursor, PollStep, PollLatest, SetLatest,
     PollRead, PollPublish, feedVars
<1>3. ASSUME NEW p \in BOOLEAN, SetPaused(p) PROVE FlagsTyped'
  BY <1>3, Zenon DEF SetPaused, FlagsTyped
<1>4. CASE RefreshCache
  <2>1. cached' = Polled /\ UNCHANGED <<paused, routed, connected, revoked, faults>>
    BY <1>4, Zenon DEF RefreshCache
  <2>2. cached' \in BOOLEAN
    BY <2>1, Zenon DEF Polled
  <2> QED
    BY <2>1, <2>2, Zenon DEF FlagsTyped
<1>5. CASE LoseRoutes \/ RouteAgain \/ Disconnect \/ Crash \/ Revoke \/ SignInAgain \/ Attach
  <2>1. /\ connected' \in BOOLEAN /\ cached' \in BOOLEAN /\ paused' = paused
        /\ routed' \in BOOLEAN /\ revoked' \in BOOLEAN
    BY <1>5, Zenon DEF LoseRoutes, RouteAgain, Disconnect, Crash, Revoke, SignInAgain, Attach, FlagsTyped
  <2>2. faults' \in 0..MaxFaults
    <3>1. faults' = faults \/ (faults < MaxFaults /\ faults' = faults + 1)
      BY <1>5, Zenon DEF LoseRoutes, RouteAgain, Disconnect, Crash, Revoke, SignInAgain, Attach
    <3> QED
      BY <3>1, FeedAssumption DEF FlagsTyped
  <2> QED
    BY <2>1, <2>2, Zenon DEF FlagsTyped
<1> QED
  BY <1>2, <1>3, <1>4, <1>5, Zenon DEF FeedNext

\* The messages of a source, the calls that wait for its lock, the poll, the
\* cursor and the flags keep their types.
THEOREM FeedTypeCorrect == FeedSpec => []FeedTypeOK
<1>1. FeedInit => FlagsTyped
  <2>1. FeedInit => /\ paused \in BOOLEAN /\ routed \in BOOLEAN /\ cached \in BOOLEAN
                    /\ connected \in BOOLEAN /\ revoked \in BOOLEAN
    BY Zenon DEF FeedInit
  <2>2. FeedInit => faults \in 0..MaxFaults
    BY FeedAssumption DEF FeedInit
  <2> QED
    BY <2>1, <2>2, Zenon DEF FlagsTyped
<1>2. FeedIInv /\ FlagsTyped => FeedTypeOK
  <2> SUFFICES ASSUME FeedIInv, FlagsTyped PROVE FeedTypeOK
    OBVIOUS
  <2>1. ChatTyped /\ WorkTyped
    BY DEF FeedIInv
  <2>2. fate \in [1..Len(kinds) -> {"coming", "arrived", "lost"}]
    BY <2>1 DEF ChatTyped, Fates
  <2>3. published \subseteq Ids /\ skipped \subseteq Ids /\ edited \subseteq Ids
    <3>1. 1..Len(kinds) \subseteq Ids
      BY <2>1, FeedAssumption DEF ChatTyped, Ids
    <3> QED
      BY <2>1, <3>1 DEF ChatTyped
  <2>4. /\ kinds \in Seq(Kinds) /\ Len(kinds) <= MaxId
        /\ queue \in Seq(Call) /\ stage \in {"start", "asked", "advance"}
        /\ cursor \in 0..MaxId /\ base \in 0..MaxId
        /\ poll \in [at : {"off", "latest", "read", "wait"}, rest : Seq(Ids), seen : 0..MaxId]
    BY <2>1, Zenon DEF ChatTyped, WorkTyped, Poll
  <2> QED
    BY <2>2, <2>3, <2>4, Zenon DEF FlagsTyped, FeedTypeOK
<1>3. FeedIInv /\ [FeedNext]_feedVars => FeedIInv'
  BY FeedStep
<1>4. FlagsTyped /\ [FeedNext]_feedVars => FlagsTyped'
  BY FlagsStay
<1> QED
  BY <1>1, <1>2, <1>3, <1>4, FeedInitIInv, PTL DEF FeedSpec

-----------------------------------------------------------------------------
(***************************************************************************)
(* The settings: rows that patches set part of and commits write part of   *)
(* keep their types; a request that no other overlapped commits rows that  *)
(* agree with the ones it read.                                            *)
(***************************************************************************)
\* A row each of whose columns is that of some row: a patched row, and one that
\* a commit wrote part of.
LEMMA MixedPolicy ==
  ASSUME NEW p \in CopyAccountPolicy, NEW q,
         q = [f \in DOMAIN p |-> q[f]],
         \A f \in DOMAIN p : q[f] = p[f] \/ \E o \in CopyAccountPolicy : q[f] = o[f]
  PROVE  q \in CopyAccountPolicy
  BY DEF CopyAccountPolicy

LEMMA MixedRoute ==
  ASSUME NEW p \in CopyRoute, NEW q,
         q = [f \in DOMAIN p |-> q[f]],
         \A f \in DOMAIN p : q[f] = p[f] \/ \E o \in CopyRoute : q[f] = o[f]
  PROVE  q \in CopyRoute
  BY DEF CopyRoute

\* The columns a commit writes, beside those it leaves.
LEMMA FlushTyped ==
  ASSUME NEW seen
  PROVE  /\ \A p, q \in CopyAccountPolicy : Flush(p, seen, q) \in CopyAccountPolicy
         /\ \A p, q \in CopyRoute : Flush(p, seen, q) \in CopyRoute
<1>1. \A p, q \in CopyAccountPolicy : DOMAIN p = DOMAIN q
  BY DEF CopyAccountPolicy
<1>2. \A p, q \in CopyRoute : DOMAIN p = DOMAIN q
  BY DEF CopyRoute
<1>3. ASSUME NEW p \in CopyAccountPolicy, NEW q \in CopyAccountPolicy
      PROVE  Flush(p, seen, q) \in CopyAccountPolicy
  <2>1. /\ Flush(p, seen, q) = [f \in DOMAIN p |-> Flush(p, seen, q)[f]]
        /\ \A f \in DOMAIN p : Flush(p, seen, q)[f] = p[f] \/ Flush(p, seen, q)[f] = q[f]
    BY <1>1 DEF Flush
  <2>2. \A f \in DOMAIN p : \/ Flush(p, seen, q)[f] = p[f]
                          \/ \E o \in CopyAccountPolicy : Flush(p, seen, q)[f] = o[f]
    BY <2>1, Zenon
  <2> QED
    BY <2>1, <2>2, MixedPolicy, Zenon
<1>4. ASSUME NEW p \in CopyRoute, NEW q \in CopyRoute
      PROVE  Flush(p, seen, q) \in CopyRoute
  <2>1. /\ Flush(p, seen, q) = [f \in DOMAIN p |-> Flush(p, seen, q)[f]]
        /\ \A f \in DOMAIN p : Flush(p, seen, q)[f] = p[f] \/ Flush(p, seen, q)[f] = q[f]
    BY <1>2 DEF Flush
  <2>2. \A f \in DOMAIN p : \/ Flush(p, seen, q)[f] = p[f]
                          \/ \E o \in CopyRoute : Flush(p, seen, q)[f] = o[f]
    BY <2>1, Zenon
  <2> QED
    BY <2>1, <2>2, MixedRoute, Zenon
<1> QED
  BY <1>3, <1>4

\* A body's fields have the types of the columns they set.
LEMMA PatchTyped ==
  /\ \A p \in CopyAccountPolicy, body \in PolicyPatches : Patched(p, body) \in CopyAccountPolicy
  /\ \A p \in CopyRoute, body \in RoutePatches : Patched(p, body) \in CopyRoute
<1>1. ASSUME NEW p \in CopyAccountPolicy, NEW body \in PolicyPatches
      PROVE  Patched(p, body) \in CopyAccountPolicy
  <2>1. PICK o \in CopyAccountPolicy : \A f \in DOMAIN body \cap DOMAIN o : body[f] = o[f]
    BY BodiesAssumption
  <2>2. DOMAIN o = DOMAIN p
    BY DEF CopyAccountPolicy
  <2>3. /\ Patched(p, body) = [f \in DOMAIN p |-> Patched(p, body)[f]]
        /\ \A f \in DOMAIN p : Patched(p, body)[f] = p[f] \/ Patched(p, body)[f] = o[f]
    BY <2>1, <2>2 DEF Patched
  <2>4. \A f \in DOMAIN p : \/ Patched(p, body)[f] = p[f]
                          \/ \E x \in CopyAccountPolicy : Patched(p, body)[f] = x[f]
    BY <2>3, Zenon
  <2> QED
    BY <2>3, <2>4, MixedPolicy, Zenon
<1>2. ASSUME NEW p \in CopyRoute, NEW body \in RoutePatches
      PROVE  Patched(p, body) \in CopyRoute
  <2>1. PICK o \in CopyRoute : \A f \in DOMAIN body \cap DOMAIN o : body[f] = o[f]
    BY BodiesAssumption
  <2>2. DOMAIN o = DOMAIN p
    BY DEF CopyRoute
  <2>3. /\ Patched(p, body) = [f \in DOMAIN p |-> Patched(p, body)[f]]
        /\ \A f \in DOMAIN p : Patched(p, body)[f] = p[f] \/ Patched(p, body)[f] = o[f]
    BY <2>1, <2>2 DEF Patched
  <2>4. \A f \in DOMAIN p : \/ Patched(p, body)[f] = p[f]
                          \/ \E x \in CopyRoute : Patched(p, body)[f] = x[f]
    BY <2>3, Zenon
  <2> QED
    BY <2>3, <2>4, MixedRoute, Zenon
<1> QED
  BY <1>1, <1>2

\* A body's lots are lots.
LEMMA BodyLots ==
  /\ \A body \in RoutePatches : "lot" \in DOMAIN body => body.lot \in Lots
  /\ \A body \in PolicyPatches :
        \A f \in {"maxLot", "maxLotPerTrade"} \cap DOMAIN body : body[f] \in Lots
<1>1. \A r \in CopyRoute : "lot" \in DOMAIN r /\ r.lot \in Lots
  BY DEF CopyRoute
<1>2. \A p \in CopyAccountPolicy : \A f \in {"maxLot", "maxLotPerTrade"} : f \in DOMAIN p /\ p[f] \in Lots
  BY DEF CopyAccountPolicy
<1>3. ASSUME NEW body \in RoutePatches, "lot" \in DOMAIN body PROVE body.lot \in Lots
  <2>1. PICK r \in CopyRoute : \A f \in DOMAIN body \cap DOMAIN r : body[f] = r[f]
    BY BodiesAssumption
  <2> QED
    BY <1>1, <1>3, <2>1
<1>4. ASSUME NEW body \in PolicyPatches, NEW f \in {"maxLot", "maxLotPerTrade"} \cap DOMAIN body
      PROVE  body[f] \in Lots
  <2>1. PICK p \in CopyAccountPolicy : \A g \in DOMAIN body \cap DOMAIN p : body[g] = p[g]
    BY BodiesAssumption
  <2> QED
    BY <1>2, <2>1
<1> QED
  BY <1>3, <1>4

-----------------------------------------------------------------------------
(* Types.                                                                  *)

\* What a request carries between its checks and its commit.
LEMMA CarriedTyped ==
  ASSUME NEW q \in Thread
  PROVE  /\ q.at = "policy" => q.new \in CopyAccountPolicy
         /\ q.at = "route" => q.id \in RouteIds /\ q.new \in CopyRoute /\ q.stamps \in BOOLEAN
         /\ q.at = "create" => q.id \in RouteIds /\ q.new \in CopyRoute
         /\ q.at = "deleteRoute" => q.id \in RouteIds
  BY DEF Thread, NoRequest

\* A request that reads changes its thread alone.
LEMMA ReadsTyped ==
  ASSUME SetTypeOK, NEW t \in Threads, NEW q \in Thread, Reads(t, q)
  PROVE  SetTypeOK'
  BY DEF SetTypeOK, Reads

\* A commit ends its request.
LEMMA DoneTyped ==
  ASSUME SetTypeOK, NEW t \in Threads, Done(t)
  PROVE  thread' \in [Threads -> Thread] /\ overlapped' \in BOOLEAN
<1>1. NoRequest \in Thread
  BY DEF Thread
<1> QED
  BY <1>1 DEF SetTypeOK, Done

LEMMA RequestsTyped ==
  ASSUME SetTypeOK, NEW t \in Threads,
         \/ \E body \in PolicyPatches : update_account_policy(t, body)
         \/ \E r \in RouteIds :
              \/ \E body \in NewRoutes : create_route(t, r, body)
              \/ \E body \in RoutePatches : update_route(t, r, body)
              \/ delete_route(t, r)
         \/ \E s \in Sources : delete_source(t, s)
         \/ \E decision \in {"ignore", "approve"} : resolve_review(t, decision)
  PROVE  SetTypeOK'
<1>1. ASSUME NEW body \in PolicyPatches, update_account_policy(t, body) PROVE SetTypeOK'
  <2> DEFINE p == Patched(policy, body)
             new == Reanchored(p, body)
             q == [at |-> "policy", seen |-> policy, new |-> new]
  <2>1. policy \in CopyAccountPolicy /\ p \in CopyAccountPolicy
    BY PatchTyped DEF SetTypeOK
  <2> HIDE DEF p
  <2>2. new \in CopyAccountPolicy
    BY <2>1 DEF Reanchored, CopyAccountPolicy
  <2> HIDE DEF new
  <2>3. q \in Thread
    BY <2>1, <2>2 DEF Thread
  <2>4. Reads(t, q)
    BY <1>1 DEF update_account_policy, new, p
  <2> QED
    BY <2>3, <2>4, ReadsTyped
<1>2. ASSUME NEW r \in RouteIds, NEW body \in NewRoutes, create_route(t, r, body) PROVE SetTypeOK'
  <2> DEFINE new == [body EXCEPT !.confirmed = body.minimum \in UNSAFE_MINIMUM_FIELDS]
             q == [at |-> "create", id |-> r, new |-> new]
  <2>1. body \in CopyRoute
    BY BodiesAssumption, Zenon
  <2>2. (body.minimum \in UNSAFE_MINIMUM_FIELDS) \in BOOLEAN
    OBVIOUS
  <2>3. new \in CopyRoute
    BY <2>1, <2>2 DEF CopyRoute
  <2> HIDE DEF new
  <2>4. q \in Thread
    BY <2>3 DEF Thread
  <2>5. Reads(t, q)
    BY <1>2 DEF create_route, new
  <2> QED
    BY <2>4, <2>5, ReadsTyped
<1>3. ASSUME NEW r \in RouteIds, NEW body \in RoutePatches, update_route(t, r, body) PROVE SetTypeOK'
  <2> DEFINE old == route[r]
             p == Patched(old, body)
             new == [p EXCEPT !.confirmed = Confirmed(old, p, body)]
             q == [at |-> "route", id |-> r, seen |-> old, stamps |-> Stamps(p, body), new |-> new]
  <2>1. old \in CopyRoute /\ p \in CopyRoute
    BY <1>3, PatchTyped DEF SetTypeOK, update_route
  <2>2. Reads(t, q)
    BY <1>3 DEF update_route
  <2>3. old.confirmed \in BOOLEAN
    BY <2>1 DEF CopyRoute
  <2> HIDE DEF p, old
  <2>4. Stamps(p, body) \in BOOLEAN
    BY Zenon DEF Stamps
  <2>5. Confirmed(old, p, body) \in BOOLEAN
    BY Zenon DEF Confirmed
  <2>6. new \in CopyRoute
    BY <2>1, <2>5 DEF CopyRoute
  <2> HIDE DEF new
  <2>7. q \in Thread
    BY <2>1, <2>4, <2>6 DEF Thread
  <2> QED
    BY <2>2, <2>7, ReadsTyped
<1>4. ASSUME NEW r \in RouteIds, delete_route(t, r) PROVE SetTypeOK'
  <2>1. [at |-> "deleteRoute", id |-> r] \in Thread
    BY DEF Thread
  <2> QED
    BY <1>4, <2>1, ReadsTyped DEF delete_route
<1>5. ASSUME NEW s \in Sources, delete_source(t, s) PROVE SetTypeOK'
  <2>1. [at |-> "deleteSource", id |-> s] \in Thread
    BY DEF Thread
  <2> QED
    BY <1>5, <2>1, ReadsTyped DEF delete_source
<1>6. ASSUME NEW decision \in {"ignore", "approve"}, resolve_review(t, decision) PROVE SetTypeOK'
  <2>1. [at |-> decision] \in Thread
    BY DEF Thread
  <2> QED
    BY <1>6, <2>1, ReadsTyped DEF resolve_review
<1> QED
  BY <1>1, <1>2, <1>3, <1>4, <1>5, <1>6

LEMMA CommitsTyped ==
  ASSUME SetTypeOK, NEW t \in Threads,
         \/ CommitPolicy(t) \/ CommitCreate(t) \/ CommitRoute(t) \/ CommitDeleteRoute(t)
         \/ CommitDeleteSource(t) \/ CommitReview(t)
  PROVE  SetTypeOK'
<1> DEFINE q == thread[t]
<1>1. q \in Thread
  BY DEF SetTypeOK
<1>2. CASE CommitPolicy(t)
  <2> DEFINE p == Flush(policy, q.seen, q.new)
  <2>1. policy' \in {p, policy} /\ UNCHANGED <<route, source, review, reviewSent>> /\ q.at = "policy" /\ Done(t)
    BY <1>2 DEF CommitPolicy
  <2>2. p \in CopyAccountPolicy
    BY <1>1, <2>1, CarriedTyped, FlushTyped DEF SetTypeOK
  <2> HIDE DEF p
  <2> QED
    BY <2>1, <2>2, DoneTyped DEF SetTypeOK
<1>3. CASE CommitCreate(t)
  <2>1. /\ route' \in {[route EXCEPT ![q.id] = q.new], route} /\ q.at = "create" /\ Done(t)
        /\ UNCHANGED <<policy, source, review, reviewSent>>
    BY <1>3 DEF CommitCreate
  <2>2. q.new \in CopyRoute
    BY <1>1, <2>1, CarriedTyped
  <2> QED
    BY <2>1, <2>2, DoneTyped DEF SetTypeOK
<1>4. CASE CommitRoute(t)
  <2> DEFINE row == Flush(route[q.id], q.seen, q.new)
             done == [row EXCEPT !.confirmed = @ \/ q.stamps]
  <2>1. /\ route' = IF route[q.id] = NoRoute THEN route ELSE [route EXCEPT ![q.id] = done]
        /\ q.at = "route" /\ Done(t) /\ UNCHANGED <<policy, source, review, reviewSent>>
    BY <1>4 DEF CommitRoute
  <2>2. q.id \in RouteIds /\ q.new \in CopyRoute
    BY <1>1, <2>1, CarriedTyped
  <2>3. ASSUME route[q.id] # NoRoute PROVE done \in CopyRoute
    <3>1. row \in CopyRoute
      BY <2>2, <2>3, FlushTyped DEF SetTypeOK
    <3> HIDE DEF row
    <3>2. (row.confirmed \/ q.stamps) \in BOOLEAN
      BY Zenon
    <3> QED
      BY <3>1, <3>2 DEF CopyRoute
  <2> HIDE DEF done
  <2>4. route' \in [RouteIds -> CopyRoute \cup {NoRoute}]
    BY <2>1, <2>3 DEF SetTypeOK
  <2> QED
    BY <2>1, <2>4, DoneTyped DEF SetTypeOK
<1>5. CASE CommitDeleteRoute(t)
  BY <1>5, DoneTyped DEF SetTypeOK, CommitDeleteRoute
<1>6. CASE CommitDeleteSource(t)
  <2>1. /\ source' = [source EXCEPT ![q.id] = "absent"] /\ Done(t)
        /\ DOMAIN route' = RouteIds /\ route' = [r \in RouteIds |-> route'[r]]
        /\ \A r \in RouteIds : route'[r] \in {NoRoute, route[r]}
        /\ UNCHANGED <<policy, review, reviewSent>>
    BY <1>6 DEF CommitDeleteSource
  <2>2. route' \in [RouteIds -> CopyRoute \cup {NoRoute}]
    BY <2>1 DEF SetTypeOK
  <2> QED
    BY <2>1, <2>2, DoneTyped DEF SetTypeOK
<1>7. CASE CommitReview(t)
  BY <1>7, DoneTyped DEF SetTypeOK, CommitReview
<1> QED
  BY <1>2, <1>3, <1>4, <1>5, <1>6, <1>7

LEMMA SettingsStayTyped == SetTypeOK /\ [SetNext]_setVars => SetTypeOK'
<1> SUFFICES ASSUME SetTypeOK, [SetNext]_setVars PROVE SetTypeOK'
  OBVIOUS
<1>1. ASSUME NEW t \in Threads, PublishReview(t) \/ ThreadDies(t) PROVE SetTypeOK'
  <2>1. NoRequest \in Thread /\ [at |-> "approved"] \in Thread
    BY DEF Thread
  <2> QED
    BY <1>1, <2>1 DEF SetTypeOK, PublishReview, ThreadDies
<1>2. ASSUME NEW s \in Sources, create_source(s) \/ update_source_pause(s) PROVE SetTypeOK'
  BY <1>2 DEF SetTypeOK, create_source, update_source_pause
<1>3. ASSUME NEW r \in RouteIds, RouteStartsOrStops(r) PROVE SetTypeOK'
  <2>1. route[r] \in CopyRoute
    BY <1>3 DEF SetTypeOK, RouteStartsOrStops
  <2>2. [route[r] EXCEPT !.running = ~@] \in CopyRoute
    BY <2>1 DEF CopyRoute
  <2> QED
    BY <1>3, <2>2 DEF SetTypeOK, RouteStartsOrStops
<1>4. CASE AnchorEquity
  <2>1. [policy EXCEPT !.anchored = TRUE, !.peak = TRUE] \in CopyAccountPolicy
    BY DEF SetTypeOK, CopyAccountPolicy
  <2> QED
    BY <1>4, <2>1 DEF SetTypeOK, AnchorEquity
<1>5. CASE UNCHANGED setVars
  BY <1>5 DEF SetTypeOK, setVars
<1>6. CASE ConfigNext
  BY <1>1, <1>2, <1>3, <1>4, <1>6, RequestsTyped, CommitsTyped DEF ConfigNext
<1>7. CASE ReviewNext
  BY <1>1, <1>7, RequestsTyped, CommitsTyped DEF ReviewNext
<1> QED
  BY <1>5, <1>6, <1>7 DEF SetNext

\* The rows of the settings keep their columns and their types, whatever parts
\* of them patches set and commits write (update_account_policy, update_route).
THEOREM SetTypeCorrect == SetSpec => []SetTypeOK
<1>1. SetInit => SetTypeOK
  <2> SUFFICES ASSUME SetInit PROVE SetTypeOK
    OBVIOUS
  <2>1. Max(Lots) \in Lots
    <3>1. PICK most \in Lots : \A lot \in Lots : lot <= most
      BY CopySettingsAssumption
    <3>2. Lots \subseteq 0..most /\ Lots # {} /\ most \in Nat
      BY <3>1, CopySettingsAssumption
    <3> QED
      BY <3>2, MaxOfBounded
  <2>2. policy \in CopyAccountPolicy
    BY <2>1 DEF SetInit, CopyAccountPolicy
  <2>3. NoRequest \in Thread
    BY DEF Thread
  <2> QED
    BY <2>2, <2>3 DEF SetInit, SetTypeOK
<1> QED
  BY <1>1, SettingsStayTyped, PTL DEF SetSpec

-----------------------------------------------------------------------------
(* Agreement.                                                              *)

PolicyFields == {"maxLot", "maxLotPerTrade", "startHour", "endHour", "dailyLoss", "anchored",
                 "drawdown", "peak", "paused"}

RouteFields == {"source", "lot", "takeProfit", "distribution", "minimum", "confirmed", "running"}

PolicyShaped(p) == DOMAIN p = PolicyFields /\ p.maxLot \in Lots /\ p.maxLotPerTrade \in Lots

RouteShaped(r) == DOMAIN r = RouteFields /\ r.lot \in Lots

\* The rows and what the requests carry have their columns.
SettingsShaped ==
    /\ DOMAIN thread = Threads /\ DOMAIN route = RouteIds
    /\ PolicyShaped(policy)
    /\ \A r \in Existing : RouteShaped(route[r])
    /\ \A t \in Threads :
         /\ thread[t].at = "policy" =>
              PolicyShaped(thread[t].new) /\ DOMAIN thread[t].seen = PolicyFields
         /\ thread[t].at \in {"create", "route"} =>
              RouteShaped(thread[t].new) /\ thread[t].id \in RouteIds
         /\ thread[t].at = "route" => DOMAIN thread[t].seen = RouteFields

\* A route that keeps the rules.
RouteSound(r) ==
    /\ WithinCaps(r)
    /\ r.distribution = "split_total" => r.takeProfit = "all"
    /\ r.minimum \in UNSAFE_MINIMUM_FIELDS => r.confirmed

\* What a request read still stands, and what it will write keeps the rules.
PolicyRequestStands(q) ==
    /\ q.seen.maxLot = policy.maxLot /\ q.seen.maxLotPerTrade = policy.maxLotPerTrade
    /\ \A r \in Existing : route[r].lot <= q.new.maxLot /\ route[r].lot <= q.new.maxLotPerTrade

RouteRequestStands(q) ==
    /\ RouteSound(q.new)
    /\ q.id \in Existing =>
         \A f \in RouteFields \ {"running"} : q.seen[f] = route[q.id][f]

\* As long as no request committed beside another one.
SettingsAgree ==
    /\ \A r \in Existing : RouteSound(route[r])
    /\ \A t \in Threads :
         /\ thread[t].at = "policy" => PolicyRequestStands(thread[t])
         /\ thread[t].at = "create" => RouteSound(thread[t].new)
         /\ thread[t].at = "route" => RouteRequestStands(thread[t])

\* An approved review was published before its row was committed.
ReviewsSent ==
    /\ review = "approved" => reviewSent
    /\ \A t \in Threads : thread[t].at = "approved" => reviewSent

SetIInv == SettingsShaped /\ (overlapped \/ SettingsAgree) /\ ReviewsSent

-----------------------------------------------------------------------------
\* max_fixed_lot_for_connection is the largest lot of a route.
LEMMA LargestLot ==
  ASSUME SettingsShaped
  PROVE  /\ max_fixed_lot_for_connection \in Nat
         /\ \A r \in Existing : route[r].lot <= max_fixed_lot_for_connection
<1>1. PICK most \in Lots : \A lot \in Lots : lot <= most
  BY CopySettingsAssumption
<1> DEFINE S == {0} \cup {route[r].lot : r \in Existing}
<1>2. most \in Nat /\ \A lot \in Lots : lot \in 0..most
  BY <1>1, CopySettingsAssumption
<1>3. \A r \in Existing : route[r].lot \in 0..most
  BY <1>2 DEF SettingsShaped, RouteShaped
<1>4. S \subseteq 0..most /\ S # {}
  BY <1>2, <1>3
<1>5. Max(S) \in S /\ \A y \in S : y <= Max(S)
  BY <1>2, <1>4, MaxOfBounded
<1>6. Max(S) \in Nat
  BY <1>2, <1>4, <1>5
<1> QED
  BY <1>5, <1>6 DEF max_fixed_lot_for_connection

\* What a commit leaves in each column.
LEMMA FlushColumns ==
  ASSUME NEW row, NEW seen, NEW new
  PROVE  /\ DOMAIN Flush(row, seen, new) = DOMAIN new
         /\ \A f \in DOMAIN new : Flush(row, seen, new)[f] \in {new[f], row[f]}
         /\ \A f \in DOMAIN new : seen[f] = row[f] => Flush(row, seen, new)[f] = new[f]
  BY DEF Flush

\* Settings start with one policy and no route.
LEMMA SetInitIInv == SetInit => SetIInv
<1> SUFFICES ASSUME SetInit PROVE SetIInv
  OBVIOUS
<1>1. Max(Lots) \in Lots
  <2>1. PICK most \in Lots : \A lot \in Lots : lot <= most
    BY CopySettingsAssumption
  <2>2. Lots \subseteq 0..most /\ Lots # {} /\ most \in Nat
    BY <2>1, CopySettingsAssumption
  <2> QED
    BY <2>2, MaxOfBounded
<1>2. Existing = {} /\ PolicyShaped(policy)
  BY <1>1 DEF SetInit, Existing, PolicyShaped, PolicyFields
<1>3. \A t \in Threads : thread[t].at = "free"
  BY DEF SetInit, NoRequest
<1> QED
  BY <1>2, <1>3 DEF SetInit, SetIInv, SettingsShaped, SettingsAgree, ReviewsSent

-----------------------------------------------------------------------------
\* A request that was just read.
RequestSound(q) ==
    /\ q.at = "policy" => PolicyShaped(q.new) /\ DOMAIN q.seen = PolicyFields
    /\ q.at \in {"create", "route"} => RouteShaped(q.new) /\ q.id \in RouteIds
    /\ q.at = "route" => DOMAIN q.seen = RouteFields
    /\ SettingsAgree =>
         /\ q.at = "policy" => PolicyRequestStands(q)
         /\ q.at = "create" => RouteSound(q.new)
         /\ q.at = "route" => RouteRequestStands(q)
    /\ q.at = "approved" => reviewSent

\* A request that reads starts from the rows as they are.
LEMMA ReadsSafe ==
  ASSUME SetIInv, NEW t \in Threads, NEW q, RequestSound(q), thread' = [thread EXCEPT ![t] = q],
         UNCHANGED <<policy, route, review, overlapped>>, reviewSent => reviewSent'
  PROVE  SetIInv'
<1>1. /\ DOMAIN thread' = Threads /\ thread'[t] = q
      /\ \A u \in Threads \ {t} : thread'[u] = thread[u]
  BY DEF SetIInv, SettingsShaped
<1>2. Existing' = Existing /\ \A r : RouteSound(r)' = RouteSound(r)
  BY DEF Existing, RouteSound, WithinCaps
<1>3. SettingsShaped'
  BY <1>1, <1>2 DEF SetIInv, SettingsShaped, RequestSound
<1>4. SettingsAgree => SettingsAgree'
  BY <1>1, <1>2 DEF SettingsAgree, RequestSound, PolicyRequestStands, RouteRequestStands
<1>5. ReviewsSent'
  BY <1>1 DEF SetIInv, ReviewsSent, RequestSound
<1> QED
  BY <1>3, <1>4, <1>5 DEF SetIInv

\* update_policy writes a policy that every route it read agrees with.
LEMMA PolicyRequested ==
  ASSUME SetIInv, NEW t \in Threads, NEW body \in PolicyPatches, update_account_policy(t, body)
  PROVE  SetIInv'
<1> DEFINE p == Patched(policy, body)
           new == Reanchored(p, body)
           q == [at |-> "policy", seen |-> policy, new |-> new]
<1>1. CapsAllow(p, body) /\ Reads(t, q)
  BY DEF update_account_policy
<1>2. DOMAIN p = PolicyFields /\ \A f \in PolicyFields : p[f] = IF f \in DOMAIN body THEN body[f] ELSE policy[f]
  BY DEF Patched, SetIInv, SettingsShaped, PolicyShaped
<1>3. p.maxLot \in Lots /\ p.maxLotPerTrade \in Lots
  <2>1. \A f \in {"maxLot", "maxLotPerTrade"} : f \in PolicyFields
    BY DEF PolicyFields
  <2>2. \A f \in {"maxLot", "maxLotPerTrade"} : p[f] \in Lots
    BY <1>2, <2>1, BodyLots DEF SetIInv, SettingsShaped, PolicyShaped
  <2> QED
    BY <2>2
<1>4. DOMAIN new = PolicyFields /\ new.maxLot = p.maxLot /\ new.maxLotPerTrade = p.maxLotPerTrade
  BY <1>2 DEF Reanchored, PolicyFields
<1>5. \A r \in Existing : SettingsAgree => route[r].lot <= p.maxLot /\ route[r].lot <= p.maxLotPerTrade
  <2> SUFFICES ASSUME NEW r \in Existing, SettingsAgree
               PROVE  route[r].lot <= p.maxLot /\ route[r].lot <= p.maxLotPerTrade
    OBVIOUS
  <2>1. /\ max_fixed_lot_for_connection \in Nat /\ route[r].lot <= max_fixed_lot_for_connection
        /\ route[r].lot \in Nat /\ p.maxLot \in Nat /\ p.maxLotPerTrade \in Nat
    BY <1>3, LargestLot, CopySettingsAssumption DEF SetIInv, SettingsShaped, RouteShaped
  <2>2. route[r].lot <= policy.maxLot /\ route[r].lot <= policy.maxLotPerTrade
    BY DEF SettingsAgree, RouteSound, WithinCaps
  <2>3. p.maxLot = policy.maxLot \/ p.maxLot >= max_fixed_lot_for_connection
    BY <1>1, <1>2 DEF CapsAllow, PolicyFields
  <2>4. p.maxLotPerTrade = policy.maxLotPerTrade \/ p.maxLotPerTrade >= max_fixed_lot_for_connection
    BY <1>1, <1>2 DEF CapsAllow, PolicyFields
  <2> QED
    BY <2>1, <2>2, <2>3, <2>4
<1> HIDE DEF p, new
<1>6. RequestSound(q)
  BY <1>3, <1>4, <1>5 DEF RequestSound, PolicyShaped, PolicyRequestStands, SetIInv, SettingsShaped
<1> QED
  BY <1>1, <1>6, ReadsSafe DEF Reads

\* create_route writes a route within the policy it read.
LEMMA CreateRequested ==
  ASSUME SetIInv, NEW t \in Threads, NEW r \in RouteIds, NEW body \in NewRoutes, create_route(t, r, body)
  PROVE  SetIInv'
<1> DEFINE new == [body EXCEPT !.confirmed = body.minimum \in UNSAFE_MINIMUM_FIELDS]
           q == [at |-> "create", id |-> r, new |-> new]
<1>1. ValidRoute(body, body.confirmed) /\ WithinCaps(body) /\ Reads(t, q)
  BY DEF create_route
<1>2. DOMAIN body = RouteFields /\ body.lot \in Lots
  BY BodiesAssumption DEF CopyRoute, RouteFields
<1>3. RouteShaped(new) /\ RouteSound(new)
  BY <1>1, <1>2 DEF RouteShaped, RouteSound, RouteFields, WithinCaps, ValidRoute
<1> HIDE DEF new
<1>4. RequestSound(q)
  BY <1>3 DEF RequestSound
<1> QED
  BY <1>1, <1>4, ReadsSafe DEF Reads

\* update_route writes a route within the policy it read.
LEMMA UpdateRequested ==
  ASSUME SetIInv, NEW t \in Threads, NEW r \in RouteIds, NEW body \in RoutePatches, update_route(t, r, body)
  PROVE  SetIInv'
<1> DEFINE old == route[r]
           p == Patched(old, body)
           new == [p EXCEPT !.confirmed = Confirmed(old, p, body)]
           q == [at |-> "route", id |-> r, seen |-> old, stamps |-> Stamps(p, body), new |-> new]
<1>1. /\ r \in Existing /\ ValidRoute(p, p.confirmed) /\ WithinCaps(p) /\ Reads(t, q)
      /\ ("minimum" \in DOMAIN body /\ body.minimum \in UNSAFE_MINIMUM_FIELDS) =>
            "confirmed" \in DOMAIN body /\ body.confirmed
  BY DEF update_route, Existing
<1>2. RouteShaped(old)
  BY <1>1 DEF SetIInv, SettingsShaped
<1>3. DOMAIN p = RouteFields /\ \A f \in RouteFields : p[f] = IF f \in DOMAIN body THEN body[f] ELSE old[f]
  BY <1>2 DEF Patched, RouteShaped
<1>4. p.lot \in Lots
  <2>1. "lot" \in RouteFields
    BY DEF RouteFields
  <2> QED
    BY <1>2, <1>3, <2>1, BodyLots DEF RouteShaped
<1>5. /\ DOMAIN new = RouteFields /\ new.confirmed = Confirmed(old, p, body) /\ new.lot = p.lot
      /\ new.distribution = p.distribution /\ new.takeProfit = p.takeProfit /\ new.minimum = p.minimum
  BY <1>3 DEF RouteFields
<1>6. p.minimum = IF "minimum" \in DOMAIN body THEN body.minimum ELSE old.minimum
  BY <1>3 DEF RouteFields
<1>7. SettingsAgree /\ p.minimum \in UNSAFE_MINIMUM_FIELDS => Confirmed(old, p, body)
  <2>1. SettingsAgree => (old.minimum \in UNSAFE_MINIMUM_FIELDS => old.confirmed)
    BY <1>1 DEF SettingsAgree, RouteSound
  <2> QED
    BY <1>1, <1>6, <2>1 DEF Confirmed, Stamps
<1>8. SettingsAgree => RouteSound(new)
  BY <1>1, <1>5, <1>7 DEF RouteSound, WithinCaps, ValidRoute
<1>9. RouteShaped(new)
  BY <1>4, <1>5 DEF RouteShaped
<1> HIDE DEF new, p
<1>10. RequestSound(q)
  BY <1>1, <1>2, <1>8, <1>9 DEF RequestSound, RouteRequestStands, RouteShaped
<1> QED
  BY <1>1, <1>10, ReadsSafe DEF Reads

-----------------------------------------------------------------------------
(* Commits.                                                                *)

\* A commit beside another request ends the agreement; otherwise no request is
\* left, and only the rows have to keep the rules.
LEMMA CommitSafe ==
  ASSUME SetIInv, NEW t \in Threads, Done(t),
         DOMAIN route' = RouteIds, PolicyShaped(policy'), \A r \in Existing' : RouteShaped(route'[r]),
         SettingsAgree => \A r \in Existing' : RouteSound(route[r])',
         reviewSent => reviewSent', review' = "approved" => reviewSent'
  PROVE  SetIInv'
<1>1. /\ DOMAIN thread' = Threads /\ thread'[t] = NoRequest
      /\ \A u \in Threads \ {t} : thread'[u] = thread[u]
  BY DEF SetIInv, SettingsShaped, Done
<1>2. NoRequest.at = "free"
  BY DEF NoRequest
<1>3. SettingsShaped'
  BY <1>1, <1>2 DEF SetIInv, SettingsShaped
<1>4. overlapped' \/ SettingsAgree'
  <2>1. CASE overlapped \/ \E u \in Threads \ {t} : thread[u] # NoRequest
    BY <2>1 DEF Done
  <2>2. CASE ~overlapped /\ \A u \in Threads \ {t} : thread[u] = NoRequest
    <3>1. \A u \in Threads : thread'[u].at = "free"
      BY <1>1, <1>2, <2>2
    <3> QED
      BY <3>1, <2>2 DEF SetIInv, SettingsAgree
  <2> QED
    BY <2>1, <2>2
<1>5. ReviewsSent'
  BY <1>1, <1>2 DEF SetIInv, ReviewsSent
<1> QED
  BY <1>3, <1>4, <1>5 DEF SetIInv

\* The commit of update_policy.
LEMMA CommitPolicySafe ==
  ASSUME SetIInv, NEW t \in Threads, CommitPolicy(t)
  PROVE  SetIInv'
<1> DEFINE q == thread[t]
           p == Flush(policy, q.seen, q.new)
<1>1. q.at = "policy" /\ policy' \in {p, policy} /\ UNCHANGED <<route, review, reviewSent>> /\ Done(t)
  BY DEF CommitPolicy
<1>2. PolicyShaped(q.new) /\ PolicyShaped(policy)
  BY <1>1 DEF SetIInv, SettingsShaped
<1>3. /\ DOMAIN p = PolicyFields /\ p.maxLot \in {q.new.maxLot, policy.maxLot}
      /\ p.maxLotPerTrade \in {q.new.maxLotPerTrade, policy.maxLotPerTrade}
      /\ q.seen.maxLot = policy.maxLot => p.maxLot = q.new.maxLot
      /\ q.seen.maxLotPerTrade = policy.maxLotPerTrade => p.maxLotPerTrade = q.new.maxLotPerTrade
  <2>1. "maxLot" \in DOMAIN q.new /\ "maxLotPerTrade" \in DOMAIN q.new /\ DOMAIN q.new = PolicyFields
    BY <1>2 DEF PolicyShaped, PolicyFields
  <2> QED
    BY <2>1, FlushColumns
<1>4. PolicyShaped(policy')
  BY <1>1, <1>2, <1>3 DEF PolicyShaped
<1>5. Existing' = Existing
  BY <1>1 DEF Existing
<1>6. SettingsAgree => \A r \in Existing' : RouteSound(route[r])'
  BY <1>1, <1>3, <1>5 DEF SettingsAgree, RouteSound, PolicyRequestStands, WithinCaps
<1> QED
  BY <1>1, <1>4, <1>5, <1>6, CommitSafe DEF SetIInv, SettingsShaped, ReviewsSent

\* The commit of create_route.
LEMMA CommitCreateSafe ==
  ASSUME SetIInv, NEW t \in Threads, CommitCreate(t)
  PROVE  SetIInv'
<1> DEFINE q == thread[t]
<1>1. /\ q.at = "create" /\ UNCHANGED <<policy, review, reviewSent>> /\ Done(t)
      /\ route' \in {[route EXCEPT ![q.id] = q.new], route}
  BY DEF CommitCreate
<1>2. RouteShaped(q.new) /\ q.id \in RouteIds /\ DOMAIN route = RouteIds
  BY <1>1 DEF SetIInv, SettingsShaped
<1>3. DOMAIN route' = RouteIds /\ \A r \in RouteIds : route'[r] = route[r] \/ (r = q.id /\ route'[r] = q.new)
  BY <1>1, <1>2
<1>4. \A r \in Existing' : RouteShaped(route'[r])
  BY <1>2, <1>3 DEF SetIInv, SettingsShaped, Existing
<1>5. SettingsAgree => \A r \in Existing' : RouteSound(route[r])'
  BY <1>1, <1>3 DEF SettingsAgree, Existing, RouteSound, WithinCaps
<1> QED
  BY <1>1, <1>3, <1>4, <1>5, CommitSafe DEF SetIInv, SettingsShaped, ReviewsSent

\* The commit of update_route.
LEMMA CommitRouteSafe ==
  ASSUME SetIInv, NEW t \in Threads, CommitRoute(t)
  PROVE  SetIInv'
<1> DEFINE q == thread[t]
           row == Flush(route[q.id], q.seen, q.new)
           done == [row EXCEPT !.confirmed = @ \/ q.stamps]
<1>1. /\ q.at = "route" /\ UNCHANGED <<policy, review, reviewSent>> /\ Done(t)
      /\ route' = IF route[q.id] = NoRoute THEN route ELSE [route EXCEPT ![q.id] = done]
  BY DEF CommitRoute
<1>2. RouteShaped(q.new) /\ q.id \in RouteIds /\ DOMAIN route = RouteIds
  BY <1>1 DEF SetIInv, SettingsShaped
<1>3. CASE route[q.id] = NoRoute
  <2>1. route' = route /\ Existing' = Existing
    BY <1>1, <1>3 DEF Existing
  <2>2. SettingsAgree => \A r \in Existing' : RouteSound(route[r])'
    BY <1>1, <2>1 DEF SettingsAgree, RouteSound, WithinCaps
  <2> QED
    BY <1>1, <2>1, <2>2, CommitSafe DEF SetIInv, SettingsShaped, ReviewsSent
<1>4. CASE route[q.id] # NoRoute
  <2>1. q.id \in Existing /\ RouteShaped(route[q.id])
    BY <1>2, <1>4 DEF SetIInv, SettingsShaped, Existing
  <2>2. /\ DOMAIN row = RouteFields /\ \A f \in RouteFields : row[f] \in {q.new[f], route[q.id][f]}
        /\ \A f \in RouteFields : q.seen[f] = route[q.id][f] => row[f] = q.new[f]
    BY <1>2, FlushColumns DEF RouteShaped
  <2>3. /\ DOMAIN done = RouteFields /\ done.confirmed = (row.confirmed \/ q.stamps)
        /\ done.lot = row.lot /\ done.distribution = row.distribution
        /\ done.takeProfit = row.takeProfit /\ done.minimum = row.minimum
    BY <2>2 DEF RouteFields
  <2>4. row.lot \in Lots
    BY <1>2, <2>1, <2>2 DEF RouteShaped, RouteFields
  <2>5. RouteShaped(done)
    BY <2>3, <2>4 DEF RouteShaped
  <2>6. SettingsAgree => RouteSound(done)
    <3> SUFFICES ASSUME SettingsAgree PROVE RouteSound(done)
      OBVIOUS
    <3>1. RouteRequestStands(q)
      BY <1>1 DEF SettingsAgree
    <3>2. \A f \in RouteFields \ {"running"} : row[f] = q.new[f]
      BY <2>1, <2>2, <3>1 DEF RouteRequestStands
    <3>3. /\ row.confirmed = q.new.confirmed /\ row.lot = q.new.lot /\ row.minimum = q.new.minimum
          /\ row.distribution = q.new.distribution /\ row.takeProfit = q.new.takeProfit
      BY <3>2 DEF RouteFields
    <3>4. RouteSound(q.new)
      BY <3>1 DEF RouteRequestStands
    <3> HIDE DEF row, done
    <3> QED
      BY <2>3, <3>3, <3>4 DEF RouteSound, WithinCaps
  <2> HIDE DEF done
  <2>7. DOMAIN route' = RouteIds /\ \A r \in RouteIds : route'[r] = IF r = q.id THEN done ELSE route[r]
    BY <1>1, <1>2, <1>4
  <2>8. \A r \in Existing' : RouteShaped(route'[r])
    BY <2>5, <2>7 DEF SetIInv, SettingsShaped, Existing
  <2>9. SettingsAgree => \A r \in Existing' : RouteSound(route[r])'
    BY <1>1, <2>6, <2>7 DEF SettingsAgree, Existing, RouteSound, WithinCaps
  <2> QED
    BY <1>1, <2>7, <2>8, <2>9, CommitSafe DEF SetIInv, SettingsShaped, ReviewsSent
<1> QED
  BY <1>3, <1>4

\* The commit of a deletion.
LEMMA CommitDeletionSafe ==
  ASSUME SetIInv, NEW t \in Threads, CommitDeleteRoute(t) \/ CommitDeleteSource(t)
  PROVE  SetIInv'
<1>1. /\ UNCHANGED <<policy, review, reviewSent>> /\ Done(t) /\ DOMAIN route' = RouteIds
      /\ \A r \in RouteIds : route'[r] \in {NoRoute, route[r]}
  BY DEF CommitDeleteRoute, CommitDeleteSource, SetIInv, SettingsShaped
<1>2. \A r \in Existing' : RouteShaped(route'[r])
  BY <1>1 DEF SetIInv, SettingsShaped, Existing
<1>3. SettingsAgree => \A r \in Existing' : RouteSound(route[r])'
  BY <1>1 DEF SettingsAgree, Existing, RouteSound, WithinCaps
<1> QED
  BY <1>1, <1>2, <1>3, CommitSafe DEF SetIInv, SettingsShaped, ReviewsSent

\* Steps of no request: the day's references, a route that starts or stops.
LEMMA RowsMove ==
  ASSUME SetIInv, UNCHANGED <<thread, review, reviewSent, overlapped>>,
         PolicyShaped(policy'), policy'.maxLot = policy.maxLot,
         policy'.maxLotPerTrade = policy.maxLotPerTrade, DOMAIN route' = RouteIds,
         \A r \in RouteIds : \/ route'[r] = route[r]
                             \/ r \in Existing /\ \E b : route'[r] = [route[r] EXCEPT !.running = b]
  PROVE  SetIInv'
<1>1. \A r \in Existing' : r \in Existing /\ DOMAIN route'[r] = RouteFields
                           /\ \A f \in RouteFields \ {"running"} : route'[r][f] = route[r][f]
  BY DEF SetIInv, SettingsShaped, RouteShaped, Existing
<1>2. "lot" \in RouteFields \ {"running"} /\ "distribution" \in RouteFields \ {"running"}
      /\ "takeProfit" \in RouteFields \ {"running"} /\ "minimum" \in RouteFields \ {"running"}
      /\ "confirmed" \in RouteFields \ {"running"}
  BY DEF RouteFields
<1>3. \A r \in Existing' : /\ route'[r].lot = route[r].lot /\ route'[r].minimum = route[r].minimum
                           /\ route'[r].distribution = route[r].distribution
                           /\ route'[r].takeProfit = route[r].takeProfit
                           /\ route'[r].confirmed = route[r].confirmed
  BY <1>1, <1>2
<1>4. SettingsShaped'
  BY <1>1, <1>3 DEF SetIInv, SettingsShaped, RouteShaped
<1>5. \A r : RouteSound(r)' <=> RouteSound(r)
  BY DEF RouteSound, WithinCaps
<1>6. SettingsAgree => SettingsAgree'
  <2> SUFFICES ASSUME SettingsAgree PROVE SettingsAgree'
    OBVIOUS
  <2>1. \A r \in Existing' : RouteSound(route[r])'
    BY <1>1, <1>3 DEF SettingsAgree, RouteSound, WithinCaps
  <2>2. ASSUME NEW t \in Threads, thread[t].at = "policy"
        PROVE  PolicyRequestStands(thread[t])'
    BY <2>2, <1>1, <1>3 DEF SettingsAgree, PolicyRequestStands
  <2>3. ASSUME NEW t \in Threads, thread[t].at = "create"
        PROVE  RouteSound(thread[t].new)'
    BY <2>3 DEF SettingsAgree, RouteSound, WithinCaps
  <2>4. ASSUME NEW t \in Threads, thread[t].at = "route"
        PROVE  RouteRequestStands(thread[t])'
    <3>1. RouteSound(thread[t].new)'
      BY <2>4 DEF SettingsAgree, RouteRequestStands, RouteSound, WithinCaps
    <3> QED
      BY <2>4, <3>1, <1>1 DEF SettingsAgree, RouteRequestStands
  <2> QED
    BY <2>1, <2>2, <2>3, <2>4 DEF SettingsAgree
<1> QED
  BY <1>4, <1>6 DEF SetIInv, ReviewsSent

\* Every step of the settings keeps SetIInv.
LEMMA SetNextIInv == SetIInv /\ [SetNext]_setVars => SetIInv'
<1> SUFFICES ASSUME SetIInv, [SetNext]_setVars PROVE SetIInv'
  OBVIOUS
<1>1. ASSUME NEW t \in Threads, NEW q, q.at \notin {"policy", "create", "route", "approved"},
             thread' = [thread EXCEPT ![t] = q], UNCHANGED <<policy, route, review, overlapped>>,
             reviewSent => reviewSent'
      PROVE  SetIInv'
  <2>1. RequestSound(q)
    BY <1>1 DEF RequestSound
  <2> QED
    BY <1>1, <2>1, ReadsSafe
<1>2. ASSUME NEW t \in Threads, NEW r \in RouteIds, delete_route(t, r) PROVE SetIInv'
  BY <1>1, <1>2 DEF delete_route, Reads
<1>3. ASSUME NEW t \in Threads, NEW s \in Sources, delete_source(t, s) PROVE SetIInv'
  BY <1>1, <1>3 DEF delete_source, Reads
<1>4. ASSUME NEW t \in Threads, ThreadDies(t) PROVE SetIInv'
  BY <1>1, <1>4 DEF ThreadDies, NoRequest
<1>5. ASSUME NEW t \in Threads, NEW decision \in {"ignore", "approve"}, resolve_review(t, decision)
      PROVE  SetIInv'
  BY <1>1, <1>5 DEF resolve_review, Reads
<1>6. ASSUME NEW t \in Threads, PublishReview(t) PROVE SetIInv'
  <2> DEFINE q == [at |-> "approved"]
  <2>1. DOMAIN thread = Threads
    BY DEF SetIInv, SettingsShaped
  <2>2. /\ thread' = [thread EXCEPT ![t] = q] /\ reviewSent'
        /\ UNCHANGED <<policy, route, review, overlapped>>
    BY <1>6 DEF PublishReview
  <2>3. DOMAIN thread' = Threads /\ thread'[t].at = "approved"
        /\ \A u \in Threads \ {t} : thread'[u] = thread[u]
    BY <2>1, <2>2
  <2>4. Existing' = Existing /\ \A r : RouteSound(r)' <=> RouteSound(r)
    BY <2>2 DEF Existing, RouteSound, WithinCaps
  <2>5. SettingsShaped'
    BY <2>2, <2>3, <2>4 DEF SetIInv, SettingsShaped
  <2>6. SettingsAgree => SettingsAgree'
    BY <2>2, <2>3, <2>4 DEF SettingsAgree, PolicyRequestStands, RouteRequestStands
  <2> QED
    BY <2>2, <2>5, <2>6 DEF SetIInv, ReviewsSent
<1>7. ASSUME NEW t \in Threads, CommitReview(t) PROVE SetIInv'
  <2>1. /\ UNCHANGED <<policy, route, reviewSent>> /\ Done(t)
        /\ review' = "approved" => thread[t].at = "approved"
    BY <1>7 DEF CommitReview
  <2>2. Existing' = Existing /\ \A r \in Existing' : RouteShaped(route'[r])
    BY <2>1 DEF SetIInv, SettingsShaped, Existing
  <2>3. SettingsAgree => \A r \in Existing' : RouteSound(route[r])'
    BY <2>1, <2>2 DEF SettingsAgree, RouteSound, WithinCaps
  <2> QED
    BY <2>1, <2>2, <2>3, CommitSafe DEF SetIInv, SettingsShaped, ReviewsSent
<1>8. ASSUME NEW s \in Sources, create_source(s) \/ update_source_pause(s) PROVE SetIInv'
  BY <1>8, RowsMove DEF create_source, update_source_pause, SetIInv, SettingsShaped
<1>9. ASSUME NEW r \in RouteIds, RouteStartsOrStops(r) PROVE SetIInv'
  <2>1. /\ r \in Existing /\ route' = [route EXCEPT ![r].running = ~@]
        /\ UNCHANGED <<policy, review, reviewSent, thread, overlapped>>
    BY <1>9 DEF RouteStartsOrStops, Existing
  <2>2. DOMAIN route = RouteIds /\ PolicyShaped(policy)
    BY DEF SetIInv, SettingsShaped
  <2>3. /\ DOMAIN route' = RouteIds
        /\ \A x \in RouteIds : x # r => route'[x] = route[x]
        /\ route'[r] = [route[r] EXCEPT !.running = ~@]
    BY <2>1, <2>2
  <2> QED
    BY <2>1, <2>2, <2>3, RowsMove
<1>10. CASE AnchorEquity
  <2>1. PolicyShaped(policy) /\ DOMAIN route = RouteIds
    BY DEF SetIInv, SettingsShaped
  <2>2. /\ PolicyShaped(policy') /\ policy'.maxLot = policy.maxLot
        /\ policy'.maxLotPerTrade = policy.maxLotPerTrade
    BY <1>10, <2>1 DEF AnchorEquity, PolicyShaped, PolicyFields
  <2> QED
    BY <1>10, <2>1, <2>2, RowsMove DEF AnchorEquity
<1>11. CASE UNCHANGED setVars
  BY <1>11, RowsMove DEF setVars, SetIInv, SettingsShaped
<1>12. ASSUME ReviewNext PROVE SetIInv'
  BY <1>12, <1>4, <1>5, <1>6, <1>7 DEF ReviewNext
<1>13. ASSUME ConfigNext PROVE SetIInv'
  BY <1>13, <1>2, <1>3, <1>4, <1>8, <1>9, <1>10, PolicyRequested, CreateRequested, UpdateRequested,
     CommitPolicySafe, CommitCreateSafe, CommitRouteSafe, CommitDeletionSafe DEF ConfigNext
<1> QED
  BY <1>11, <1>12, <1>13 DEF SetNext

\* Unless two requests overlapped, no route exceeds the account's caps, splits
\* lots it does not use or trades on incomplete signals unconfirmed, and an
\* approved review was sent (update_account_policy, create_route, update_route
\* and resolve_review), for any lots, routes, requests and threads.
THEOREM SettingsAgreeWithoutOverlap == SetSpec => []SettingsAgreeUnlessOverlapped
<1>1. SetIInv => SettingsAgreeUnlessOverlapped
  BY DEF SetIInv, SettingsAgree, RouteSound, ReviewsSent, SettingsAgreeUnlessOverlapped
<1> QED
  BY <1>1, SetInitIInv, SetNextIInv, PTL DEF SetSpec

-----------------------------------------------------------------------------
(***************************************************************************)
(* The signal worker: what the keys of the meanings say of the intents.    *)
(***************************************************************************)
\* A fresh market entry of a covered route still has its key, so nothing
\* repeats it.
EntryHasKey ==
    \A i \in intents :
        Opening(i) /\ i.route \in Covered
                   => \/ TooOld(i.message)
                      \/ \E k \in meanings : /\ k.route = i.route /\ k.meaning = i.meaning
                                             /\ stream[k.by].message = i.message

SigKeys == SuppressedHasOriginal /\ EntersOnce /\ EntryHasKey

ConvFields == {"state", "root", "corr", "last", "context", "at"}
AsmFields == {"conv", "route", "state", "context", "refs", "opening", "generation"}
ContextFields == DOMAIN NoContext
Clock == MaxEvents + MaxCrashes

WorkShaped ==
    /\ stream \in [1..MaxEvents -> Events]
    /\ settled \subseteq 1..MaxEvents /\ crashes \in 0..MaxCrashes
    /\ handler.event # 0 => /\ handler.event \in DOMAIN stream
                            /\ stream[handler.event].type # "deleted"
                            /\ handler.conv \in 1..(Len(convs) + 1)

ConvsShaped ==
    /\ Len(convs) \in Nat /\ DOMAIN convs = 1..Len(convs)
    /\ \A c \in DOMAIN convs : /\ DOMAIN convs[c] = ConvFields
                               /\ DOMAIN convs[c].context = ContextFields
                               /\ convs[c].at \in 0..Clock

AsmsShaped == \A a \in asms : DOMAIN a = AsmFields /\ DOMAIN a.context = ContextFields

\* A route has one active generation in a conversation.
OneActive ==
    \A a, b \in asms : /\ a.conv = b.conv /\ a.route = b.route
                       /\ a.state \in ActiveStates /\ b.state \in ActiveStates
                       => a = b

\* What an opening's handler read of its conversation is still true of it,
\* unless the conversation expired meanwhile.
ReadIsCurrent ==
    /\ handler.event # 0 /\ handler.conv \in DOMAIN convs
    /\ convs[handler.conv].state = "active" /\ Submitted(handler.conv)
    => handler.submitted

SigIInv == WorkShaped /\ ConvsShaped /\ AsmsShaped /\ OneActive /\ ReadIsCurrent

LEMMA StaleEntryRejected ==
  ASSUME NEW s, NEW age, NEW p, s.action = "open_market", age > p.freshness
  PROVE  validate_signal(s, age, p) # "accepted"
BY DEF validate_signal

\* What the handler does for a route, as far as keys and intents go: it uses
\* the key of the merged meaning, and its intents are of that meaning.
PlannedIntent(r, merged, revision, t) ==
    [route |-> r, conv |-> Target, message |-> Event.message, revision |-> revision,
     meaning |-> merged, target |-> t, event |-> handler.event]

PlannedKey(r, merged) == [route |-> r, meaning |-> merged, by |-> handler.event]

HasOpening(r, S) ==
    \E i \in S : i.route = r /\ i.message = Event.message /\ i.meaning.action \in OPEN_ACTIONS

PlanSays(r, merged, revision) ==
    /\ \A k \in Plan(r).meanings : k = PlannedKey(r, merged)
    /\ \A i \in Plan(r).intents : \E t :
         /\ i = PlannedIntent(r, merged, revision, t)
         /\ merged.action \in OPENING_ACTIONS => t = 0
    /\ Plan(r).intents # {} =>
         /\ Unseen(r, merged)
         /\ r \in Covered => PlannedKey(r, merged) \in Plan(r).meanings
         /\ merged.action = "open_market" => ~handler.late
    /\ Plan(r).meanings # {} /\ merged.action \in OPEN_ACTIONS
       => HasOpening(r, intents \cup Plan(r).intents)

LEMMA PlanOfRoute ==
  ASSUME NEW r
  PROVE  \E merged, revision : PlanSays(r, merged, revision)
<1> DEFINE g == Generation(r)
           merged == merge_generation_context(g.context, Update, g.opening)
           revision == 1 + Max({0} \cup {ref[2] : ref \in {x \in g.refs : x[1] = Event.message}})
           accepted == validate_signal(merged, Age, Policy(r)) = "accepted"
           within == accepted /\ WithinLimits(r, merged)
           unseen == within /\ Unseen(r, merged)
           targets == Targets(r, merged)
           intent(t) == PlannedIntent(r, merged, revision, t)
           key == PlannedKey(r, merged)
<1>1. /\ Plan(r).meanings = IF unseen /\ r \notin Unkeyed THEN {key} ELSE {}
      /\ Plan(r).intents = {i \in {intent(t) : t \in targets} :
                              unseen /\ \A j \in intents : Key(i) # Key(j)}
  BY Zenon DEF Plan, PlannedIntent, PlannedKey
<1>2. merged.action \in OPENING_ACTIONS => targets = {0}
  BY DEF Targets
<1>3. accepted /\ merged.action = "open_market" => ~handler.late
  <2>1. Policy(r).freshness = 0
    BY DEF Policy
  <2>2. handler.late => Age > Policy(r).freshness
    BY <2>1 DEF Age
  <2> HIDE DEF merged
  <2> QED
    BY <2>2, StaleEntryRejected
<1>4. ASSUME unseen, merged.action \in OPEN_ACTIONS
      PROVE  HasOpening(r, intents \cup Plan(r).intents)
  <2>1. 0 \in targets
    BY <1>2, <1>4 DEF OPENING_ACTIONS
  <2> HIDE DEF merged, targets, unseen, revision
  <2>2. CASE \A j \in intents : Key(intent(0)) # Key(j)
    <3> HIDE DEF intent
    <3>1. intent(0) \in Plan(r).intents
      BY <1>1, <1>4, <2>1, <2>2
    <3>2. intent(0).route = r /\ intent(0).message = Event.message /\ intent(0).meaning = merged
      BY DEF intent, PlannedIntent
    <3> QED
      BY <3>1, <3>2, <1>4 DEF HasOpening
  <2>3. CASE \E j \in intents : Key(intent(0)) = Key(j)
    BY <2>3, <1>4 DEF Key, HasOpening, PlannedIntent
  <2> QED
    BY <2>2, <2>3
<1> HIDE DEF merged, revision, targets, accepted, key, intent
<1>5. \A k \in Plan(r).meanings : k = key
  BY <1>1
<1>6. \A i \in Plan(r).intents : \E t : i = intent(t) /\ (merged.action \in OPENING_ACTIONS => t = 0)
  BY <1>1, <1>2
<1>7. Plan(r).intents # {} =>
        /\ Unseen(r, merged)
        /\ r \in Covered => key \in Plan(r).meanings
        /\ merged.action = "open_market" => ~handler.late
  BY <1>1, <1>3, SignalAssumption
<1>8. Plan(r).meanings # {} /\ merged.action \in OPEN_ACTIONS
       => HasOpening(r, intents \cup Plan(r).intents)
  BY <1>1, <1>4
<1>9. PlanSays(r, merged, revision)
  BY <1>5, <1>6, <1>7, <1>8, Zenon DEF PlanSays, key, intent
<1> QED
  BY <1>9, Zenon

\* The keys and intents of the plans that were written.
LEMMA PlansAdd ==
  ASSUME NEW on, NEW field
  PROVE  /\ \A x : x \in All([r \in on |-> Plan(r)], field) <=> \E r \in on : x \in Plan(r)[field]
BY DEF All

LEMMA CommitKeepsKeys ==
  ASSUME SigKeys, NEW on, NEW acknowledged, CommitSignal(on, acknowledged)
  PROVE  SigKeys'
<1> DEFINE plans == [r \in on |-> Plan(r)]
<1>1. /\ intents' = intents \cup All(plans, "intents") /\ meanings' = meanings \cup All(plans, "meanings")
      /\ UNCHANGED <<stream, stale, undone>> /\ handler.event # 0 /\ handler' = NoHandler
  BY Zenon DEF CommitSignal, Write
<1>2. /\ \A x \in intents' : x \in intents \/ \E r \in on : x \in Plan(r).intents
      /\ \A x \in meanings' : x \in meanings \/ \E r \in on : x \in Plan(r).meanings
      /\ \A r \in on : Plan(r).intents \subseteq intents' /\ Plan(r).meanings \subseteq meanings'
      /\ intents \subseteq intents' /\ meanings \subseteq meanings'
  BY <1>1, PlansAdd
<1>3. SuppressedHasOriginal'
  <2> SUFFICES ASSUME NEW k \in meanings', k.meaning.action \in OPEN_ACTIONS, k.by \notin undone
               PROVE  \E i \in intents' : /\ i.route = k.route /\ i.message = stream[k.by].message
                                          /\ i.meaning.action \in OPEN_ACTIONS
    BY <1>1, Zenon DEF SuppressedHasOriginal
  <2>1. CASE k \in meanings
    BY <2>1, <1>2, Zenon DEF SigKeys, SuppressedHasOriginal
  <2>2. CASE k \notin meanings
    <3>1. PICK r \in on : k \in Plan(r).meanings
      BY <2>2, <1>2
    <3>2. PICK merged, revision : PlanSays(r, merged, revision)
      BY PlanOfRoute, Zenon
    <3>3. k = PlannedKey(r, merged)
      BY <3>1, <3>2, Zenon DEF PlanSays
    <3>4. k.route = r /\ k.meaning = merged /\ stream[k.by].message = Event.message
      BY <3>3 DEF PlannedKey, Event
    <3>5. HasOpening(r, intents \cup Plan(r).intents)
      BY <3>1, <3>2, <3>4 DEF PlanSays
    <3> QED
      BY <3>4, <3>5, <1>2 DEF HasOpening
  <2> QED
    BY <2>1, <2>2
\* What is new comes from the plan of its route.
<1>4. ASSUME NEW i \in intents', i \notin intents
      PROVE  \E revision :
               /\ i.route \in on /\ i \in Plan(i.route).intents
               /\ PlanSays(i.route, i.meaning, revision) /\ i.message = Event.message
  <2>1. PICK r \in on : i \in Plan(r).intents
    BY <1>2, <1>4
  <2>2. PICK merged, revision : PlanSays(r, merged, revision)
    BY PlanOfRoute, Zenon
  <2>3. PICK t : i = PlannedIntent(r, merged, revision, t)
    BY <2>1, <2>2, Zenon DEF PlanSays
  <2>4. i.route = r /\ i.meaning = merged /\ i.message = Event.message
    BY <2>3 DEF PlannedIntent
  <2> QED
    BY <2>1, <2>2, <2>4
<1>5. ASSUME NEW i \in intents', i \notin intents, Opening(i)
      PROVE  /\ Unseen(i.route, i.meaning) /\ ~TooOld(i.message)
             /\ i.route \in Covered => PlannedKey(i.route, i.meaning) \in meanings'
  <2>1. PICK revision :
          /\ i.route \in on /\ i \in Plan(i.route).intents
          /\ PlanSays(i.route, i.meaning, revision) /\ i.message = Event.message
    BY <1>4, <1>5
  <2>2. Plan(i.route).intents # {}
    BY <2>1
  <2> QED
    BY <2>1, <2>2, <1>1, <1>2, <1>5 DEF PlanSays, Opening, TooOld
<1>6. EntryHasKey'
  <2>0. \A m : TooOld(m) => TooOld(m)'
    BY <1>1 DEF TooOld, NoHandler
  <2> SUFFICES ASSUME NEW i \in intents', Opening(i), i.route \in Covered, ~TooOld(i.message)
               PROVE  \E k \in meanings' : /\ k.route = i.route /\ k.meaning = i.meaning
                                           /\ stream[k.by].message = i.message
    BY <1>1, <2>0 DEF EntryHasKey, Opening
  <2>1. CASE i \in intents
    BY <2>1, <1>2, Zenon DEF SigKeys, EntryHasKey
  <2>2. CASE i \notin intents
    <3> DEFINE k == PlannedKey(i.route, i.meaning)
    <3>1. k \in meanings' /\ i.message = Event.message
      BY <2>2, <1>4, <1>5
    <3>2. k.route = i.route /\ k.meaning = i.meaning /\ stream[k.by].message = i.message
      BY <3>1 DEF PlannedKey, Event
    <3> QED
      BY <3>1, <3>2, Zenon
  <2> QED
    BY <2>1, <2>2
<1>7. EntersOnce'
  <2> SUFFICES ASSUME NEW i \in intents', NEW j \in intents', Opening(i), Opening(j), i.route \in Covered,
                      i.route = j.route, i.message = j.message, i.meaning = j.meaning
               PROVE  i = j
    BY DEF EntersOnce, Twice, Opening
  <2>1. ASSUME NEW n \in intents', NEW o \in intents, n \notin intents, Opening(n), Opening(o),
               n.route \in Covered,
               n.route = o.route, n.message = o.message, n.meaning = o.meaning
        PROVE  FALSE
    <3>1. Unseen(n.route, n.meaning) /\ ~TooOld(n.message)
      BY <1>5, <2>1
    <3>2. PICK k \in meanings : k.route = o.route /\ k.meaning = o.meaning
      BY <2>1, <3>1 DEF SigKeys, EntryHasKey
    <3> QED
      BY <3>1, <3>2, <2>1, SignalAssumption DEF Unseen
  <2>2. CASE i \in intents /\ j \in intents
    BY <2>2 DEF SigKeys, EntersOnce, Twice, Opening
  <2>3. CASE i \notin intents /\ j \notin intents
    <3>1. i.meaning.action \in OPENING_ACTIONS
      BY DEF Opening, OPENING_ACTIONS, OPEN_ACTIONS
    <3>2. PICK revision : i \in Plan(i.route).intents /\ PlanSays(i.route, i.meaning, revision)
      BY <1>4, <2>3
    <3>3. j \in Plan(i.route).intents
      BY <1>4, <2>3
    <3>4. \A n \in Plan(i.route).intents : n = PlannedIntent(i.route, i.meaning, revision, 0)
      BY <3>1, <3>2 DEF PlanSays
    <3> QED
      BY <3>2, <3>3, <3>4
  <2> QED
    BY <2>1, <2>2, <2>3, Zenon
<1> QED
  BY <1>3, <1>6, <1>7 DEF SigKeys

\* A rolled back delivery is history, its keys stay.
LEMMA RollBackKeepsKeys ==
  ASSUME SigKeys, NEW done, RollBack(done)
  PROVE  SigKeys'
<1> DEFINE plans == [r \in done |-> Plan(r)]
<1>1. /\ meanings' = meanings \cup All(plans, "meanings") /\ undone' = undone \cup {handler.event}
      /\ UNCHANGED <<stream, stale, intents>> /\ handler' = NoHandler
  BY Zenon DEF RollBack
<1>2. \A k \in meanings' : k \in meanings \/ k.by = handler.event
  <2> SUFFICES ASSUME NEW r \in done, NEW k \in Plan(r).meanings PROVE k.by = handler.event
    BY <1>1, PlansAdd
  <2>1. PICK merged, revision : PlanSays(r, merged, revision)
    BY PlanOfRoute, Zenon
  <2> QED
    BY <2>1 DEF PlanSays, PlannedKey
<1>3. meanings \subseteq meanings'
  BY <1>1
<1>4. SuppressedHasOriginal'
  BY <1>1, <1>2 DEF SigKeys, SuppressedHasOriginal
<1>5. EntryHasKey'
  <2>1. \A m : TooOld(m) => TooOld(m)'
    BY <1>1 DEF TooOld, NoHandler
  <2> QED
    BY <1>1, <1>3, <2>1 DEF SigKeys, EntryHasKey, Opening
<1>6. EntersOnce'
  BY <1>1 DEF SigKeys, EntersOnce, Twice, Opening
<1> QED
  BY <1>4, <1>5, <1>6 DEF SigKeys

\* Keys and intents as they are, and more messages or deliveries remembered.
LEMMA SameKeys ==
  ASSUME SigKeys, UNCHANGED <<stream, intents>>, stale \subseteq stale', undone \subseteq undone',
         meanings' \subseteq meanings,
         \A k \in meanings : k \notin meanings' /\ k.route \in Covered => TooOld(stream[k.by].message),
         \A m : TooOld(m) => TooOld(m)'
  PROVE  SigKeys'
<1>1. SuppressedHasOriginal'
  BY DEF SigKeys, SuppressedHasOriginal
<1>2. EntryHasKey'
  BY DEF SigKeys, EntryHasKey, Opening
<1>3. EntersOnce'
  BY DEF SigKeys, EntersOnce, Twice, Opening
<1> QED
  BY <1>1, <1>2, <1>3 DEF SigKeys

LEMMA SigKeysInit == SigInit => SigKeys
BY DEF SigInit, SigKeys, SuppressedHasOriginal, EntersOnce, Twice, EntryHasKey

LEMMA SigKeysNext ==
  ASSUME SigKeys, [SigNext]_sigVars
  PROVE  SigKeys'
<1>0. ASSUME UNCHANGED stream, stale \subseteq stale', handler' \in {handler, NoHandler}
      PROVE  \A m : TooOld(m) => TooOld(m)'
  BY <1>0 DEF TooOld, NoHandler, Event
<1>1. ASSUME NEW e \in DOMAIN stream, SkipEvent(e) \/ HandleDeleted(e) PROVE SigKeys'
  BY <1>0, <1>1, SameKeys DEF SkipEvent, HandleDeleted, Settle
<1>2. ASSUME NEW e \in DOMAIN stream, NEW rs \in SUBSET Routes, Begin(e, rs) PROVE SigKeys'
  <2>1. /\ handler.event = 0 /\ handler'.event = e /\ handler'.late = (stream[e].message \in stale)
        /\ UNCHANGED <<stream, intents, meanings, stale, undone>>
    BY <1>2 DEF Begin
  <2>2. \A m : TooOld(m) => TooOld(m)'
    BY <2>1 DEF TooOld, Event
  <2> QED
    BY <2>1, <2>2, SameKeys
<1>3. CASE DeadLetterSignal \/ (\E S \in SUBSET asms : ExpireSignals(S)) \/ \E i \in intents : TradeOpens(i)
  BY <1>0, <1>3, SameKeys DEF DeadLetterSignal, Settle, ExpireSignals, TradeOpens
<1>4. ASSUME NEW m \in Messages, GetsOld(m) PROVE SigKeys'
  BY <1>0, <1>4, SameKeys DEF GetsOld
<1>5. ASSUME NEW k \in meanings, MeaningLapses(k) PROVE SigKeys'
  BY <1>0, <1>5, SameKeys DEF MeaningLapses
<1>6. CASE UNCHANGED sigVars
  BY <1>0, <1>6, SameKeys DEF sigVars
<1> QED
  BY <1>1, <1>2, <1>3, <1>4, <1>5, <1>6, CommitKeepsKeys, RollBackKeepsKeys DEF SigNext

\* A route whose duplicate window is no shorter than the maximum age of a market
\* signal and the parser's wait enters the market at most once with one meaning
\* of one message, however often signal_handler gets it, fails, dies or is
\* overtaken by the lapse of the key (semantic_signal_key).
THEOREM RouteEntersOnce == SigSpec => []EntersOnce
<1>1. SigKeys => EntersOnce
  BY DEF SigKeys
<1> QED
  BY <1>1, SigKeysInit, SigKeysNext, PTL DEF SigSpec

\* No opening is suppressed as a repetition of one that was never turned into
\* an intent, except by the key of a rolled back delivery (signal_handler).
THEOREM RepeatsHaveOriginal == SigSpec => []SuppressedHasOriginal
<1>1. SigKeys => SuppressedHasOriginal
  BY DEF SigKeys
<1> QED
  BY <1>1, SigKeysInit, SigKeysNext, PTL DEF SigSpec

-----------------------------------------------------------------------------
(***************************************************************************)
(* The signal worker: what its handler read, and the generations.          *)
(***************************************************************************)
\* choose_conversation picks one of the conversations it is given, or none.
LEMMA OneIsSome == ASSUME NEW S, One(S) PROVE Only(S) \in S
<1>1. S # {}
  BY FS_EmptySet DEF One
<1> QED
  BY <1>1 DEF Only

LEMMA UniqueIsOne == ASSUME NEW S PROVE Unique(S).selected \in S \cup {None}
BY OneIsSome DEF Unique, Selected, Ambiguous

LEMMA ChosenByMeaning ==
  ASSUME NEW m, NEW S, NEW N \in Nat, \A c \in S : c.updated_at \in 0..N
  PROVE  chooseByMeaning(m, S).selected \in S \cup {None}
<1> DEFINE exact == {c \in S : c.symbol = m.symbol /\ m.direction \in {None, c.direction}}
           unresolved == {c \in S : /\ c.symbol = None
                                    /\ m.direction = None \/ c.direction \in {None, m.direction}}
           newest == CHOOSE c \in exact : \A d \in exact : d.updated_at <= c.updated_at
<1>1. exact # {} => newest \in exact
  <2> SUFFICES ASSUME exact # {} PROVE \E c \in exact : \A d \in exact : d.updated_at <= c.updated_at
    BY Zenon
  <2> DEFINE times == {c.updated_at : c \in exact}
  <2>1. times # {} /\ times \subseteq 0..N
    OBVIOUS
  <2>2. Max(times) \in times /\ \A t \in times : t <= Max(times)
    BY <2>1, MaxOfBounded
  <2>3. PICK c \in exact : c.updated_at = Max(times)
    BY <2>2
  <2> QED
    BY <2>2, <2>3
<1>2. Unique(unresolved).selected \in S \cup {None}
  BY UniqueIsOne
<1>3. One(exact) => Only(exact) \in S
  BY OneIsSome
<1>4. One(S) => Only(S) \in S
  BY OneIsSome
<1> HIDE DEF newest
<1>5. chooseByMeaning(m, S) =
        IF m.symbol # None
        THEN IF One(exact) THEN Selected(Only(exact))
             ELSE IF exact # {} THEN IF m.action = "full_close" THEN Selected(newest) ELSE Ambiguous
             ELSE IF unresolved # {} THEN Unique(unresolved) ELSE Unselected
        ELSE IF One(S)
        THEN IF m.direction \in {None, Only(S).direction} THEN Selected(Only(S)) ELSE Unselected
        ELSE IF S # {} THEN Ambiguous ELSE Unselected
  BY Zenon DEF chooseByMeaning, newest
<1>6. newest \in exact => newest \in S
  OBVIOUS
<1> HIDE DEF exact, unresolved
<1> QED
  BY <1>1, <1>2, <1>3, <1>4, <1>5, <1>6 DEF Selected, Ambiguous, Unselected

LEMMA ChosenByReference ==
  ASSUME NEW m, NEW S, NEW N \in Nat, \A c \in S : c.updated_at \in 0..N
  PROVE  chooseByReference(m, S).selected \in S \cup {None}
<1> DEFINE names(id) == {c \in S : id \in {c.reply_root_message_id, c.last_message_id}}
           edits == IF m.is_edit THEN names(m.message_id) ELSE {}
           replies == IF m.reply_to # None THEN names(m.reply_to) ELSE {}
           matchable == Matchable(m.action, S)
<1>1. edits \subseteq S /\ replies \subseteq S
  OBVIOUS
<1>2. matchable \subseteq S
  BY DEF Matchable
<1>3. chooseByMeaning(m, matchable).selected \in S \cup {None}
  BY <1>2, ChosenByMeaning
<1>4. Unique(edits).selected \in S \cup {None} /\ Unique(replies).selected \in S \cup {None}
  BY <1>1, UniqueIsOne
<1>5. chooseByReference(m, S) = IF edits # {} THEN Unique(edits)
                                ELSE IF replies # {} THEN Unique(replies)
                                ELSE chooseByMeaning(m, matchable)
  BY Zenon DEF chooseByReference
<1> HIDE DEF edits, replies, matchable
<1> QED
  BY <1>3, <1>4, <1>5

LEMMA ChosenIsGiven ==
  ASSUME NEW m, NEW C, NEW N \in Nat, \A c \in C : c.updated_at \in 0..N
  PROVE  choose_conversation(m, C).selected \in C \cup {None}
<1> DEFINE eligible == Eligible(m.action, C)
           openings == {c \in eligible : ~c.opening_submitted}
           adjacent(S) == {c \in S : c.last_message_id + 1 = m.message_id}
           fitting == {c \in openings : /\ m.symbol \in {None, c.symbol}
                                        /\ m.direction \in {None, c.direction}}
<1>1. eligible \subseteq C
  <2>1. CASE m.action = "modify_sl_tp"
    BY <2>1 DEF Eligible, MANAGEMENT_ACTIONS
  <2>2. CASE m.action \in MANAGEMENT_ACTIONS /\ m.action # "modify_sl_tp"
    BY <2>2 DEF Eligible
  <2>3. CASE m.action \notin MANAGEMENT_ACTIONS
    BY <2>3 DEF Eligible, MANAGEMENT_ACTIONS
  <2> QED
    BY <2>1, <2>2, <2>3
<1>2. One(adjacent(openings)) => Only(adjacent(openings)) \in C
  BY <1>1, OneIsSome
<1>3. One(adjacent(eligible)) => Only(adjacent(eligible)) \in C
  BY <1>1, OneIsSome
<1>4. Unique(fitting).selected \in C \cup {None}
  <2>1. fitting \subseteq C
    BY <1>1
  <2> QED
    BY <2>1, UniqueIsOne
<1>5. chooseByReference(m, eligible).selected \in C \cup {None}
  BY <1>1, ChosenByReference
<1>6. choose_conversation(m, C) =
        IF m.action = "modify_sl_tp" /\ One(adjacent(openings)) THEN Selected(Only(adjacent(openings)))
        ELSE IF m.action = "modify_sl_tp" /\ fitting # {} THEN Unique(fitting)
        ELSE IF m.action \in MANAGEMENT_ACTIONS /\ One(adjacent(eligible))
        THEN Selected(Only(adjacent(eligible)))
        ELSE chooseByReference(m, eligible)
  BY Zenon DEF choose_conversation
<1> HIDE DEF eligible, openings, adjacent, fitting
<1> QED
  BY <1>2, <1>3, <1>4, <1>5, <1>6 DEF Selected

\* What Begin reads of its conversation is what the database says.
LEMMA ChoiceIsKnown ==
  ASSUME SigIInv, NEW e, NEW rs
  PROVE  LET c == Choice(e, rs).selected
         IN  c # None => /\ c.id \in DOMAIN convs
                         /\ convs[c.id].state = "active" => c.opening_submitted = Submitted(c.id)
<1> DEFINE live == {d \in DOMAIN convs : convs[d].state = "active"}
           seen == {Candidate(c, rs) : c \in live}
           own == {c \in DOMAIN convs : convs[c].corr = e}
           m == stream[e]
           seek == [reply_to |-> None, message_id |-> m.message, is_edit |-> m.type = "edited",
                    symbol |-> m.says.symbol, direction |-> m.says.direction, action |-> m.says.action]
           old == [id |-> Only(own), opening_submitted |-> \E k \in seen : k.id = Only(own) /\ k.opening_submitted]
<1>1. Choice(e, rs) = IF own # {} THEN Selected(old) ELSE choose_conversation(seek, seen)
  BY Zenon DEF Choice
<1>2. \A c : /\ Candidate(c, rs).id = c /\ Candidate(c, rs).updated_at = convs[c].at
            /\ Candidate(c, rs).opening_submitted = Submitted(c)
  BY DEF Candidate
<1>3. /\ \A k \in seen : k.id \in live /\ k = Candidate(k.id, rs)
      /\ \A c \in live : Candidate(c, rs) \in seen
  BY <1>2
<1>4. CASE own # {}
  <2>1. Only(own) \in own
    BY <1>4 DEF Only
  <2>2. convs[Only(own)].state = "active" =>
          ((\E k \in seen : k.id = Only(own) /\ k.opening_submitted) = Submitted(Only(own)))
    <3> HIDE DEF seen, own
    <3> SUFFICES ASSUME Only(own) \in live
                 PROVE  (\E k \in seen : k.id = Only(own) /\ k.opening_submitted) <=> Submitted(Only(own))
      BY <2>1 DEF Submitted, own
    <3>1. \A k \in seen : k.id = Only(own) => (k.opening_submitted = Submitted(Only(own)))
      BY <1>2, <1>3, Zenon
    <3>2. Candidate(Only(own), rs) \in seen
      BY <1>3, Zenon
    <3> QED
      BY <1>2, <3>1, <3>2, Zenon
  <2>3. Choice(e, rs).selected = old
    BY <1>1, <1>4 DEF Selected
  <2>4. old.id = Only(own) /\ Only(own) \in DOMAIN convs
    BY <2>1
  <2>5. convs[old.id].state = "active" => old.opening_submitted = Submitted(old.id)
    BY <2>2, <2>4, Zenon
  <2> HIDE DEF old
  <2> QED
    BY <2>3, <2>4, <2>5
<1>5. CASE own = {}
  <2>1. \A k \in seen : k.updated_at \in 0..Clock
    <3> HIDE DEF seen
    <3> QED
      BY <1>2, <1>3 DEF SigIInv, ConvsShaped
  <2>2. Clock \in Nat
    BY SignalAssumption DEF Clock
  <2> HIDE DEF seek, seen
  <2>3. choose_conversation(seek, seen).selected \in seen \cup {None}
    BY <2>1, <2>2, ChosenIsGiven, Zenon
  <2>4. Choice(e, rs).selected \in seen \cup {None}
    BY <1>1, <1>5, <2>3
  <2> QED
    BY <2>4, <1>2, <1>3
<1> QED
  BY <1>4, <1>5

LEMMA LenOfFunction ==
  ASSUME NEW n \in Nat, NEW f, f = [x \in DOMAIN f |-> f[x]], DOMAIN f = 1..n
  PROVE  Len(f) = n
<1> DEFINE S == {f[x] : x \in 1..n}
<1>1. f \in [1..n -> S]
  OBVIOUS
<1>2. f \in Seq(S)
  BY <1>1
<1>3. Len(f) \in Nat /\ DOMAIN f = 1..Len(f)
  BY <1>2
<1> QED
  BY <1>3

LEMMA MergeShape ==
  ASSUME NEW c, NEW u, NEW s, DOMAIN c = ContextFields
  PROVE  /\ DOMAIN merge_context(c, u) = ContextFields
         /\ DOMAIN merge_generation_context(c, u, s) = ContextFields
BY DEF merge_context, merge_generation_context

\* The handler's conversation, as it writes it.
LEMMA ConversationShape ==
  ASSUME SigIInv, handler.event # 0
  PROVE  /\ DOMAIN Conversation = ConvFields
         /\ DOMAIN Conversation.context = ContextFields
         /\ Conversation.at \in 0..Clock
         /\ Target \in DOMAIN convs => Conversation.state = convs[Target].state
<1>1. DOMAIN Known = ContextFields
  BY DEF Known, Target, SigIInv, ConvsShaped, ContextFields
<1>2. DOMAIN merge_context(Known, Update) = ContextFields
  BY <1>1, MergeShape
<1>3. Cardinality(settled) + crashes \in 0..Clock
  <2>1. IsFiniteSet(1..MaxEvents) /\ Cardinality(1..MaxEvents) = MaxEvents
    <3>1. MaxEvents \in Nat
      BY SignalAssumption
    <3>2. MaxEvents \in Int /\ 1 \in Int
      BY <3>1
    <3>3. /\ IsFiniteSet(1..MaxEvents)
          /\ Cardinality(1..MaxEvents) = IF 1 > MaxEvents THEN 0 ELSE MaxEvents - 1 + 1
      BY <3>2, FS_Interval, Zenon
    <3> DEFINE size == Cardinality(1..MaxEvents)
    <3> HIDE DEF size
    <3>4. size = MaxEvents
      BY <3>1, <3>3 DEF size
    <3> QED
      BY <3>3, <3>4 DEF size
  <2>2. IsFiniteSet(settled) /\ Cardinality(settled) <= MaxEvents
    <3>1. settled \in SUBSET (1..MaxEvents)
      BY DEF SigIInv, WorkShaped
    <3>2. IsFiniteSet(settled) /\ Cardinality(settled) <= Cardinality(1..MaxEvents)
      BY <2>1, <3>1, FS_Subset, Zenon
    <3> QED
      BY <2>1, <3>2
  <2>3. Cardinality(settled) \in Nat
    BY <2>2, FS_CardinalityType
  <2> QED
    BY <2>2, <2>3, SignalAssumption DEF SigIInv, WorkShaped, Clock
<1> DEFINE old == IF Target \in DOMAIN convs THEN convs[Target]
                  ELSE [state |-> "active", root |-> Event.message, corr |-> handler.event]
<1>4. Conversation = [state |-> old.state, root |-> old.root, corr |-> old.corr,
                      last |-> Event.message, context |-> merge_context(Known, Update),
                      at |-> Cardinality(settled) + crashes]
  BY Zenon DEF Conversation
<1> HIDE DEF old
<1>5. /\ DOMAIN Conversation = ConvFields /\ Conversation.context = merge_context(Known, Update)
      /\ Conversation.at = Cardinality(settled) + crashes /\ Conversation.state = old.state
  BY <1>4 DEF ConvFields
<1> QED
  BY <1>2, <1>3, <1>5 DEF old

\* The generation that a route's part of the message goes to.
LEMMA GenerationShape ==
  ASSUME SigIInv, handler.event # 0, NEW r
  PROVE  LET g == Generation(r)
         IN  /\ DOMAIN g = AsmFields /\ DOMAIN g.context = ContextFields
             /\ g.conv = Target /\ g.route = r
<1>1. CASE Current(r) # {}
  <2>1. Only(Current(r)) \in Current(r)
    BY <1>1 DEF Only
  <2>2. Generation(r) = Only(Current(r))
    BY <1>1 DEF Generation
  <2> QED
    BY <2>1, <2>2 DEF Current, Generations, SigIInv, AsmsShaped
<1>2. CASE Current(r) = {}
  <2> DEFINE first == 1 + Max({0} \cup {a.generation : a \in Generations(r)})
  <2>1. Generation(r) = [conv |-> Target, route |-> r, state |-> "assembling",
                         context |-> Conversation.context, refs |-> {}, opening |-> FALSE,
                         generation |-> first]
    BY <1>2, Zenon DEF Generation
  <2> HIDE DEF first
  <2> QED
    BY <2>1, ConversationShape DEF AsmFields
<1> QED
  BY <1>1, <1>2

LEMMA AssemblyShape ==
  ASSUME SigIInv, handler.event # 0, NEW r
  PROVE  LET a == Plan(r).assembly
         IN  /\ DOMAIN a = AsmFields /\ DOMAIN a.context = ContextFields
             /\ a.conv = Target /\ a.route = r
<1> DEFINE g == Generation(r)
           merged == merge_generation_context(g.context, Update, g.opening)
           revision == 1 + Max({0} \cup {ref[2] : ref \in {x \in g.refs : x[1] = Event.message}})
           kept == [g EXCEPT !.context = merged, !.refs = @ \cup {<<Event.message, revision>>}]
<1>1. \/ Plan(r).assembly = [kept EXCEPT !.state = "skipped"]
      \/ Plan(r).assembly = mark_generation_submitted(kept)
      \/ Plan(r).assembly = kept
  BY Zenon DEF Plan
<1>2. DOMAIN merged = ContextFields
  BY GenerationShape, MergeShape
<1>3. DOMAIN g = AsmFields /\ g.conv = Target /\ g.route = r
  BY GenerationShape
<1> HIDE DEF g, merged, revision
<1>4. DOMAIN kept = AsmFields /\ kept.context = merged /\ kept.conv = Target /\ kept.route = r
  BY <1>3 DEF AsmFields
<1> HIDE DEF kept
<1> QED
  BY <1>1, <1>2, <1>4 DEF AsmFields, mark_generation_submitted

LEMMA SigInitIInv == SigInit => SigIInv
<1> SUFFICES ASSUME SigInit PROVE SigIInv
  OBVIOUS
<1>1. WorkShaped
  BY SignalAssumption DEF SigInit, WorkShaped, NoHandler
<1>2. ConvsShaped
  BY DEF SigInit, ConvsShaped
<1> QED
  BY <1>1, <1>2 DEF SigInit, SigIInv, AsmsShaped, OneActive, ReadIsCurrent, NoHandler

\* The handler's conversation is one of the known ones or the next.
LEMMA ConvsGrow ==
  ASSUME SigIInv, handler.event # 0
  PROVE  LET n == Max({Target, Len(convs)})
         IN  /\ n \in Nat /\ Target \in 1..n /\ Len(convs) <= n
             /\ Len(convs) \in Nat /\ DOMAIN convs = 1..Len(convs)
             /\ \A c \in 1..n : c = Target \/ c \in DOMAIN convs
<1>1. Len(convs) \in Nat /\ DOMAIN convs = 1..Len(convs) /\ Target \in 1..(Len(convs) + 1)
  BY DEF SigIInv, WorkShaped, ConvsShaped, Target
<1> DEFINE n == Max({Target, Len(convs)})
<1>2. n \in {Target, Len(convs)} /\ Len(convs) <= n /\ Target <= n
  <2>1. {Target, Len(convs)} \subseteq 0..(Len(convs) + 1) /\ {Target, Len(convs)} # {}
    BY <1>1
  <2>2. Len(convs) + 1 \in Nat
    BY <1>1
  <2> HIDE DEF n
  <2>3. /\ Max({Target, Len(convs)}) \in {Target, Len(convs)}
        /\ \A y \in {Target, Len(convs)} : y <= Max({Target, Len(convs)})
    BY <2>1, <2>2, MaxOfBounded, Zenon
  <2> QED
    BY <2>3 DEF n
<1> HIDE DEF n
<1>3. ASSUME NEW l \in Nat, NEW k \in 1..(l + 1), NEW m \in {k, l}, l <= m, k <= m
      PROVE  m \in Nat /\ k \in 1..m /\ \A c \in 1..m : c = k \/ c \in 1..l
  BY <1>3
<1>4. /\ n \in Nat /\ Target \in 1..n
      /\ \A c \in 1..n : c = Target \/ c \in DOMAIN convs
  BY <1>1, <1>2, <1>3, Zenon
<1> QED
  BY <1>1, <1>2, <1>4 DEF n

LEMMA CommitKeepsShape ==
  ASSUME SigIInv, NEW on, NEW acknowledged, CommitSignal(on, acknowledged)
  PROVE  SigIInv'
<1> DEFINE plans == [r \in on |-> Plan(r)]
<1>1. /\ convs' = [c \in 1..Max({Target, Len(convs)}) |-> IF c = Target THEN Conversation ELSE convs[c]]
      /\ asms' = (asms \ UNION {Current(r) : r \in on}) \cup {Plan(r).assembly : r \in on}
      /\ handler' = NoHandler /\ UNCHANGED stream
      /\ settled' \in {settled, settled \cup {handler.event}}
      /\ crashes' = crashes \/ (crashes < MaxCrashes /\ crashes' = crashes + 1)
      /\ handler.event # 0
  <2>1. Write(plans) /\ handler' = NoHandler /\ UNCHANGED stream /\ handler.event # 0
    BY Zenon DEF CommitSignal
  <2>2. asms' = (asms \ UNION {Current(r) : r \in on}) \cup {Plan(r).assembly : r \in on}
    <3>1. asms' = (asms \ UNION {Current(r) : r \in DOMAIN plans}) \cup {plans[r].assembly : r \in DOMAIN plans}
      BY <2>1, Zenon DEF Write
    <3> QED
      BY <3>1
  <2>3. /\ settled' \in {settled, settled \cup {handler.event}}
        /\ crashes' = crashes \/ (crashes < MaxCrashes /\ crashes' = crashes + 1)
    BY DEF CommitSignal
  <2> QED
    BY <2>1, <2>2, <2>3, Zenon DEF Write
<1>2. WorkShaped'
  BY <1>1, SignalAssumption DEF SigIInv, WorkShaped, NoHandler
<1>3. ConvsShaped'
  <2> DEFINE n == Max({Target, Len(convs)})
  <2>1. n \in Nat /\ Target \in 1..n /\ \A c \in 1..n : c = Target \/ c \in DOMAIN convs
    BY <1>1, ConvsGrow
  <2> HIDE DEF n
  <2>2. convs' = [c \in 1..n |-> IF c = Target THEN Conversation ELSE convs[c]]
    BY <1>1 DEF n
  <2>3. DOMAIN convs' = 1..n
    BY <2>2
  <2>4. Len(convs') = n
    BY <2>1, <2>2, <2>3, LenOfFunction
  <2>5. \A c \in DOMAIN convs' : convs'[c] = Conversation \/ (c \in DOMAIN convs /\ convs'[c] = convs[c])
    BY <2>1, <2>2, <2>3
  <2> QED
    BY <2>1, <2>3, <2>4, <2>5, <1>1, ConversationShape DEF SigIInv, ConvsShaped
<1>4. AsmsShaped'
  BY <1>1, AssemblyShape DEF SigIInv, AsmsShaped
<1>5. OneActive'
  <2> SUFFICES ASSUME NEW a \in asms', NEW b \in asms', a.conv = b.conv, a.route = b.route,
                      a.state \in ActiveStates, b.state \in ActiveStates
               PROVE  a = b
    BY DEF OneActive
  <2>1. ASSUME NEW r \in on, NEW o \in asms, o \in asms', o.state \in ActiveStates,
               o.conv = Target, o.route = r
        PROVE  \E q \in on : o = Plan(q).assembly
    <3>1. o \in Current(r)
      BY <2>1 DEF Current, Generations
    <3> QED
      BY <1>1, <2>1, <3>1
  <2>2. \A x \in asms' : x \notin asms => \E r \in on : x = Plan(r).assembly
    BY <1>1
  <2>3. \A r \in on : Plan(r).assembly.conv = Target /\ Plan(r).assembly.route = r
    BY <1>1, AssemblyShape
  <2>4. CASE a \in asms /\ b \in asms
    BY <2>4 DEF SigIInv, OneActive
  <2>5. CASE a \notin asms \/ b \notin asms
    <3>1. \E r \in on : a = Plan(r).assembly
      BY <2>1, <2>2, <2>3, <2>5
    <3>2. \E r \in on : b = Plan(r).assembly
      BY <2>1, <2>2, <2>3, <2>5
    <3> QED
      BY <3>1, <3>2, <2>3
  <2> QED
    BY <2>4, <2>5
<1>6. ReadIsCurrent'
  BY <1>1 DEF ReadIsCurrent, NoHandler
<1> QED
  BY <1>2, <1>3, <1>4, <1>5, <1>6 DEF SigIInv

\* Assemblies and conversations that are marked as expired.
LEMMA ExpiredKeepsShape ==
  ASSUME SigIInv, UNCHANGED <<stream, handler, crashes>>,
         settled' \subseteq 1..MaxEvents,
         DOMAIN convs' = DOMAIN convs, Len(convs') = Len(convs),
         \A c \in DOMAIN convs : convs'[c] \in {convs[c], [convs[c] EXCEPT !.state = "expired"]},
         \A a \in asms' : a \in asms \/ \E b \in asms : a = mark_generation_expired(b)
  PROVE  SigIInv'
<1>1. WorkShaped'
  BY DEF SigIInv, WorkShaped
<1>2. \A c \in DOMAIN convs : /\ convs'[c].context = convs[c].context /\ convs'[c].at = convs[c].at
                              /\ DOMAIN convs'[c] = ConvFields
                              /\ convs'[c].state = "active" => convs[c].state = "active"
  BY DEF SigIInv, ConvsShaped, ConvFields
<1>3. ConvsShaped'
  BY <1>2 DEF SigIInv, ConvsShaped
<1>4. \A b \in asms : LET a == mark_generation_expired(b)
                      IN  /\ DOMAIN a = AsmFields /\ a.context = b.context /\ a.state = "expired"
                          /\ a.conv = b.conv /\ a.opening = b.opening
  BY DEF SigIInv, AsmsShaped, AsmFields, mark_generation_expired
<1>5. AsmsShaped'
  BY <1>4 DEF SigIInv, AsmsShaped
<1>6. OneActive'
  BY <1>4 DEF SigIInv, OneActive, ActiveStates
<1>7. \A c : Submitted(c)' => Submitted(c)
  BY <1>4 DEF Submitted
<1>8. ReadIsCurrent'
  BY <1>2, <1>7 DEF SigIInv, ReadIsCurrent
<1> QED
  BY <1>1, <1>3, <1>5, <1>6, <1>8 DEF SigIInv

\* The handler is done, or other parts of the state change.
LEMMA SameShape ==
  ASSUME SigIInv, UNCHANGED <<stream, convs, asms>>, settled' \subseteq 1..MaxEvents,
         crashes' \in 0..MaxCrashes, handler' \in {handler, NoHandler}
  PROVE  SigIInv'
<1>1. WorkShaped' /\ ReadIsCurrent'
  BY DEF SigIInv, WorkShaped, ReadIsCurrent, NoHandler, Submitted
<1> QED
  BY <1>1 DEF SigIInv, ConvsShaped, AsmsShaped, OneActive

LEMMA BeginKeepsShape ==
  ASSUME SigIInv, NEW e \in DOMAIN stream, NEW rs, Begin(e, rs)
  PROVE  SigIInv'
<1> DEFINE c == Choice(e, rs).selected
<1>1. /\ handler' = [event |-> e, routes |-> rs, conv |-> IF c = None THEN Len(convs) + 1 ELSE c.id,
                     submitted |-> c # None /\ c.opening_submitted, late |-> stream[e].message \in stale]
      /\ stream[e].type # "deleted"
      /\ UNCHANGED <<stream, settled, convs, asms, crashes>>
  BY Zenon DEF Begin
<1>2. c # None => /\ c.id \in DOMAIN convs
                  /\ convs[c.id].state = "active" => c.opening_submitted = Submitted(c.id)
  BY ChoiceIsKnown, Zenon
<1> HIDE DEF c
<1>3. Len(convs) \in Nat /\ DOMAIN convs = 1..Len(convs)
  BY DEF SigIInv, ConvsShaped
<1>4. WorkShaped'
  BY <1>1, <1>2, <1>3 DEF SigIInv, WorkShaped
<1>5. ReadIsCurrent'
  <2> SUFFICES ASSUME handler'.conv \in DOMAIN convs, convs[handler'.conv].state = "active",
                      Submitted(handler'.conv)
               PROVE  handler'.submitted
    BY <1>1 DEF ReadIsCurrent, Submitted
  <2>1. c # None
    BY <1>1, <1>3
  <2>2. handler'.conv = c.id
    BY <1>1, <2>1
  <2>3. c.opening_submitted = Submitted(c.id) /\ Submitted(c.id)
    BY <1>2, <2>1, <2>2
  <2> QED
    BY <1>1, <2>1, <2>3
<1> QED
  BY <1>1, <1>4, <1>5 DEF SigIInv, ConvsShaped, AsmsShaped, OneActive

LEMMA SigNextIInv ==
  ASSUME SigIInv, [SigNext]_sigVars
  PROVE  SigIInv'
<1>0. /\ settled \subseteq 1..MaxEvents /\ DOMAIN stream = 1..MaxEvents /\ crashes \in 0..MaxCrashes
      /\ handler.event # 0 => handler.event \in 1..MaxEvents
  BY DEF SigIInv, WorkShaped
<1>1. ASSUME NEW e \in DOMAIN stream, SkipEvent(e) PROVE SigIInv'
  BY <1>0, <1>1, SameShape DEF SkipEvent, Settle
<1>2. ASSUME NEW e \in DOMAIN stream, HandleDeleted(e) PROVE SigIInv'
  <2>1. \A a \in asms' : a \in asms \/ \E b \in asms : a = mark_generation_expired(b)
    BY <1>2 DEF HandleDeleted
  <2>2. UNCHANGED <<stream, handler, crashes>> /\ UNCHANGED convs /\ settled' \subseteq 1..MaxEvents
    BY <1>0, <1>2 DEF HandleDeleted
  <2>3. /\ DOMAIN convs' = DOMAIN convs /\ Len(convs') = Len(convs)
        /\ \A c \in DOMAIN convs : convs'[c] \in {convs[c], [convs[c] EXCEPT !.state = "expired"]}
    BY <2>2
  <2> QED
    BY <2>1, <2>2, <2>3, ExpiredKeepsShape
<1>3. ASSUME NEW on, RollBack(on) PROVE SigIInv'
  <2>1. UNCHANGED <<stream, convs, asms>> /\ settled' \subseteq 1..MaxEvents /\ handler' = NoHandler
    BY <1>0, <1>3 DEF RollBack
  <2>2. crashes' \in 0..MaxCrashes
    BY <1>0, <1>3, SignalAssumption DEF RollBack
  <2> QED
    BY <2>1, <2>2, SameShape
<1>4. CASE DeadLetterSignal
  BY <1>0, <1>4, SameShape DEF DeadLetterSignal, Settle
<1>5. ASSUME NEW S \in SUBSET asms, ExpireSignals(S) PROVE SigIInv'
  <2> DEFINE after == (asms \ S) \cup {mark_generation_expired(a) : a \in S}
             over == {a.conv : a \in S} \ {a.conv : a \in {b \in after : StillActive(b.state)}}
  <2>1. /\ asms' = after /\ UNCHANGED <<stream, settled, handler, crashes>>
        /\ convs' = [c \in DOMAIN convs |-> IF c \in over THEN [convs[c] EXCEPT !.state = "expired"]
                                            ELSE convs[c]]
    BY <1>5, Zenon DEF ExpireSignals
  <2>2. \A a \in asms' : a \in asms \/ \E b \in asms : a = mark_generation_expired(b)
    BY <2>1
  <2> HIDE DEF over
  <2>3. /\ DOMAIN convs' = DOMAIN convs
        /\ \A c \in DOMAIN convs : convs'[c] \in {convs[c], [convs[c] EXCEPT !.state = "expired"]}
    BY <2>1
  <2>4. Len(convs') = Len(convs)
    BY <2>1, <2>3, LenOfFunction DEF SigIInv, ConvsShaped
  <2> QED
    BY <1>0, <2>1, <2>2, <2>3, <2>4, ExpiredKeepsShape
<1>6. ASSUME NEW i \in intents, TradeOpens(i) PROVE SigIInv'
  BY <1>0, <1>6, SameShape DEF TradeOpens
<1>7. ASSUME NEW m, GetsOld(m) PROVE SigIInv'
  BY <1>0, <1>7, SameShape DEF GetsOld
<1>8. ASSUME NEW k, MeaningLapses(k) PROVE SigIInv'
  BY <1>0, <1>8, SameShape DEF MeaningLapses
<1>9. CASE UNCHANGED sigVars
  BY <1>0, <1>9, SameShape DEF sigVars
<1> QED
  BY <1>1, <1>2, <1>3, <1>4, <1>5, <1>6, <1>7, <1>8, <1>9, CommitKeepsShape, BeginKeepsShape DEF SigNext

\* The edit of a submitted opening says levels or a status, no opening.
LEMMA EditsCorrect ==
  ASSUME SigIInv, handler.event # 0, Event.type = "edited",
         Target \in DOMAIN convs, convs[Target].state = "active", Submitted(Target)
  PROVE  Update.action \notin OPEN_ACTIONS \cup {None}
<1>1. handler.submitted
  BY DEF SigIInv, ReadIsCurrent, Target
<1>2. DOMAIN Event.says = ContextFields /\ Event.says.action \in SignalActions
  BY SignalAssumption DEF SigIInv, WorkShaped, Event, Events, ContextFields
<1>3. CASE Event.says.action \in OPEN_ACTIONS
  <2>1. Update = corrective_action_for_submitted_edit(Known, Event.says)
    BY <1>1, <1>3 DEF Update
  <2>2. "action" \in DOMAIN Event.says
    BY <1>2 DEF ContextFields, NoContext
  <2>3. Update.action \in {"modify_sl_tp", "status_only"}
    BY <2>1, <2>2 DEF corrective_action_for_submitted_edit
  <2> QED
    BY <2>3, SignalAssumption DEF OPEN_ACTIONS, SignalActions, MANAGEMENT_ACTIONS
<1>4. CASE Event.says.action \notin OPEN_ACTIONS
  BY <1>2, <1>4, SignalAssumption DEF Update
<1> QED
  BY <1>3, <1>4

LEMMA NoReopening ==
  ASSUME SigIInv, NEW on, NEW acknowledged, CommitSignal(on, acknowledged),
         NEW i \in intents', i \notin intents, stream[i.event].type = "edited",
         i.meaning.action \in OPEN_ACTIONS,
         i.conv \in DOMAIN convs, convs[i.conv].state = "active",
         NEW h \in asms, h.conv = i.conv, h.route = i.route, h.state \in ActiveStates, h.opening
  PROVE  FALSE
<1> DEFINE plans == [r \in on |-> Plan(r)]
<1>1. intents' = intents \cup All(plans, "intents") /\ handler.event # 0
  BY Zenon DEF CommitSignal, Write
<1>2. PICK r \in on : i \in Plan(r).intents
  BY <1>1, PlansAdd
<1> DEFINE g == Generation(r)
           merged == merge_generation_context(g.context, Update, g.opening)
           revision == 1 + Max({0} \cup {ref[2] : ref \in {x \in g.refs : x[1] = Event.message}})
<1>3. \E t : i = PlannedIntent(r, merged, revision, t)
  <2> DEFINE accepted == validate_signal(merged, Age, Policy(r)) = "accepted"
             within == accepted /\ WithinLimits(r, merged)
             unseen == within /\ Unseen(r, merged)
             targets == Targets(r, merged)
  <2>1. Plan(r).intents = {n \in {PlannedIntent(r, merged, revision, t) : t \in targets} :
                              unseen /\ \A j \in intents : Key(n) # Key(j)}
    BY Zenon DEF Plan, PlannedIntent
  <2> HIDE DEF merged, revision, targets, unseen
  <2> QED
    BY <1>2, <2>1
<1> HIDE DEF revision
<1>4. /\ i.route = r /\ i.conv = Target /\ i.meaning = merged /\ i.event = handler.event
  <2> HIDE DEF merged
  <2> QED
    BY <1>3 DEF PlannedIntent
<1>5. g = h
  <2>1. h \in Current(r)
    BY <1>4 DEF Current, Generations
  <2>2. Only(Current(r)) \in Current(r)
    BY <2>1 DEF Only
  <2>3. g = Only(Current(r))
    BY <2>1, Zenon DEF Generation
  <2> QED
    BY <2>1, <2>2, <2>3 DEF Current, Generations, SigIInv, OneActive
<1>6. Update.action \notin OPEN_ACTIONS \cup {None}
  BY <1>1, <1>4, EditsCorrect DEF Submitted, Event
<1>7. DOMAIN g.context = ContextFields
  BY <1>5 DEF SigIInv, AsmsShaped
<1> HIDE DEF g
<1>8. merge_context(g.context, Update).action = Update.action
  BY <1>6, <1>7 DEF merge_context, Blank, ContextFields, NoContext
<1>9. DOMAIN merge_context(g.context, Update) = ContextFields
  BY <1>7, MergeShape
<1>10. ~KeepsOpening(g.context, Update, g.opening)
  BY <1>5 DEF KeepsOpening
<1>11. merged.action = merge_context(g.context, Update).action
  BY <1>9, <1>10 DEF merge_generation_context, ContextFields, NoContext
<1> QED
  BY <1>4, <1>6, <1>8, <1>11

\* While a generation of its route has opened, the edit of a message in that
\* conversation changes the position and opens no other, however much expired,
\* was deleted or failed while the parser was asked (signal_handler,
\* corrective_action_for_submitted_edit).
THEOREM EditsNeverReopen == SigSpec => EditsDoNotReopen
<1> DEFINE Reopens(i) ==
             /\ stream[i.event].type = "edited" /\ i.meaning.action \in OPEN_ACTIONS
             /\ i.conv \in DOMAIN convs /\ convs[i.conv].state = "active"
             /\ \E g \in asms : /\ g.conv = i.conv /\ g.route = i.route
                                /\ g.state \in ActiveStates /\ g.opening
<1>1. ASSUME SigIInv, [SigNext]_sigVars, NEW i \in intents' \ intents, Reopens(i)
      PROVE  FALSE
  <2>1. intents' # intents => \E on, ack : CommitSignal(on, ack)
    BY <1>1 DEF SigNext, SkipEvent, HandleDeleted, Begin, RollBack, DeadLetterSignal, ExpireSignals,
                TradeOpens, GetsOld, MeaningLapses, sigVars
  <2> QED
    BY <1>1, <2>1, NoReopening
<1>2. SigIInv /\ [SigNext]_sigVars =>
        [\A i \in intents' \ intents :
           /\ stream[i.event].type = "edited" /\ i.meaning.action \in OPEN_ACTIONS
           /\ i.conv \in DOMAIN convs /\ convs[i.conv].state = "active"
           => ~\E g \in asms : /\ g.conv = i.conv /\ g.route = i.route
                               /\ g.state \in ActiveStates /\ g.opening]_sigVars
  BY <1>1
<1> QED
  BY <1>2, SigInitIInv, SigNextIInv, PTL DEF SigSpec, EditsDoNotReopen

-----------------------------------------------------------------------------
(* Types.                                                                  *)

AsmTyped(a) ==
    /\ a.conv \in DOMAIN convs /\ a.route \in Routes
    /\ a.state \in RouteAssemblyStates /\ a.generation \in Nat \ {0}

IntentTyped(i) == i.route \in Routes /\ i.conv \in DOMAIN convs /\ i.event \in DOMAIN stream

\* Generations are counted, so one of them is the latest.
Numbered == \E n \in Nat : \A a \in asms : a.generation <= n

SigTyped ==
    /\ handler.routes \subseteq Routes
    /\ \A c \in DOMAIN convs : convs[c].state \in {"active", "expired"}
    /\ \A a \in asms : AsmTyped(a)
    /\ \A i \in intents : IntentTyped(i)
    /\ Numbered /\ trades \subseteq intents /\ stale \subseteq Messages

\* The number of a route's generation is the active one's or the next one.
LEMMA GenerationTyped ==
  ASSUME SigIInv, SigTyped, handler.event # 0, NEW r, NEW n \in Nat,
         \A a \in asms : a.generation <= n
  PROVE  /\ Generation(r).state \in RouteAssemblyStates
         /\ Generation(r).generation \in Nat \ {0} /\ Generation(r).generation <= n + 1
<1>1. CASE Current(r) # {}
  <2>1. Only(Current(r)) \in Current(r)
    BY <1>1 DEF Only
  <2>2. Generation(r) = Only(Current(r))
    BY <1>1 DEF Generation
  <2>3. Generation(r) \in asms
    BY <2>1, <2>2 DEF Current, Generations
  <2> QED
    BY <2>3 DEF SigTyped, AsmTyped
<1>2. CASE Current(r) = {}
  <2> DEFINE S == {0} \cup {a.generation : a \in Generations(r)}
  <2>1. \A a \in Generations(r) : a.generation \in 0..n
    BY DEF Generations, SigTyped, AsmTyped
  <2>2. S # {} /\ S \subseteq 0..n
    BY <2>1
  <2>3. Max(S) \in 0..n
    BY <2>2, MaxOfBounded
  <2>4. /\ Generation(r).state = "assembling" /\ Generation(r).generation = 1 + Max(S)
    <3> HIDE DEF S
    <3>1. Generation(r) = [conv |-> Target, route |-> r, state |-> "assembling",
                           context |-> Conversation.context, refs |-> {}, opening |-> FALSE,
                           generation |-> 1 + Max(S)]
      BY <1>2, Zenon DEF Generation, S
    <3> QED
      BY <3>1
  <2> HIDE DEF S
  <2> QED
    BY <2>3, <2>4 DEF RouteAssemblyStates, ActiveStates
<1> QED
  BY <1>1, <1>2

\* What the handler writes for a route of its own.
LEMMA PlanTyped ==
  ASSUME SigIInv, SigTyped, handler.event # 0, NEW r \in handler.routes, NEW n \in Nat,
         \A a \in asms : a.generation <= n
  PROVE  /\ LET a == Plan(r).assembly
            IN  /\ a.conv = Target /\ a.route \in Routes /\ a.state \in RouteAssemblyStates
                /\ a.generation \in Nat \ {0} /\ a.generation <= n + 1
         /\ \A i \in Plan(r).intents :
              i.route \in Routes /\ i.conv = Target /\ i.event \in DOMAIN stream
<1>1. r \in Routes /\ handler.event \in DOMAIN stream
  BY DEF SigTyped, SigIInv, WorkShaped
<1> DEFINE g == Generation(r)
           merged == merge_generation_context(g.context, Update, g.opening)
           revision == 1 + Max({0} \cup {ref[2] : ref \in {x \in g.refs : x[1] = Event.message}})
           kept == [g EXCEPT !.context = merged, !.refs = @ \cup {<<Event.message, revision>>}]
<1>2. \/ Plan(r).assembly = [kept EXCEPT !.state = "skipped"]
      \/ Plan(r).assembly = mark_generation_submitted(kept)
      \/ Plan(r).assembly = kept
  BY Zenon DEF Plan
<1>3. DOMAIN g = AsmFields /\ g.conv = Target /\ g.route = r
  BY GenerationShape
<1>4. /\ g.state \in RouteAssemblyStates /\ g.generation \in Nat \ {0} /\ g.generation <= n + 1
  BY GenerationTyped
<1>5. \A i \in Plan(r).intents : i.route = r /\ i.conv = Target /\ i.event = handler.event
  <2> SUFFICES ASSUME NEW i \in Plan(r).intents
               PROVE  i.route = r /\ i.conv = Target /\ i.event = handler.event
    OBVIOUS
  <2>1. PICK meaning, rev : PlanSays(r, meaning, rev)
    BY PlanOfRoute, Zenon
  <2>2. PICK t : i = PlannedIntent(r, meaning, rev, t)
    BY <2>1, Zenon DEF PlanSays
  <2> QED
    BY <2>2 DEF PlannedIntent
<1> HIDE DEF g, merged, revision
<1>6. /\ DOMAIN kept = AsmFields /\ kept.conv = Target /\ kept.route = r
      /\ kept.state = g.state /\ kept.generation = g.generation
  BY <1>3 DEF AsmFields
<1> HIDE DEF kept
<1>7. LET a == Plan(r).assembly
      IN  /\ a.conv = Target /\ a.route = r /\ a.generation = g.generation
          /\ a.state \in {g.state, "skipped", "executing"}
  BY <1>2, <1>6 DEF AsmFields, mark_generation_submitted
<1> QED
  BY <1>1, <1>4, <1>5, <1>7 DEF RouteAssemblyStates, ActiveStates

LEMMA CommitTyped ==
  ASSUME SigIInv, SigTyped, NEW on \in SUBSET handler.routes, NEW acknowledged,
         CommitSignal(on, acknowledged)
  PROVE  SigTyped'
<1> DEFINE plans == [r \in on |-> Plan(r)]
           n == Max({Target, Len(convs)})
<1>1. /\ convs' = [c \in 1..n |-> IF c = Target THEN Conversation ELSE convs[c]]
      /\ asms' = (asms \ UNION {Current(r) : r \in on}) \cup {Plan(r).assembly : r \in on}
      /\ intents' = intents \cup All(plans, "intents")
      /\ handler' = NoHandler /\ UNCHANGED <<stream, trades, stale>> /\ handler.event # 0
  <2>1. /\ Write(plans) /\ handler' = NoHandler /\ UNCHANGED <<stream, trades, stale>>
        /\ handler.event # 0
    BY Zenon DEF CommitSignal
  <2>2. asms' = (asms \ UNION {Current(r) : r \in DOMAIN plans}) \cup {plans[r].assembly : r \in DOMAIN plans}
    BY <2>1, Zenon DEF Write
  <2>3. asms' = (asms \ UNION {Current(r) : r \in on}) \cup {Plan(r).assembly : r \in on}
    BY <2>2
  <2> QED
    BY <2>1, <2>3, Zenon DEF Write
<1>2. PICK latest \in Nat : \A a \in asms : a.generation <= latest
  BY DEF SigTyped, Numbered
<1>3. /\ \A a \in asms' : a \in asms \/ \E r \in on : a = Plan(r).assembly
      /\ \A i \in intents' : i \in intents \/ \E r \in on : i \in Plan(r).intents
  BY <1>1, PlansAdd
<1>4. /\ DOMAIN convs' = 1..n /\ Target \in DOMAIN convs' /\ DOMAIN convs \subseteq DOMAIN convs'
      /\ \A c \in DOMAIN convs' : \/ convs'[c] = Conversation
                                  \/ c \in DOMAIN convs /\ convs'[c] = convs[c]
  <2>1. /\ n \in Nat /\ Target \in 1..n /\ Len(convs) <= n
        /\ Len(convs) \in Nat /\ DOMAIN convs = 1..Len(convs)
        /\ \A c \in 1..n : c = Target \/ c \in DOMAIN convs
    BY <1>1, ConvsGrow
  <2> HIDE DEF n
  <2> QED
    BY <1>1, <2>1
<1>5. Conversation.state \in {"active", "expired"}
  <2>1. CASE Target \in DOMAIN convs
    BY <1>1, <2>1, ConversationShape DEF SigTyped
  <2>2. CASE Target \notin DOMAIN convs
    BY <2>2 DEF Conversation
  <2> QED
    BY <2>1, <2>2
<1>6. \A r \in on :
        /\ LET a == Plan(r).assembly
           IN  /\ a.conv = Target /\ a.route \in Routes /\ a.state \in RouteAssemblyStates
               /\ a.generation \in Nat \ {0} /\ a.generation <= latest + 1
        /\ \A i \in Plan(r).intents :
             i.route \in Routes /\ i.conv = Target /\ i.event \in DOMAIN stream
  <2> SUFFICES ASSUME NEW r \in on
               PROVE  /\ LET a == Plan(r).assembly
                         IN  /\ a.conv = Target /\ a.route \in Routes
                             /\ a.state \in RouteAssemblyStates
                             /\ a.generation \in Nat \ {0} /\ a.generation <= latest + 1
                      /\ \A i \in Plan(r).intents :
                           i.route \in Routes /\ i.conv = Target /\ i.event \in DOMAIN stream
    OBVIOUS
  <2>1. r \in handler.routes
    OBVIOUS
  <2> QED
    BY <1>1, <1>2, <2>1, PlanTyped
<1> HIDE DEF n, plans
<1>7. \A a \in asms' : AsmTyped(a)'
  BY <1>3, <1>4, <1>6 DEF SigTyped, AsmTyped
<1>8. \A i \in intents' : IntentTyped(i)'
  BY <1>1, <1>3, <1>4, <1>6 DEF SigTyped, IntentTyped
<1>9. Numbered'
  <2>1. \A a \in asms' : a.generation <= latest + 1
    BY <1>2, <1>3, <1>6 DEF SigTyped, AsmTyped
  <2> QED
    BY <2>1 DEF Numbered
<1>10. \A c \in DOMAIN convs' : convs'[c].state \in {"active", "expired"}
  BY <1>4, <1>5 DEF SigTyped
<1>11. handler'.routes \subseteq Routes /\ trades' \subseteq intents' /\ stale' \subseteq Messages
  BY <1>1 DEF SigTyped, NoHandler
<1> QED
  BY <1>7, <1>8, <1>9, <1>10, <1>11 DEF SigTyped

\* Assemblies and conversations that are marked as expired.
LEMMA ExpiredTyped ==
  ASSUME SigIInv, SigTyped, UNCHANGED <<stream, handler, intents, trades, stale>>,
         DOMAIN convs' = DOMAIN convs,
         \A c \in DOMAIN convs : convs'[c] \in {convs[c], [convs[c] EXCEPT !.state = "expired"]},
         \A a \in asms' : a \in asms \/ \E b \in asms : a = mark_generation_expired(b)
  PROVE  SigTyped'
<1>1. \A c \in DOMAIN convs' : convs'[c].state \in {"active", "expired"}
  BY DEF SigTyped, SigIInv, ConvsShaped, ConvFields
<1>2. \A b \in asms : LET a == mark_generation_expired(b)
                      IN  /\ a.conv = b.conv /\ a.route = b.route /\ a.generation = b.generation
                          /\ a.state = "expired"
  BY DEF SigIInv, AsmsShaped, AsmFields, mark_generation_expired
<1>3. \A a \in asms' : \E b \in asms : /\ a.conv = b.conv /\ a.route = b.route
                                       /\ a.generation = b.generation
                                       /\ a.state \in {b.state, "expired"}
  BY <1>2
<1>4. \A a \in asms' : AsmTyped(a)'
  BY <1>3 DEF SigTyped, AsmTyped, RouteAssemblyStates
<1>5. Numbered'
  BY <1>3 DEF SigTyped, Numbered
<1>6. \A i \in intents' : IntentTyped(i)'
  BY DEF SigTyped, IntentTyped
<1> QED
  BY <1>1, <1>4, <1>5, <1>6 DEF SigTyped

LEMMA SameTyped ==
  ASSUME SigTyped, UNCHANGED <<stream, convs, asms, intents>>, trades' \subseteq intents,
         stale' \subseteq Messages, handler'.routes \subseteq Routes
  PROVE  SigTyped'
<1>1. Numbered' /\ \A a \in asms' : AsmTyped(a)'
  BY DEF SigTyped, AsmTyped, Numbered
<1>2. \A i \in intents' : IntentTyped(i)'
  BY DEF SigTyped, IntentTyped
<1> QED
  BY <1>1, <1>2 DEF SigTyped

LEMMA SigTypedStep ==
  ASSUME SigIInv, SigTyped, [SigNext]_sigVars
  PROVE  SigTyped'
<1>0. /\ handler.routes \subseteq Routes /\ NoHandler.routes \subseteq Routes
      /\ trades \subseteq intents /\ stale \subseteq Messages
  BY DEF SigTyped, NoHandler
<1>1. ASSUME NEW e \in DOMAIN stream, SkipEvent(e) PROVE SigTyped'
  BY <1>0, <1>1, SameTyped DEF SkipEvent, Settle
<1>2. ASSUME NEW e \in DOMAIN stream, HandleDeleted(e) PROVE SigTyped'
  <2>1. \A a \in asms' : a \in asms \/ \E b \in asms : a = mark_generation_expired(b)
    BY <1>2 DEF HandleDeleted
  <2>2. UNCHANGED <<stream, handler, convs, intents, trades, stale>>
    BY <1>2 DEF HandleDeleted
  <2> QED
    BY <2>1, <2>2, ExpiredTyped
<1>3. ASSUME NEW e \in DOMAIN stream, NEW rs \in SUBSET Routes, Begin(e, rs) PROVE SigTyped'
  <2>1. handler'.routes = rs /\ UNCHANGED <<stream, convs, asms, intents, trades, stale>>
    BY <1>3 DEF Begin
  <2> QED
    BY <1>0, <2>1, SameTyped
<1>4. ASSUME NEW on, RollBack(on) PROVE SigTyped'
  BY <1>0, <1>4, SameTyped DEF RollBack
<1>5. CASE DeadLetterSignal
  BY <1>0, <1>5, SameTyped DEF DeadLetterSignal, Settle
<1>6. ASSUME NEW S \in SUBSET asms, ExpireSignals(S) PROVE SigTyped'
  <2> DEFINE after == (asms \ S) \cup {mark_generation_expired(a) : a \in S}
             over == {a.conv : a \in S} \ {a.conv : a \in {b \in after : StillActive(b.state)}}
  <2>1. /\ asms' = after /\ UNCHANGED <<stream, handler, intents, trades, stale>>
        /\ convs' = [c \in DOMAIN convs |-> IF c \in over THEN [convs[c] EXCEPT !.state = "expired"]
                                            ELSE convs[c]]
    BY <1>6, Zenon DEF ExpireSignals
  <2>2. \A a \in asms' : a \in asms \/ \E b \in asms : a = mark_generation_expired(b)
    BY <2>1
  <2> HIDE DEF over
  <2>3. /\ DOMAIN convs' = DOMAIN convs
        /\ \A c \in DOMAIN convs : convs'[c] \in {convs[c], [convs[c] EXCEPT !.state = "expired"]}
    BY <2>1
  <2> QED
    BY <2>1, <2>2, <2>3, ExpiredTyped
<1>7. ASSUME NEW i \in intents, TradeOpens(i) PROVE SigTyped'
  BY <1>0, <1>7, SameTyped DEF TradeOpens
<1>8. ASSUME NEW m \in Messages, GetsOld(m) PROVE SigTyped'
  BY <1>0, <1>8, SameTyped DEF GetsOld
<1>9. ASSUME NEW k, MeaningLapses(k) PROVE SigTyped'
  BY <1>0, <1>9, SameTyped DEF MeaningLapses
<1>10. CASE UNCHANGED sigVars
  BY <1>0, <1>10, SameTyped DEF sigVars
<1> QED
  BY <1>1, <1>2, <1>3, <1>4, <1>5, <1>6, <1>7, <1>8, <1>9, <1>10, CommitTyped DEF SigNext

\* Conversations, assemblies, intents and trades keep their types: an assembly
\* and an intent belong to a conversation that exists, of a route of the source
\* (signal_handler), whatever expires, fails or is deleted beside the handler.
THEOREM SigTypeCorrect == SigSpec => []SigTypeOK
<1>1. SigInit => SigTyped
  <2> SUFFICES ASSUME SigInit PROVE SigTyped
    OBVIOUS
  <2>1. DOMAIN convs = {} /\ asms = {}
    BY DEF SigInit
  <2>2. Numbered
    BY <2>1 DEF Numbered
  <2> QED
    BY <2>1, <2>2 DEF SigInit, SigTyped, NoHandler
<1>2. SigIInv /\ SigTyped => SigTypeOK
  <2> SUFFICES ASSUME SigIInv, SigTyped PROVE SigTypeOK
    OBVIOUS
  <2>1. stream \in [1..MaxEvents -> Events] /\ MaxEvents \in Nat
    BY SignalAssumption DEF SigIInv, WorkShaped
  <2>2. Len(stream) = MaxEvents
    BY <2>1, LenOfFunction
  <2>3. \A e \in DOMAIN stream : /\ stream[e].type \in {"created", "edited", "deleted"}
                                 /\ stream[e].message \in Messages
    BY <2>1 DEF Events
  <2>4. settled \subseteq DOMAIN stream /\ handler.event \in 0..Len(stream) /\ crashes \in 0..MaxCrashes
    BY <2>1, <2>2 DEF SigIInv, WorkShaped
  <2> QED
    BY <2>3, <2>4 DEF SigTyped, AsmTyped, IntentTyped, SigTypeOK
<1>3. SigIInv /\ SigTyped /\ [SigNext]_sigVars => SigIInv' /\ SigTyped'
  BY SigTypedStep, SigNextIInv
<1> QED
  BY <1>1, <1>2, <1>3, SigInitIInv, PTL DEF SigSpec

-----------------------------------------------------------------------------
(***************************************************************************)
(* The rules, for every set of cases.                                      *)
(***************************************************************************)
\* A volume rounded down to the broker's steps lies in the broker's range, and
\* is no more than was asked unless less than the least was asked.
LEMMA RoundedVolume ==
  ASSUME NEW v \in Int, NEW s, s.min \in Nat, s.max \in Nat, s.min <= s.max, s.step \in Nat \ {0}
  PROVE  /\ normalize_volume(v, s) \in s.min .. s.max
         /\ v >= s.min => normalize_volume(v, s) <= v
<1> DEFINE b == Smaller(Larger(v, s.min), s.max)
           d == (b \div s.step) * s.step
<1>1. b \in s.min .. s.max /\ (v >= s.min => b <= v)
  BY DEF Smaller, Larger
<1>2. d \in Int /\ d <= b
  <2> HIDE DEF b
  <2>1. b \in Int /\ s.step \in Int /\ s.step > 0
    BY <1>1
  <2> QED
    BY <2>1, SMTT(60)
<1> HIDE DEF b, d
<1>3. normalize_volume(v, s) = Larger(s.min, Smaller(d, s.max))
  BY DEF normalize_volume, b, d
<1> QED
  BY <1>1, <1>2, <1>3 DEF Smaller, Larger

\* The hours of the trading window, around midnight.
LEMMA WindowHours ==
  ASSUME NEW hour \in 0..23, NEW start \in 0..23, NEW end \in 0..23, start # end,
         within_trading_hours(hour, start, end), None \notin 0..23
  PROVE  \E k \in 0..(((end + 24 - start) % 24) - 1) : hour = (start + k) % 24
<1>1. CASE start < end /\ start <= hour /\ hour < end
  <2> DEFINE n == (end + 24 - start) % 24
             k == hour - start
  <2>1. n = end - start
    BY <1>1
  <2>2. k \in 0..(end - start - 1) /\ hour = (start + k) % 24
    BY <1>1
  <2> HIDE DEF n, k
  <2>3. k \in 0..(n - 1)
    BY <2>1, <2>2
  <2>4. \E j \in 0..(n - 1) : hour = (start + j) % 24
    BY <2>2, <2>3
  <2> QED
    BY <2>4 DEF n
<1>2. CASE start > end /\ hour >= start
  <2> DEFINE n == (end + 24 - start) % 24
             k == hour - start
  <2>1. n = end + 24 - start
    BY <1>2
  <2>2. k \in 0..(end + 24 - start - 1) /\ hour = (start + k) % 24
    BY <1>2
  <2> HIDE DEF n, k
  <2>3. k \in 0..(n - 1)
    BY <2>1, <2>2
  <2>4. \E j \in 0..(n - 1) : hour = (start + j) % 24
    BY <2>2, <2>3
  <2> QED
    BY <2>4 DEF n
<1>3. CASE start > end /\ hour < end
  <2> DEFINE n == (end + 24 - start) % 24
             k == hour + 24 - start
  <2>1. n = end + 24 - start
    BY <1>3
  <2>2. k \in 0..(end + 24 - start - 1) /\ hour = (start + k) % 24
    BY <1>3
  <2> HIDE DEF n, k
  <2>3. k \in 0..(n - 1)
    BY <2>1, <2>2
  <2>4. \E j \in 0..(n - 1) : hour = (start + j) % 24
    BY <2>2, <2>3
  <2> QED
    BY <2>4 DEF n
<1> QED
  BY <1>1, <1>2, <1>3 DEF within_trading_hours

\* The broker symbol found for an allowed symbol is itself allowed.
LEMMA ResolvedIsAllowed ==
  ASSUME NEW requested, NEW catalog, NEW configured, resolve_symbol(requested, catalog) # None,
         matches_symbol_list(requested, configured)
  PROVE  matches_symbol_list(resolve_symbol(requested, catalog).name, configured)
<1> DEFINE tradable == {s \in catalog : s.tradable}
           exact == {s \in tradable : s.name = requested}
           matches == {s \in tradable : s.name[1] = requested[1] /\ requested[2] \in {0, s.name[2]}}
           closest == {s \in matches : \A t \in matches : s.name[2] <= t.name[2]}
           found == resolve_symbol(requested, catalog)
<1>1. found = IF exact # {} THEN IF One(exact) THEN Only(exact) ELSE None
              ELSE IF One(closest) THEN Only(closest) ELSE None
  BY Zenon DEF resolve_symbol
<1>2. One(exact) => Only(exact) \in exact
  BY OneIsSome
<1>3. One(closest) => Only(closest) \in closest
  BY OneIsSome
<1>4. found \in exact \/ found \in closest
  <2> HIDE DEF exact, closest, found
  <2> QED
    BY <1>1, <1>2, <1>3 DEF found
<1>5. found.name = requested \/ (found.name[1] = requested[1] /\ requested[2] \in {0, found.name[2]})
  <2> HIDE DEF found
  <2> QED
    BY <1>4
<1> HIDE DEF found
<1> QED
  BY <1>5 DEF matches_symbol_list, found

\* An order that passes check_execution_quality and the account's limits still
\* keeps to them as the broker gets it, in its steps and under its symbol: for
\* all volumes, steps, limits, hours, catalogues and symbol lists.
LEMMA OrderKeepsLimits ==
  ASSUME NEW c, IsOrder(c), None \notin 0..23,
         Quality(c) = "good", Risk(c) = "within", Resolved(c) # None
  PROVE  KeepsLimits(c)
<1> DEFINE sent == normalize_volume(c.volume, c.spec)
           start == c.quality.start
           end == c.quality.end
<1>1. within_trading_hours(c.hour, start, end)
  BY DEF Quality, check_execution_quality
<1>2. /\ ~(c.volume > c.limits.max_lot_per_trade) /\ ~(c.exposure + c.volume > c.limits.max_lot)
      /\ c.limits.allowed_symbols # {} => matches_symbol_list(c.requested, c.limits.allowed_symbols)
  BY DEF Risk, ensure_account_risk_within_limits
<1>3. start = None \/ end = None \/ start = end \/ c.hour \in Window(start, end)
  <2> SUFFICES ASSUME start # None, end # None, start # end
               PROVE  c.hour \in Window(start, end)
    OBVIOUS
  <2>1. start \in 0..23 /\ end \in 0..23 /\ c.hour \in 0..23
    BY SMTT(30) DEF IsOrder
  <2>2. \E k \in 0..(((end + 24 - start) % 24) - 1) : c.hour = (start + k) % 24
    <3> HIDE DEF start, end
    <3> QED
      BY <1>1, <2>1, WindowHours, Zenon
  <2> QED
    BY <2>2, Zenon DEF Window
<1>4. sent \in c.spec.min .. c.spec.max /\ (c.volume >= c.spec.min => sent <= c.volume)
  <2>1. /\ c.volume \in Int /\ c.spec.min \in Nat /\ c.spec.max \in Nat /\ c.spec.min <= c.spec.max
        /\ c.spec.step \in Nat \ {0}
    BY Zenon DEF IsOrder
  <2> QED
    BY <2>1, RoundedVolume, Zenon
<1>5. c.limits.allowed_symbols # {} => matches_symbol_list(Resolved(c).name, c.limits.allowed_symbols)
  BY <1>2, ResolvedIsAllowed DEF Resolved
<1>6. c.volume >= c.spec.min => sent <= c.limits.max_lot_per_trade /\ c.exposure + sent <= c.limits.max_lot
  <2> HIDE DEF sent
  <2> QED
    BY <1>2, <1>4 DEF IsOrder
<1> QED
  BY <1>3, <1>4, <1>5, <1>6, Zenon DEF KeepsLimits

\* An order that passes its checks keeps to them as the broker gets it, in every
\* set of orders.
THEOREM OrderStaysWithinLimitsHolds == CaseSpec => []OrderStaysWithinLimits
<1>1. OrderStaysWithinLimits
  <2> SUFFICES ASSUME input \in Orders, Quality(input) = "good", Risk(input) = "within",
                      Resolved(input) # None
               PROVE  OrderStaysWithinLimits
    BY DEF OrderStaysWithinLimits
  <2>1. IsOrder(input) /\ None \notin 0..23
    BY CasesAssumption, Zenon
  <2> QED
    BY <2>1, OrderKeepsLimits, Zenon DEF OrderStaysWithinLimits
<1> QED
  BY <1>1, PTL

-----------------------------------------------------------------------------
\* A fold adds up equal lots: as many of them as there are legs.
LEMMA EqualLotsAddUp ==
  ASSUME NEW n \in Nat, NEW legs, DOMAIN legs = 1..n, NEW lot \in Int, \A i \in 1..n : legs[i].lot = lot
  PROVE  FoldSeq(LAMBDA leg, sum : leg.lot + sum, 0, legs) = n * lot
<1> DEFINE Some(s) == CHOOSE x \in s : TRUE
           Step(g) == [s \in SUBSET (1..n) |->
                         IF s = {} THEN 0 ELSE legs[Some(s)].lot + g[s \ {Some(s)}]]
           Added == [s \in SUBSET (1..n) |-> Cardinality(s) * lot]
           sums == CHOOSE g : g = Step(g)
<1>1. FoldSeq(LAMBDA leg, sum : leg.lot + sum, 0, legs) = sums[1..n]
  BY DEF FoldSeq, FoldFunction, FoldFunctionOnSet, MapThenFoldSet
<1>2. IsFiniteSet(1..n) /\ Cardinality(1..n) = n
  <2>1. 1 \in Int /\ n \in Int
    OBVIOUS
  <2>2. IsFiniteSet(1..n) /\ Cardinality(1..n) = IF 1 > n THEN 0 ELSE n - 1 + 1
    BY <2>1, FS_Interval, Zenon
  <2> QED
    BY <2>2
<1>sizes. ASSUME NEW s \in SUBSET (1..n) PROVE IsFiniteSet(s) /\ Cardinality(s) \in Nat
  BY <1>2, FS_Subset, FS_CardinalityType, Zenon
\* One leg more.
<1>3. ASSUME NEW s \in SUBSET (1..n), s # {}
      PROVE  /\ Some(s) \in s /\ legs[Some(s)].lot = lot
             /\ s \ {Some(s)} \in SUBSET (1..n)
             /\ Cardinality(s) \in Nat \ {0} /\ Cardinality(s \ {Some(s)}) = Cardinality(s) - 1
  <2>1. Some(s) \in s
    BY <1>3
  <2> HIDE DEF Some
  <2>2. IsFiniteSet(s)
    BY <1>sizes
  <2>3. Cardinality(s) \in Nat
    BY <1>sizes
  <2>4. Cardinality(s \ {Some(s)}) = IF Some(s) \in s THEN Cardinality(s) - 1 ELSE Cardinality(s)
    BY <2>2, FS_RemoveElement, Zenon
  <2>5. Cardinality(s) # 0
    BY <1>3, <2>2, FS_EmptySet, Zenon
  <2> QED
    BY <2>1, <2>3, <2>4, <2>5
<1>4. Cardinality({}) = 0
  BY FS_EmptySet, Zenon
<1> HIDE DEF Some
<1>5. Added = Step(Added)
  <2> SUFFICES ASSUME NEW s \in SUBSET (1..n)
               PROVE  Cardinality(s) * lot
                        = IF s = {} THEN 0 ELSE legs[Some(s)].lot + Cardinality(s \ {Some(s)}) * lot
    BY <1>3
  <2>1. CASE s = {}
    BY <2>1, <1>4
  <2>2. CASE s # {}
    <3> DEFINE c == Cardinality(s)
    <3>1. c \in Nat \ {0} /\ Cardinality(s \ {Some(s)}) = c - 1 /\ legs[Some(s)].lot = lot
      BY <2>2, <1>3
    <3> HIDE DEF c
    <3>2. c * lot = lot + (c - 1) * lot
      BY <3>1
    <3> QED
      BY <2>2, <3>1, <3>2 DEF c
  <2> QED
    BY <2>1, <2>2
<1>6. sums = Step(sums)
  <2> HIDE DEF Added, Step
  <2> QED
    BY <1>5, Zenon
<1> HIDE DEF sums
\* The least set on which the fold would differ is not empty, so it is one
\* more than a set on which it agrees.
<1>7. \A s \in SUBSET (1..n) : sums[s] = Cardinality(s) * lot
  <2> DEFINE Bad == {s \in SUBSET (1..n) : sums[s] # Cardinality(s) * lot}
             Sizes == {Cardinality(s) : s \in Bad}
  <2> SUFFICES ASSUME Bad # {} PROVE FALSE
    OBVIOUS
  <2>1. Sizes \subseteq Nat /\ Sizes # {}
    <3>1. \A s \in SUBSET (1..n) : Cardinality(s) \in Nat
      BY <1>sizes
    <3> QED
      BY <3>1
  <2> HIDE DEF Sizes
  <2>2. PICK m \in Sizes : \A y \in Sizes : m <= y
    BY <2>1, MinOfNats, Zenon
  <2>3. PICK s \in Bad : Cardinality(s) = m
    BY <2>2 DEF Sizes
  <2>4. s # {}
    <3>1. sums[{}] = 0
      BY <1>6
    <3>2. Cardinality({}) * lot = 0
      BY <1>4
    <3> QED
      BY <2>3, <3>1, <3>2
  <2> DEFINE r == s \ {Some(s)}
             c == Cardinality(s)
  <2>5. /\ r \in SUBSET (1..n) /\ legs[Some(s)].lot = lot
        /\ c \in Nat \ {0} /\ Cardinality(r) = c - 1
    BY <1>3, <2>3, <2>4
  <2>6. sums[s] = lot + sums[r]
    BY <1>6, <2>3, <2>4, <2>5
  <2>7. r \notin Bad
    <3>1. r \in Bad => Cardinality(r) \in Sizes
      BY DEF Sizes
    <3> QED
      BY <2>2, <2>3, <2>5, <3>1
  <2>8. sums[r] = (c - 1) * lot
    BY <2>5, <2>7
  <2>9. lot + (c - 1) * lot = c * lot
    <3> HIDE DEF c
    <3> QED
      BY <2>5
  <2> QED
    BY <2>3, <2>6, <2>8, <2>9
<1> QED
  BY <1>1, <1>2, <1>7

\* A lot that a number of legs divides is the sum of its shares.
LEMMA SharesAddUp ==
  ASSUME NEW lot \in Nat, NEW n \in Nat \ {0}, lot % n = 0
  PROVE  lot \div n \in Int /\ n * (lot \div n) = lot
OBVIOUS

\* So many legs, of one lot each, and the volume they come to.
EvenLegs(c, action, n, lot) ==
    /\ DOMAIN Legs(c, action) = 1..n
    /\ \A i \in 1..n : Legs(c, action)[i].lot = lot
    /\ n * lot = Volume(c, action)

\* The legs of an opening signal have one lot, whatever its targets, the mode
\* and the distribution.
LEMMA LegsAreEven ==
  ASSUME NEW c, IsSized(c), NEW action \in OPENING_ACTIONS
  PROVE  \E n \in Nat, lot \in Int : EvenLegs(c, action, n, lot)
<1> DEFINE tps == c.targets
           count == Len(tps)
           split == c.distribution = "split_total"
           one == c.mode \in {"lowest", "highest"}
<1>1. Volume(c, action) = IF split \/ one \/ count = 0 THEN c.lot ELSE c.lot * count
  BY DEF Volume, signal_volume_for_action, calculate_signal_volume
<1>2. /\ tps \in Seq(Int) /\ count \in Nat /\ (tps = <<>> <=> count = 0) /\ c.lot \in Nat
      /\ count > 1 => c.lot % count = 0
  <2>1. tps \in Seq(Int) /\ c.lot \in Nat /\ (count > 1 => c.lot % count = 0)
    BY Zenon DEF IsSized
  <2> QED
    BY <2>1
<1>3. CASE tps = <<>>
  <2>1. Legs(c, action) = <<[take_profit |-> None, lot |-> c.lot]>>
    BY <1>3 DEF Legs, intent_legs_for_action
  <2>2. EvenLegs(c, action, 1, c.lot)
    BY <1>1, <1>2, <1>3, <2>1 DEF EvenLegs
  <2> QED
    BY <1>2, <2>2
<1>4. CASE tps # <<>>
  <2> DEFINE S == ToSet(tps)
             lowest == CHOOSE t \in S : \A u \in S : t <= u
             highest == CHOOSE t \in S : \A u \in S : t >= u
             selected == CASE c.mode = "lowest" -> <<lowest>>
                           [] c.mode = "highest" -> <<highest>>
                           [] OTHER -> tps
             n == Len(selected)
             lot == IF split /\ n > 1 THEN c.lot \div n ELSE c.lot
  <2>1. Legs(c, action) = [i \in 1..n |-> [take_profit |-> selected[i], lot |-> lot]]
    BY <1>4 DEF Legs, intent_legs_for_action, build_tp_legs
  <2> HIDE DEF lowest, highest
  <2>2. n = IF one THEN 1 ELSE count
    OBVIOUS
  <2> HIDE DEF selected, count, tps, split, one
  <2>3. n \in Nat \ {0}
    BY <1>2, <1>4, <2>2
  <2> HIDE DEF n
  <2>4. CASE split /\ n > 1
    <3>1. n = count /\ c.lot % n = 0
      BY <1>2, <2>2, <2>3, <2>4
    <3>2. lot = c.lot \div n /\ lot \in Int /\ n * lot = c.lot
      BY <1>2, <2>3, <2>4, <3>1, SharesAddUp
    <3>3. Volume(c, action) = c.lot
      BY <1>1, <2>4
    <3> HIDE DEF lot
    <3>4. EvenLegs(c, action, n, lot)
      BY <2>1, <3>2, <3>3 DEF EvenLegs
    <3> QED
      BY <2>3, <3>2, <3>4
  <2>5. CASE ~split \/ n = 1
    <3>1. lot = c.lot
      BY <2>5
    <3>2. Volume(c, action) = n * c.lot
      <4>1. CASE one
        BY <1>1, <1>2, <2>2, <4>1
      <4>2. CASE ~one
        BY <1>1, <1>2, <2>2, <2>3, <2>5, <4>2
      <4> QED
        BY <4>1, <4>2
    <3> HIDE DEF lot
    <3>3. EvenLegs(c, action, n, c.lot)
      BY <2>1, <3>1, <3>2 DEF EvenLegs
    <3> QED
      BY <1>2, <2>3, <3>3
  <2> QED
    BY <2>3, <2>4, <2>5
<1> QED
  BY <1>3, <1>4

\* The legs of a signal add up to the volume that its limits are checked with.
THEOREM LegsAddUpHolds == CaseSpec => []LegsAddUp
<1>1. LegsAddUp
  <2> SUFFICES ASSUME input \in Sized, NEW action \in OPENING_ACTIONS
               PROVE  FoldSeq(LAMBDA leg, sum : leg.lot + sum, 0, Legs(input, action))
                        = Volume(input, action)
    BY Zenon DEF LegsAddUp
  <2>1. IsSized(input)
    BY CasesAssumption
  <2>2. PICK n \in Nat, lot \in Int : EvenLegs(input, action, n, lot)
    BY <2>1, LegsAreEven, Zenon
  <2> DEFINE legs == Legs(input, action)
  <2>3. /\ DOMAIN legs = 1..n /\ \A i \in 1..n : legs[i].lot = lot
        /\ n * lot = Volume(input, action)
    BY <2>2 DEF EvenLegs
  <2> HIDE DEF legs
  <2>4. FoldSeq(LAMBDA leg, sum : leg.lot + sum, 0, legs) = n * lot
    BY <2>3, EqualLotsAddUp, Zenon
  <2> QED
    BY <2>3, <2>4, Zenon DEF legs
<1> QED
  BY <1>1, PTL

-----------------------------------------------------------------------------
\* The members of a set of positions, and the last of them.
LEMMA LastPosition ==
  ASSUME NEW n \in Nat, NEW s \in SUBSET (1..n)
  PROVE  /\ Cardinality(s) \in Nat /\ Cardinality(s) <= n
         /\ Cardinality(s) = 0 <=> s = {}
         /\ s # {} => /\ Max(s) \in s
                      /\ Cardinality(s \ {Max(s)}) = Cardinality(s) - 1
<1>1. IsFiniteSet(1..n) /\ Cardinality(1..n) = n
  <2>1. 1 \in Int /\ n \in Int
    OBVIOUS
  <2>2. IsFiniteSet(1..n) /\ Cardinality(1..n) = IF 1 > n THEN 0 ELSE n - 1 + 1
    BY <2>1, FS_Interval, Zenon
  <2> QED
    BY <2>2
<1>2. IsFiniteSet(s) /\ Cardinality(s) <= n
  BY <1>1, FS_Subset, Zenon
<1>3. Cardinality(s) \in Nat
  BY <1>2, FS_CardinalityType, Zenon
<1>4. Cardinality(s) = 0 <=> s = {}
  BY <1>2, FS_EmptySet, Zenon
<1>5. ASSUME s # {} PROVE Max(s) \in s
  <2>1. s \subseteq 0..n
    OBVIOUS
  <2> QED
    BY <1>5, <2>1, MaxOfBounded, Zenon
<1>6. ASSUME s # {} PROVE Cardinality(s \ {Max(s)}) = Cardinality(s) - 1
  <2>1. Cardinality(s \ {Max(s)}) = IF Max(s) \in s THEN Cardinality(s) - 1 ELSE Cardinality(s)
    BY <1>2, FS_RemoveElement, Zenon
  <2> QED
    BY <1>5, <1>6, <2>1
<1> QED
  BY <1>2, <1>3, <1>4, <1>5, <1>6

\* One member more.
LEMMA OneMore ==
  ASSUME NEW q \in Seq(Int), NEW y \in Int
  PROVE  Append(q, y) \in Seq(Int) /\ ToSet(Append(q, y)) = ToSet(q) \cup {y}
<1>1. Append(q, y) \in Seq(Int) /\ Len(Append(q, y)) = Len(q) + 1
  OBVIOUS
<1>2. ASSUME NEW i \in 1..Len(q) PROVE Append(q, y)[i] = q[i]
  OBVIOUS
<1>3. Append(q, y)[Len(q) + 1] = y
  OBVIOUS
<1> QED
  BY <1>1, <1>2, <1>3 DEF ToSet

\* A sequence without its repetitions has the members of the sequence.
LEMMA DistinctMembers ==
  ASSUME NEW t \in Seq(Int)
  PROVE  Distinct(t) \in Seq(Int) /\ ToSet(Distinct(t)) = ToSet(t)
<1> DEFINE n == Len(t)
           Add(seen, x) == IF x \in ToSet(seen) THEN seen ELSE Append(seen, x)
           Small(k) == {s \in SUBSET (1..n) : Cardinality(s) <= k}
           StepTo(k, g) == [s \in Small(k) |->
                              IF s = {} THEN <<>> ELSE Add(g[s \ {Max(s)}], t[Max(s)])]
           Step(g) == [s \in SUBSET (1..n) |->
                         IF s = {} THEN <<>> ELSE Add(g[s \ {Max(s)}], t[Max(s)])]
           fold == CHOOSE g : g = Step(g)
<1>1. DOMAIN t = 1..n /\ n \in Nat
  OBVIOUS
<1>2. Distinct(t) = fold[1..n]
  BY <1>1 DEF Distinct, FoldLeft, MapThenFoldSet
<1>3. \A s \in SUBSET (1..n) : /\ Cardinality(s) \in Nat /\ Cardinality(s) <= n
                               /\ (Cardinality(s) = 0 <=> s = {})
                               /\ s # {} => /\ Max(s) \in s
                                            /\ Cardinality(s \ {Max(s)}) = Cardinality(s) - 1
  <2> HIDE DEF n
  <2> QED
    BY <1>1, LastPosition, Zenon
<1>sizes. \A s \in SUBSET (1..n) : Cardinality(s) \in Nat /\ Cardinality(s) <= n
  BY <1>3, Zenon
<1> HIDE DEF n, Add
\* A fold over the sets of some size gives one over the sets of one size more.
<1>4. \A k \in 0..n : \E g : g = StepTo(k, g)
  <2> DEFINE Bad == {k \in 0..n : ~\E g : g = StepTo(k, g)}
  <2> SUFFICES ASSUME Bad # {} PROVE FALSE
    OBVIOUS
  <2> HIDE DEF StepTo
  <2>1. PICK k \in Bad : \A j \in Bad : k <= j
    <3>1. Bad \subseteq Nat
      BY <1>1
    <3> HIDE DEF Bad
    <3> QED
      BY <3>1, MinOfNats, Zenon
  <2>2. k \in 0..n /\ k \in Nat
    BY <1>1, <2>1
  <2>3. CASE k = 0
    <3> DEFINE g == [s \in Small(0) |-> <<>>]
    <3>1. ASSUME NEW s \in Small(0) PROVE s = {}
      <4>1. Cardinality(s) \in Nat /\ Cardinality(s) <= 0
        BY <1>3
      <4>2. Cardinality(s) = 0
        BY <4>1, <1>1
      <4> QED
        BY <1>3, <4>2
    <3>2. g = StepTo(0, g)
      <4> HIDE DEF Small
      <4> QED
        BY <3>1 DEF StepTo
    <3> QED
      BY <2>1, <2>3, <3>2
  <2>4. CASE k # 0
    <3>1. k - 1 \in 0..n /\ ~(k <= k - 1)
      BY <1>1, <2>2, <2>4
    <3>2. k - 1 \notin Bad
      BY <2>1, <3>1
    <3>3. PICK g : g = StepTo(k - 1, g)
      BY <3>1, <3>2
    <3> DEFINE h == [s \in Small(k) |->
                       IF s \in Small(k - 1) THEN g[s] ELSE Add(g[s \ {Max(s)}], t[Max(s)])]
    <3>4. ASSUME NEW s \in Small(k) PROVE s # {} => s \ {Max(s)} \in Small(k - 1)
      <4> SUFFICES ASSUME s # {} PROVE s \ {Max(s)} \in Small(k - 1)
        OBVIOUS
      <4>1. /\ s \in SUBSET (1..n) /\ Cardinality(s) \in Nat /\ Cardinality(s) <= k
            /\ Cardinality(s \ {Max(s)}) = Cardinality(s) - 1
        BY <1>3, Zenon
      <4>2. s \ {Max(s)} \in SUBSET (1..n) /\ Cardinality(s \ {Max(s)}) <= k - 1
        <5> DEFINE size == Cardinality(s)
                   less == Cardinality(s \ {Max(s)})
        <5>1. size \in Nat /\ size <= k /\ less = size - 1
          BY <4>1
        <5> HIDE DEF size, less
        <5>2. less <= k - 1
          BY <2>2, <5>1
        <5> QED
          BY <4>1, <5>2 DEF less
      <4> QED
        BY <4>2
    <3>5. Small(k - 1) \subseteq Small(k) /\ {} \in Small(k - 1)
      <4>1. \A s \in SUBSET (1..n) : Cardinality(s) <= k - 1 => Cardinality(s) <= k
        <5> SUFFICES ASSUME NEW s \in SUBSET (1..n), Cardinality(s) <= k - 1 PROVE Cardinality(s) <= k
          OBVIOUS
        <5>1. Cardinality(s) \in Nat
          BY <1>sizes, Zenon
        <5> QED
          BY <2>2, <5>1
      <4>2. {} \in SUBSET (1..n) /\ Cardinality({}) = 0
        BY <1>3
      <4>3. 0 <= k - 1
        BY <2>2, <2>4
      <4> QED
        BY <4>1, <4>2, <4>3
    <3> HIDE DEF Small
    <3>6. \A s \in Small(k - 1) :
            g[s] = IF s = {} THEN <<>> ELSE Add(g[s \ {Max(s)}], t[Max(s)])
      BY <3>3 DEF StepTo
    <3>7. \A s \in Small(k) :
            h[s] = IF s = {} THEN <<>> ELSE Add(h[s \ {Max(s)}], t[Max(s)])
      <4> TAKE s \in Small(k)
      <4>1. CASE s = {}
        BY <3>5, <3>6, <4>1
      <4>2. CASE s # {}
        <5>1. s \ {Max(s)} \in Small(k - 1) /\ h[s \ {Max(s)}] = g[s \ {Max(s)}]
          BY <3>4, <3>5, <4>2
        <5>2. h[s] = Add(g[s \ {Max(s)}], t[Max(s)])
          BY <3>6, <4>2
        <5> QED
          BY <4>2, <5>1, <5>2
      <4> QED
        BY <4>1, <4>2
    <3>8. h = [s \in Small(k) |-> h[s]]
      OBVIOUS
    <3> HIDE DEF h
    <3>9. h = StepTo(k, h)
      BY <3>7, <3>8 DEF StepTo
    <3> QED
      BY <2>1, <3>9
  <2> QED
    BY <2>3, <2>4
<1>5. fold = Step(fold)
  <2>1. Small(n) = SUBSET (1..n)
    BY <1>sizes
  <2>2. n \in 0..n
    BY <1>1
  <2>3. PICK g : g = StepTo(n, g)
    BY <1>4, <2>2, Zenon
  <2> HIDE DEF Small
  <2>4. g = Step(g)
    BY <2>1, <2>3
  <2> HIDE DEF Step, StepTo
  <2> QED
    BY <2>4, Zenon
<1> HIDE DEF fold
\* The least set of positions for which it would be false is not empty.
<1>6. \A s \in SUBSET (1..n) : fold[s] \in Seq(Int) /\ ToSet(fold[s]) = {t[i] : i \in s}
  <2> DEFINE Good(s) == fold[s] \in Seq(Int) /\ ToSet(fold[s]) = {t[i] : i \in s}
             Bad == {s \in SUBSET (1..n) : ~Good(s)}
             Sizes == {Cardinality(s) : s \in Bad}
  <2> SUFFICES ASSUME Bad # {} PROVE FALSE
    OBVIOUS
  <2> HIDE DEF Good
  <2>1. Sizes \subseteq Nat /\ Sizes # {}
    <3>1. \A s \in SUBSET (1..n) : Cardinality(s) \in Nat
      BY <1>sizes
    <3> QED
      BY <3>1
  <2> HIDE DEF Sizes
  <2>2. PICK m \in Sizes : \A y \in Sizes : m <= y
    BY <2>1, MinOfNats, Zenon
  <2>3. PICK s \in Bad : Cardinality(s) = m
    BY <2>2 DEF Sizes
  <2>4. s \in SUBSET (1..n) /\ ~Good(s)
    OBVIOUS
  <2>5. s # {}
    <3>1. fold[{}] = <<>>
      BY <1>5
    <3>2. ToSet(<<>>) = {} /\ <<>> \in Seq(Int)
      BY DEF ToSet
    <3> QED
      BY <2>4, <3>1, <3>2 DEF Good
  <2> DEFINE x == Max(s)
             r == s \ {x}
  <2>6. x \in s /\ r \in SUBSET (1..n) /\ Cardinality(s) \in Nat /\ Cardinality(r) = Cardinality(s) - 1
    BY <1>3, <2>4, <2>5
  <2>7. Good(r)
    <3>1. r \in Bad => Cardinality(r) \in Sizes
      BY DEF Sizes
    <3>2. ~(Cardinality(s) <= Cardinality(r))
      BY <1>1, <2>6
    <3> QED
      BY <2>2, <2>3, <2>6, <3>1, <3>2
  <2>8. fold[s] = Add(fold[r], t[x])
    BY <1>5, <2>4, <2>5
  <2>9. s = r \cup {x} /\ t[x] \in Int
    <3>1. x \in 1..n
      BY <2>4, <2>6
    <3>2. t[x] \in Int
      <4> HIDE DEF x
      <4> QED
        BY <1>1, <3>1 DEF n
    <3> QED
      BY <2>6, <3>2
  <2>10. Good(s)
    <3> DEFINE q == fold[r]
    <3>1. q \in Seq(Int) /\ ToSet(q) = {t[i] : i \in r}
      BY <2>7 DEF Good
    <3>2. fold[s] = IF t[x] \in ToSet(q) THEN q ELSE Append(q, t[x])
      BY <2>8 DEF Add
    <3> HIDE DEF q, r, x
    <3>3. Append(q, t[x]) \in Seq(Int) /\ ToSet(Append(q, t[x])) = ToSet(q) \cup {t[x]}
      <4>1. t[x] \in Int
        BY <2>9
      <4> DEFINE y == t[x]
      <4> HIDE DEF y
      <4> QED
        BY <3>1, <4>1, OneMore DEF y
    <3>4. {t[i] : i \in s} = {t[i] : i \in r} \cup {t[x]}
      BY <2>9
    <3> QED
      BY <3>1, <3>2, <3>3, <3>4 DEF Good
  <2> QED
    BY <2>4, <2>10
<1>7. {t[i] : i \in 1..n} = ToSet(t)
  BY <1>1 DEF ToSet
<1> QED
  BY <1>2, <1>6, <1>7

\* A concatenation has the members of both sequences.
LEMMA Joined ==
  ASSUME NEW s \in Seq(Int), NEW t \in Seq(Int)
  PROVE  ToSet(s \o t) = ToSet(s) \cup ToSet(t)
<1>1. s \o t \in Seq(Int) /\ Len(s \o t) = Len(s) + Len(t)
  OBVIOUS
<1>2. ASSUME NEW i \in 1..Len(s) PROVE (s \o t)[i] = s[i]
  OBVIOUS
<1>3. ASSUME NEW i \in 1..Len(t) PROVE (s \o t)[Len(s) + i] = t[i] /\ Len(s) + i \in 1..Len(s \o t)
  OBVIOUS
<1>4. ASSUME NEW i \in 1..Len(s \o t) PROVE i \in 1..Len(s) \/ (i - Len(s) \in 1..Len(t) /\ (s \o t)[i] = t[i - Len(s)])
  BY <1>1
<1>5. ToSet(s \o t) \subseteq ToSet(s) \cup ToSet(t)
  BY <1>1, <1>2, <1>4 DEF ToSet
<1>6. ToSet(s) \subseteq ToSet(s \o t)
  BY <1>1, <1>2 DEF ToSet
<1>7. ToSet(t) \subseteq ToSet(s \o t)
  <2>0. DOMAIN t = 1..Len(t)
    OBVIOUS
  <2> SUFFICES ASSUME NEW i \in 1..Len(t) PROVE t[i] \in ToSet(s \o t)
    BY <2>0 DEF ToSet
  <2>1. Len(s) + i \in DOMAIN (s \o t) /\ (s \o t)[Len(s) + i] = t[i]
    BY <1>1, <1>3
  <2> QED
    BY <2>1, Zenon DEF ToSet
<1> QED
  BY <1>5, <1>6, <1>7

-----------------------------------------------------------------------------
(***************************************************************************)
(* The signal worker: what its assemblies keep of their messages.          *)
(***************************************************************************)
\* What is known is typed, what is being handled is no status, and an assembly
\* that has not opened has all its pieces.
Pieces ==
    /\ handler.event # 0 => stream[handler.event].says.action # "status_only"
    /\ \A c \in DOMAIN convs : convs[c].context.take_profits \in Seq(Int)
    /\ \A a \in asms : a.context.take_profits \in Seq(Int)
    /\ \A a \in asms : a.opening \/ PiecesKept(a)

\* What a merge keeps of what was known and of the update.
LEMMA MergeKeeps ==
  ASSUME NEW x, DOMAIN x = ContextFields, x.take_profits \in Seq(Int),
         NEW y, y.take_profits \in Seq(Int), NEW submitted
  PROVE  LET z == merge_generation_context(x, y, submitted)
         IN  /\ merge_context(x, y).take_profits \in Seq(Int)
             /\ z.take_profits \in Seq(Int)
             /\ ~submitted => ToSet(z.take_profits) = ToSet(x.take_profits) \cup ToSet(y.take_profits)
             /\ x.stop_loss # None \/ y.stop_loss # None => z.stop_loss # None
             /\ y.action \in OPEN_ACTIONS => z.action \in OPEN_ACTIONS
             /\ ~submitted /\ x.action \in OPEN_ACTIONS /\ y.action \in SignalActions \ {"status_only"}
                => z.action \in OPEN_ACTIONS
<1> DEFINE m == merge_context(x, y)
           z == merge_generation_context(x, y, submitted)
           s == x.take_profits
           t == y.take_profits
<1>1. DOMAIN m = ContextFields /\ \A f \in ContextFields : m[f] = IF Blank(f, y[f]) THEN x[f] ELSE y[f]
  BY DEF merge_context
<1> HIDE DEF m
<1>2. /\ m.action = IF y.action = None THEN x.action ELSE y.action
      /\ m.stop_loss = IF y.stop_loss = None THEN x.stop_loss ELSE y.stop_loss
      /\ m.take_profits = IF t = <<>> THEN s ELSE t
  BY <1>1 DEF Blank, ContextFields, NoContext
<1>3. z = [m EXCEPT !.take_profits = IF ~submitted /\ t # <<>> THEN UnionInOrder(s, t) ELSE @,
                    !.action = IF KeepsOpening(x, y, submitted) THEN x.action ELSE @]
  BY Zenon DEF merge_generation_context, m
<1> HIDE DEF z
<1>4. /\ z.take_profits = IF ~submitted /\ t # <<>> THEN UnionInOrder(s, t) ELSE m.take_profits
      /\ z.action = IF KeepsOpening(x, y, submitted) THEN x.action ELSE m.action
      /\ z.stop_loss = m.stop_loss
  BY <1>1, <1>3 DEF ContextFields, NoContext
<1>5. s \in Seq(Int) /\ t \in Seq(Int)
  OBVIOUS
<1> HIDE DEF s, t
<1>6. UnionInOrder(s, t) \in Seq(Int) /\ ToSet(UnionInOrder(s, t)) = ToSet(s) \cup ToSet(t)
  <2>1. s \o t \in Seq(Int)
    BY <1>5
  <2>2. UnionInOrder(s, t) \in Seq(Int) /\ ToSet(UnionInOrder(s, t)) = ToSet(s \o t)
    BY <2>1, DistinctMembers, Zenon DEF UnionInOrder
  <2> QED
    BY <1>5, <2>2, Joined, Zenon
<1>7. /\ m.take_profits \in Seq(Int) /\ z.take_profits \in Seq(Int)
      /\ ~submitted => ToSet(z.take_profits) = ToSet(s) \cup ToSet(t)
  <2>1. ToSet(<<>>) = {}
    BY DEF ToSet
  <2> QED
    BY <1>2, <1>4, <1>5, <1>6, <2>1
<1>8. /\ x.stop_loss # None \/ y.stop_loss # None => z.stop_loss # None
      /\ y.action \in OPEN_ACTIONS => z.action \in OPEN_ACTIONS
      /\ ~submitted /\ x.action \in OPEN_ACTIONS /\ y.action \in SignalActions \ {"status_only"}
         => z.action \in OPEN_ACTIONS
  BY <1>2, <1>4, SignalAssumption DEF KeepsOpening, SignalActions, OPEN_ACTIONS, MANAGEMENT_ACTIONS
<1> QED
  BY <1>7, <1>8 DEF m, z, s, t

\* The update of the message at hand.
LEMMA UpdateSays ==
  ASSUME SigIInv, Pieces, handler.event # 0
  PROVE  /\ Event.type \in {"created", "edited"} /\ handler.event \in Posts(Event.message, Event.type)
         /\ Event.says.take_profits \in Seq(Int) /\ Update.take_profits \in Seq(Int)
         /\ Event.type = "created" => /\ Update = Event.says
                                      /\ Event.says.action \in SignalActions \ {"status_only"}
<1>1. /\ Event \in Events /\ Event.type # "deleted" /\ handler.event \in DOMAIN stream
      /\ Event.says.action # "status_only"
  BY DEF SigIInv, WorkShaped, Event, Pieces
<1>2. Event.type \in {"created", "edited"} /\ Event.says \in Texts
  BY <1>1 DEF Events
<1>3. DOMAIN Event.says = ContextFields /\ Event.says.action \in SignalActions /\ Event.says.take_profits \in Seq(Int)
  BY <1>2, SignalAssumption DEF ContextFields
<1>4. Event.type = "created" => Update = Event.says
  BY DEF Update
<1>5. Update.take_profits = Event.says.take_profits
  BY <1>3 DEF Update, corrective_action_for_submitted_edit, ContextFields, NoContext
<1> QED
  BY <1>1, <1>2, <1>3, <1>4, <1>5 DEF Posts, Event

\* What is known of the handler's conversation.
LEMMA ConversationPieces ==
  ASSUME SigIInv, Pieces, handler.event # 0
  PROVE  Conversation.context.take_profits \in Seq(Int)
<1>1. Known.take_profits \in Seq(Int) /\ DOMAIN Known = ContextFields
  <2>1. CASE Target \in DOMAIN convs
    BY <2>1 DEF Known, Pieces, SigIInv, ConvsShaped
  <2>2. CASE Target \notin DOMAIN convs
    BY <2>2 DEF Known, NoContext, ContextFields
  <2> QED
    BY <2>1, <2>2
<1>2. Conversation.context = merge_context(Known, Update)
  <2> DEFINE old == IF Target \in DOMAIN convs THEN convs[Target]
                    ELSE [state |-> "active", root |-> Event.message, corr |-> handler.event]
  <2>1. Conversation = [state |-> old.state, root |-> old.root, corr |-> old.corr,
                        last |-> Event.message, context |-> merge_context(Known, Update),
                        at |-> Cardinality(settled) + crashes]
    BY Zenon DEF Conversation
  <2> HIDE DEF old
  <2> QED
    BY <2>1
<1> QED
  BY <1>1, <1>2, UpdateSays, MergeKeeps

\* The generation that takes the message has its pieces.
LEMMA GenerationPieces ==
  ASSUME SigIInv, Pieces, handler.event # 0, NEW r
  PROVE  LET g == Generation(r)
         IN  /\ g.context.take_profits \in Seq(Int) /\ (g.opening \/ PiecesKept(g))
             /\ g.opening => g \in asms
<1>1. CASE Current(r) # {}
  <2>1. Only(Current(r)) \in Current(r)
    BY <1>1 DEF Only
  <2>2. Generation(r) = Only(Current(r))
    BY <1>1 DEF Generation
  <2> QED
    BY <2>1, <2>2 DEF Current, Generations, Pieces
<1>2. CASE Current(r) = {}
  <2> DEFINE first == 1 + Max({0} \cup {a.generation : a \in Generations(r)})
  <2>1. Generation(r) = [conv |-> Target, route |-> r, state |-> "assembling",
                         context |-> Conversation.context, refs |-> {}, opening |-> FALSE,
                         generation |-> first]
    BY <1>2, Zenon DEF Generation
  <2> HIDE DEF first
  <2>2. Generation(r).context = Conversation.context /\ Generation(r).refs = {} /\ Generation(r).opening = FALSE
    BY <2>1
  <2>3. PiecesKept(Generation(r))
    BY <2>2 DEF PiecesKept
  <2> QED
    BY <2>2, <2>3, ConversationPieces
<1> QED
  BY <1>1, <1>2

\* What is written for a route keeps the pieces of its generation and adds the
\* message.
LEMMA PlanPieces ==
  ASSUME SigIInv, Pieces, handler.event # 0, NEW r
  PROVE  LET a == Plan(r).assembly
         IN  /\ a.context.take_profits \in Seq(Int) /\ (a.opening \/ PiecesKept(a))
             /\ OpenedBefore(a) \/ PiecesKept(a)
<1> DEFINE g == Generation(r)
           merged == merge_generation_context(g.context, Update, g.opening)
           revision == 1 + Max({0} \cup {ref[2] : ref \in {x \in g.refs : x[1] = Event.message}})
           kept == [g EXCEPT !.context = merged, !.refs = @ \cup {<<Event.message, revision>>}]
           a == Plan(r).assembly
<1>1. \/ a = [kept EXCEPT !.state = "skipped"]
      \/ a = mark_generation_submitted(kept)
      \/ a = kept
  BY Zenon DEF Plan
<1>2. DOMAIN g = AsmFields /\ DOMAIN g.context = ContextFields
  BY GenerationShape
<1>3. /\ g.context.take_profits \in Seq(Int) /\ (g.opening \/ PiecesKept(g))
      /\ g.opening => g \in asms
  BY GenerationPieces
<1>4. /\ merged.take_profits \in Seq(Int)
      /\ ~g.opening => /\ ToSet(merged.take_profits) = ToSet(g.context.take_profits) \cup ToSet(Update.take_profits)
                       /\ Update.action \in OPEN_ACTIONS => merged.action \in OPEN_ACTIONS
                       /\ g.context.action \in OPEN_ACTIONS /\ Update.action \in SignalActions \ {"status_only"}
                          => merged.action \in OPEN_ACTIONS
      /\ g.context.stop_loss # None \/ Update.stop_loss # None => merged.stop_loss # None
  <2>1. Update.take_profits \in Seq(Int)
    BY UpdateSays
  <2> HIDE DEF g
  <2> QED
    BY <1>2, <1>3, <2>1, MergeKeeps
<1> HIDE DEF g, revision
<1>5. /\ a.context = merged /\ a.refs = g.refs \cup {<<Event.message, revision>>}
      /\ a.conv = g.conv /\ a.route = g.route /\ a.generation = g.generation
      /\ g.opening => a.opening
  <2>1. /\ DOMAIN kept = AsmFields /\ kept.context = merged
        /\ kept.refs = g.refs \cup {<<Event.message, revision>>}
        /\ kept.conv = g.conv /\ kept.route = g.route /\ kept.generation = g.generation
        /\ kept.opening = g.opening
    <3> HIDE DEF merged
    <3> QED
      BY <1>2 DEF AsmFields
  <2> HIDE DEF kept, merged, a
  <2> QED
    BY <1>1, <2>1 DEF AsmFields, mark_generation_submitted
<1> HIDE DEF a, merged, kept
<1>6. CASE g.opening
  <2>1. OpenedBefore(a)
    BY <1>3, <1>5, <1>6 DEF OpenedBefore
  <2> QED
    BY <1>4, <1>5, <1>6, <2>1 DEF a
<1>7. CASE ~g.opening
  <2>1. <<Event.message, revision>>[1] = Event.message
    OBVIOUS
  <2>2. Event.type \in {"created", "edited"} /\ handler.event \in Posts(Event.message, Event.type)
    BY UpdateSays
  <2>3. ASSUME Event.type = "edited" PROVE PiecesKept(a)
    <3>1. \E ref \in a.refs : Posts(ref[1], "edited") # {}
      BY <1>5, <2>1, <2>2, <2>3
    <3> QED
      BY <3>1, Zenon DEF PiecesKept
  <2>4. ASSUME Event.type = "created" PROVE PiecesKept(a)
    <3>1. Update = Event.says /\ Update.action \in SignalActions \ {"status_only"}
      BY <2>4, UpdateSays
    <3>2. ASSUME NEW said, Includes(g.context, said) PROVE Includes(a.context, said)
      BY <1>4, <1>5, <1>7, <3>1, <3>2 DEF Includes
    <3>3. Includes(a.context, Update)
      BY <1>4, <1>5, <1>7 DEF Includes
    <3>4. ASSUME \E ref \in g.refs : Posts(ref[1], "edited") # {} PROVE PiecesKept(a)
      <4>1. \E ref \in a.refs : Posts(ref[1], "edited") # {}
        BY <1>5, <3>4
      <4> QED
        BY <4>1, Zenon DEF PiecesKept
    <3>5. ASSUME \A ref \in g.refs : \E e \in Posts(ref[1], "created") : Includes(g.context, stream[e].says)
          PROVE  PiecesKept(a)
      <4>1. ASSUME NEW ref \in a.refs
            PROVE  \E e \in Posts(ref[1], "created") : Includes(a.context, stream[e].says)
        <5>1. CASE ref \in g.refs
          BY <3>2, <3>5, <5>1
        <5>2. CASE ref = <<Event.message, revision>>
          BY <2>1, <2>2, <2>4, <3>1, <3>3, <5>2 DEF Event
        <5> QED
          BY <1>5, <5>1, <5>2
      <4> QED
        BY <4>1, Zenon DEF PiecesKept
    <3> QED
      BY <1>3, <1>7, <3>4, <3>5, Zenon DEF PiecesKept
  <2>5. PiecesKept(a)
    BY <2>2, <2>3, <2>4, Zenon
  <2> QED
    BY <1>4, <1>5, <2>5 DEF a
<1> QED
  BY <1>6, <1>7

\* One step of the worker, as the property has it.
StepKeepsPieces == \A a \in asms' : OpenedBefore(a) \/ PiecesKept(a)

LEMMA PiecesPrimed == ASSUME UNCHANGED stream, NEW a PROVE PiecesKept(a)' = PiecesKept(a)
BY DEF PiecesKept, Posts

LEMMA CommitKeepsPieces ==
  ASSUME SigIInv, Pieces, NEW on, NEW acknowledged, CommitSignal(on, acknowledged)
  PROVE  Pieces' /\ StepKeepsPieces
<1> DEFINE plans == [r \in on |-> Plan(r)]
           n == Max({Target, Len(convs)})
<1>1. /\ convs' = [c \in 1..n |-> IF c = Target THEN Conversation ELSE convs[c]]
      /\ asms' = (asms \ UNION {Current(r) : r \in DOMAIN plans}) \cup {plans[r].assembly : r \in DOMAIN plans}
      /\ handler' = NoHandler /\ UNCHANGED stream /\ handler.event # 0
  BY Zenon DEF CommitSignal, Write
<1>2. ASSUME NEW a \in asms'
      PROVE  a \in asms \/ \E r \in on : a = Plan(r).assembly
  BY <1>1
<1>3. ASSUME NEW a \in asms'
      PROVE  /\ a.context.take_profits \in Seq(Int) /\ (a.opening \/ PiecesKept(a))
             /\ OpenedBefore(a) \/ PiecesKept(a)
  <2>1. CASE a \in asms
    BY <2>1 DEF Pieces, OpenedBefore
  <2>2. ASSUME NEW r \in on, a = Plan(r).assembly
        PROVE  /\ a.context.take_profits \in Seq(Int) /\ (a.opening \/ PiecesKept(a))
               /\ OpenedBefore(a) \/ PiecesKept(a)
    BY <1>1, <2>2, PlanPieces
  <2> QED
    BY <1>2, <2>1, <2>2
<1>4. \A c \in DOMAIN convs' : convs'[c].context.take_profits \in Seq(Int)
  <2>1. \A c \in 1..n : c = Target \/ c \in DOMAIN convs
    BY <1>1, ConvsGrow
  <2> HIDE DEF n
  <2> QED
    BY <1>1, <2>1, ConversationPieces DEF Pieces
<1>5. handler'.event = 0
  BY <1>1 DEF NoHandler
<1> QED
  BY <1>1, <1>3, <1>4, <1>5, PiecesPrimed DEF Pieces, StepKeepsPieces

\* Steps that leave the assemblies, or mark some as expired.
LEMMA OthersKeepPieces ==
  ASSUME SigIInv, Pieces, UNCHANGED stream,
         handler'.event # 0 => stream[handler'.event].says.action # "status_only",
         DOMAIN convs' = DOMAIN convs,
         \A c \in DOMAIN convs : convs'[c].context = convs[c].context,
         \A a \in asms' : a \in asms \/ \E b \in asms : a = mark_generation_expired(b)
  PROVE  Pieces' /\ StepKeepsPieces
<1>1. ASSUME NEW b \in asms
      PROVE  LET a == mark_generation_expired(b)
             IN  /\ a.context = b.context /\ a.opening = b.opening /\ a.refs = b.refs
                 /\ a.conv = b.conv /\ a.route = b.route /\ a.generation = b.generation
  BY DEF SigIInv, AsmsShaped, AsmFields, mark_generation_expired
<1>2. ASSUME NEW a \in asms'
      PROVE  \E b \in asms : /\ a.context = b.context /\ a.opening = b.opening /\ a.refs = b.refs
                             /\ a.conv = b.conv /\ a.route = b.route /\ a.generation = b.generation
  BY <1>1
<1>3. ASSUME NEW a \in asms'
      PROVE  /\ a.context.take_profits \in Seq(Int) /\ (a.opening \/ PiecesKept(a))
             /\ OpenedBefore(a) \/ PiecesKept(a)
  <2>1. PICK b \in asms : /\ a.context = b.context /\ a.opening = b.opening /\ a.refs = b.refs
                          /\ a.conv = b.conv /\ a.route = b.route /\ a.generation = b.generation
    BY <1>2
  <2>2. b.context.take_profits \in Seq(Int) /\ (b.opening \/ PiecesKept(b))
    BY DEF Pieces
  <2>3. PiecesKept(b) => PiecesKept(a)
    BY <2>1 DEF PiecesKept
  <2>4. b.opening => OpenedBefore(a)
    BY <2>1 DEF OpenedBefore
  <2> QED
    BY <2>1, <2>2, <2>3, <2>4
<1> QED
  BY <1>3, PiecesPrimed DEF Pieces, StepKeepsPieces

LEMMA PiecesStep ==
  ASSUME SigIInv, Pieces, [SigNext]_sigVars
  PROVE  Pieces' /\ StepKeepsPieces
<1>0. handler.event # 0 => stream[handler.event].says.action # "status_only"
  BY DEF Pieces
<1>1. ASSUME UNCHANGED <<stream, convs, asms>>, handler' \in {handler, NoHandler}
      PROVE  Pieces' /\ StepKeepsPieces
  BY <1>0, <1>1, OthersKeepPieces DEF NoHandler
<1>2. ASSUME NEW e \in DOMAIN stream, NEW rs, Begin(e, rs) PROVE Pieces' /\ StepKeepsPieces
  <2>1. handler'.event = e /\ stream[e].says.action # "status_only" /\ UNCHANGED <<stream, convs, asms>>
    BY <1>2 DEF Begin
  <2> QED
    BY <2>1, OthersKeepPieces
<1>3. ASSUME NEW e \in DOMAIN stream, HandleDeleted(e) PROVE Pieces' /\ StepKeepsPieces
  <2>1. \A a \in asms' : a \in asms \/ \E b \in asms : a = mark_generation_expired(b)
    BY <1>3 DEF HandleDeleted
  <2>2. UNCHANGED <<stream, convs, handler>>
    BY <1>3 DEF HandleDeleted
  <2> QED
    BY <1>0, <2>1, <2>2, OthersKeepPieces
<1>4. ASSUME NEW S \in SUBSET asms, ExpireSignals(S) PROVE Pieces' /\ StepKeepsPieces
  <2> DEFINE after == (asms \ S) \cup {mark_generation_expired(a) : a \in S}
             over == {a.conv : a \in S} \ {a.conv : a \in {b \in after : StillActive(b.state)}}
  <2>1. /\ asms' = after /\ UNCHANGED <<stream, handler>>
        /\ convs' = [c \in DOMAIN convs |-> IF c \in over THEN [convs[c] EXCEPT !.state = "expired"]
                                            ELSE convs[c]]
    BY <1>4, Zenon DEF ExpireSignals
  <2>2. \A a \in asms' : a \in asms \/ \E b \in asms : a = mark_generation_expired(b)
    BY <2>1
  <2> HIDE DEF over
  <2>3. \A c \in DOMAIN convs : DOMAIN convs[c] = ConvFields
    BY DEF SigIInv, ConvsShaped
  <2>4. DOMAIN convs' = DOMAIN convs /\ \A c \in DOMAIN convs : convs'[c].context = convs[c].context
    BY <2>1, <2>3 DEF ConvFields
  <2> QED
    BY <1>0, <2>1, <2>2, <2>4, OthersKeepPieces
<1>5. ASSUME NEW e \in DOMAIN stream, SkipEvent(e) PROVE Pieces' /\ StepKeepsPieces
  BY <1>1, <1>5 DEF SkipEvent, Settle
<1>6. ASSUME NEW on, RollBack(on) PROVE Pieces' /\ StepKeepsPieces
  <2>1. UNCHANGED <<stream, convs, asms>> /\ handler' = NoHandler
    BY <1>6, Zenon DEF RollBack
  <2> QED
    BY <1>1, <2>1
<1>7. CASE DeadLetterSignal
  BY <1>1, <1>7 DEF DeadLetterSignal, Settle
<1>8. ASSUME NEW i \in intents, TradeOpens(i) PROVE Pieces' /\ StepKeepsPieces
  BY <1>1, <1>8 DEF TradeOpens
<1>9. ASSUME NEW m, GetsOld(m) PROVE Pieces' /\ StepKeepsPieces
  BY <1>1, <1>9 DEF GetsOld
<1>10. ASSUME NEW k, MeaningLapses(k) PROVE Pieces' /\ StepKeepsPieces
  BY <1>1, <1>10 DEF MeaningLapses
<1>11. CASE UNCHANGED sigVars
  BY <1>1, <1>11 DEF sigVars
<1> QED
  BY <1>2, <1>3, <1>4, <1>5, <1>6, <1>7, <1>8, <1>9, <1>10, <1>11, CommitKeepsPieces DEF SigNext

\* Up to the step that submits it, an assembly keeps all that its messages
\* said, whatever their order, their repetitions, and what expires, is deleted
\* or fails between (signal_handler, merge_generation_context).
THEOREM DetailsCompleteOpeningHolds == SigSpec => DetailsCompleteOpening
<1>1. SigInit => Pieces
  BY DEF SigInit, Pieces, NoHandler
<1>2. SigIInv /\ Pieces /\ [SigNext]_sigVars => Pieces' /\ StepKeepsPieces
  BY PiecesStep
<1>3. StepKeepsPieces => [\A a \in asms' : OpenedBefore(a) \/ PiecesKept(a)]_sigVars
  BY DEF StepKeepsPieces
<1> QED
  BY <1>1, <1>2, <1>3, SigInitIInv, SigNextIInv, PTL DEF SigSpec, DetailsCompleteOpening
=============================================================================
