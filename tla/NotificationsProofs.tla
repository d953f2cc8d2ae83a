------------------------ MODULE NotificationsProofs -----------------------
(***************************************************************************)
(* Proofs about Notifications, for any people, notices and size of the     *)
(* queues.  As long as a page has no excuse, an event that is out before   *)
(* its row will still make it ask (Heralded), and once nothing makes it    *)
(* ask any more, the youngest count it has got or is going to get is the   *)
(* right one (Informed).                                                   *)
(***************************************************************************)
EXTENDS Notifications, SequenceTheorems, FiniteSetTheorems, TLAPS

Waiting(p) == Holds(stream[p].queue, "notification") \/ bell[p].asked > 0

Heralded(p) == p \notin excused /\ Announced(p) # {} => Waiting(p)

\* The count the page shows when all the replies have arrived, if none of them
\* overtakes a younger one.
Youngest(p) ==
  LET replies == bell[p].replies IN
  IF replies = << >> THEN bell[p].badge
  ELSE IF replies[Len(replies)].late THEN bell[p].badge
  ELSE replies[Len(replies)].count

\* No reply to a POST is on its way, which would make the page ask.
Answered(posts) == \A m \in posts : m.stage # "done"

Informed(p) ==
  p \notin excused /\ ~Waiting(p) /\ Answered(bell[p].posts) => Youngest(p) = Unread(p)

\* What is before a late reply is late.
Ordered(replies) ==
  \A j, k \in DOMAIN replies : j < k /\ replies[k].late => replies[j].late

Sound(p) == Heralded(p) /\ Informed(p) /\ Ordered(bell[p].replies)

IInv == NoticeTypeOK /\ \A p \in People : Sound(p)

USE NoticesAssumption, QueueAssumption, BellAssumption

LEMMA CountsAreBounded ==
  ASSUME NEW p \in People
  PROVE  Unread(p) \in Counts
<1>1. Cardinality(Notices) \in Nat
  BY FS_CardinalityType
<1> DEFINE unread == {n \in Rows(p) : <<n, p>> \notin read}
<1>2. unread \in SUBSET Notices
  BY DEF Rows
<1> HIDE DEF unread
<1>3. IsFiniteSet(unread) /\ Cardinality(unread) <= Cardinality(Notices)
  BY <1>2, FS_Subset
<1>4. Cardinality(unread) \in Nat
  BY <1>3, FS_CardinalityType
<1>5. Unread(p) = Cardinality(unread)
  BY DEF unread, Unread
<1> QED
  BY <1>1, <1>3, <1>4, <1>5 DEF Counts

\* What emit_to_user puts into a queue, and what it leaves there.
LEMMA PushedType ==
  ASSUME NEW queue \in Seq(Events), Len(queue) <= QueueSize, NEW event \in Events
  PROVE  /\ Pushed(queue, event) \in Seq(Events)
         /\ Len(Pushed(queue, event)) <= QueueSize
         /\ Holds(Pushed(queue, event), event)
<1>1. CASE Len(queue) < QueueSize
  <2>1. /\ Pushed(queue, event) = Append(queue, event)
        /\ Append(queue, event) \in Seq(Events)
        /\ Len(Append(queue, event)) = Len(queue) + 1
        /\ Append(queue, event)[Len(queue) + 1] = event
    BY <1>1 DEF Pushed
  <2> QED
    BY <1>1, <2>1 DEF Holds
<1>2. CASE ~(Len(queue) < QueueSize)
  <2>1. Tail(queue) \in Seq(Events) /\ Len(Tail(queue)) = Len(queue) - 1 /\ queue # << >>
    BY <1>2
  <2>2. /\ Pushed(queue, event) = Append(Tail(queue), event)
        /\ Append(Tail(queue), event) \in Seq(Events)
        /\ Len(Append(Tail(queue), event)) = Len(queue)
        /\ Append(Tail(queue), event)[Len(queue)] = event
    BY <1>2, <2>1 DEF Pushed
  <2> QED
    BY <1>2, <2>1, <2>2 DEF Holds
<1> QED
  BY <1>1, <1>2

LEMMA InitIInv == NoticeInit => IInv
<1> SUFFICES ASSUME NoticeInit PROVE IInv
  OBVIOUS
<1>1. 0 \in Counts
  BY FS_CardinalityType DEF Counts
<1>2. NewPage({}) \in [badge : Counts, asked : Nat, replies : Seq(Reply), posts : SUBSET Post]
  BY <1>1 DEF NewPage
<1>3. Closed \in [open : BOOLEAN, queue : Seq(Events)] /\ Len(Closed.queue) = 0
  BY DEF Closed
<1>4. NoticeTypeOK
  <2>1. \A p \in People : bell[p].asked + Len(bell[p].replies) <= MaxAsked
    BY DEF NoticeInit, NewPage
  <2> QED
    BY <1>2, <1>3, <2>1 DEF NoticeInit, NoticeTypeOK
<1>5. ASSUME NEW p \in People PROVE Sound(p)
  BY <1>5 DEF NoticeInit, NewPage, Sound, Heralded, Informed, Announced, Waiting, Ordered
<1> QED
  BY <1>4, <1>5 DEF IInv

-----------------------------------------------------------------------------
(* Types.                                                                  *)

Page == [badge : Counts, asked : Nat, replies : Seq(Reply), posts : SUBSET Post]
Fits(page) == page.asked + Len(page.replies) <= MaxAsked
Handling == [pc : {"idle", "flushing", "committed", "rolled_back"},
             to : SUBSET People, told : SUBSET People]
Connection == [open : BOOLEAN, queue : Seq(Events)]

\* A step that changes the page of p only.
LEMMA PageType ==
  ASSUME NoticeTypeOK, NEW p \in People, NEW page \in Page, Fits(page),
         bell' = [bell EXCEPT ![p] = page]
  PROVE  /\ bell' \in [People -> Page]
         /\ \A q \in People : bell'[q].asked + Len(bell'[q].replies) <= MaxAsked
         /\ bell'[p] = page /\ \A q \in People \ {p} : bell'[q] = bell[q]
<1>1. bell \in [People -> Page]
  BY DEF NoticeTypeOK, Page
<1> QED
  BY <1>1 DEF NoticeTypeOK, Fits

\* A step that changes the queue of p only.
LEMMA QueueType ==
  ASSUME NoticeTypeOK, NEW p \in People, NEW queue \in Seq(Events), Len(queue) <= QueueSize,
         stream' = [stream EXCEPT ![p].queue = queue]
  PROVE  /\ stream' \in [People -> Connection]
         /\ \A q \in People : Len(stream'[q].queue) <= QueueSize
         /\ stream'[p].queue = queue /\ \A q \in People \ {p} : stream'[q] = stream[q]
BY DEF NoticeTypeOK, Connection

LEMMA EmitType ==
  ASSUME NoticeTypeOK, NEW p \in People, NEW event \in Events, Emit(p, event)
  PROVE  /\ stream' \in [People -> Connection]
         /\ \A q \in People : Len(stream'[q].queue) <= QueueSize
         /\ excused' \in SUBSET People /\ excused \subseteq excused'
         /\ \A q \in People \ {p} : stream'[q] = stream[q]
         /\ event = "notification" => Holds(stream'[p].queue, "notification") \/ p \in excused'
         /\ Holds(stream[p].queue, "notification") =>
              Holds(stream'[p].queue, "notification") \/ p \in excused'
<1> DEFINE old == stream[p].queue
           new == Pushed(old, event)
<1>1. old \in Seq(Events) /\ Len(old) <= QueueSize /\ stream \in [People -> Connection]
  BY DEF NoticeTypeOK, Connection
<1>2. new \in Seq(Events) /\ Len(new) <= QueueSize /\ Holds(new, event)
  BY <1>1, PushedType
<1>3. excused' \in SUBSET People /\ excused \subseteq excused'
  BY DEF Emit, NoticeTypeOK
<1> HIDE DEF new
<1>4. /\ stream' = IF stream[p].open THEN [stream EXCEPT ![p].queue = new] ELSE stream
      /\ event = "notification" /\ ~stream[p].open => p \in excused'
      /\ stream[p].open /\ event = "other" /\ Holds(old, "notification")
           /\ ~Holds(new, "notification") => p \in excused'
  BY DEF Emit, new
<1>5. CASE stream[p].open
  <2>1. /\ stream' \in [People -> Connection]
        /\ \A q \in People : Len(stream'[q].queue) <= QueueSize
        /\ stream'[p].queue = new /\ \A q \in People \ {p} : stream'[q] = stream[q]
    BY <1>2, <1>4, <1>5, QueueType
  <2> QED
    BY <1>2, <1>3, <1>4, <1>5, <2>1 DEF Events
<1>6. CASE ~stream[p].open
  BY <1>1, <1>3, <1>4, <1>6 DEF NoticeTypeOK
<1> QED
  BY <1>5, <1>6

\* Each step of a page, as the page it leaves.
LEMMA PageSteps ==
  ASSUME NoticeTypeOK, NEW p \in People
  PROVE  LET page == bell[p] IN
    /\ page \in Page /\ Fits(page)
    /\ Hear(p) => \E new \in Page :
         /\ Fits(new) /\ bell' = [bell EXCEPT ![p] = new]
         /\ new.asked >= page.asked
         /\ Head(stream[p].queue) = "notification" => new.asked > 0
         /\ new.badge = page.badge /\ new.replies = page.replies /\ new.posts = page.posts
    /\ AnswerCount(p) => \E new \in Page :
         /\ Fits(new) /\ bell' = [bell EXCEPT ![p] = new]
         /\ new.replies # << >>
         /\ new.replies[Len(new.replies)] = [count |-> Unread(p), late |-> FALSE]
         /\ Ordered(page.replies) => Ordered(new.replies)
    /\ LoseCount(p) => \E new \in Page :
         Fits(new) /\ bell' = [bell EXCEPT ![p] = new] /\ new.replies = page.replies
    /\ \A m \in page.posts : Marked(p, m) => \E new \in Page :
         /\ Fits(new) /\ bell' = [bell EXCEPT ![p] = new]
         /\ new.asked > 0 /\ new.replies = page.replies
<1> DEFINE page == bell[p]
<1>1. page \in Page /\ Fits(page)
  BY DEF NoticeTypeOK, Page, Fits
<1>2. ASSUME Hear(p)
      PROVE  \E new \in Page :
         /\ Fits(new) /\ bell' = [bell EXCEPT ![p] = new]
         /\ new.asked >= page.asked
         /\ Head(stream[p].queue) = "notification" => new.asked > 0
         /\ new.badge = page.badge /\ new.replies = page.replies /\ new.posts = page.posts
  <2> DEFINE new == [page EXCEPT !.asked = @ + 1]
  <2>1. CASE Head(stream[p].queue) = "notification"
    <3>1. new \in Page /\ Fits(new) /\ new.asked = page.asked + 1
          /\ new.badge = page.badge /\ new.replies = page.replies /\ new.posts = page.posts
      BY <1>1, <1>2 DEF Page, Fits, Hear, MayAsk
    <3>2. bell' = [bell EXCEPT ![p] = new]
      BY <1>2, <2>1 DEF Hear
    <3>3. page.asked \in Nat
      BY <1>1 DEF Page
    <3>4. new.asked >= page.asked /\ new.asked > 0
      BY <3>1, <3>3
    <3> HIDE DEF new
    <3> QED
      BY <3>1, <3>2, <3>4
  <2>2. CASE Head(stream[p].queue) # "notification"
    <3>1. bell' = [bell EXCEPT ![p] = page]
      BY <1>2, <2>2 DEF Hear, NoticeTypeOK
    <3>2. page.asked >= page.asked
      BY <1>1 DEF Page
    <3> HIDE DEF page
    <3> QED
      BY <1>1, <2>2, <3>1, <3>2
  <2> QED
    BY <2>1, <2>2
<1>3. ASSUME AnswerCount(p)
      PROVE  \E new \in Page :
         /\ Fits(new) /\ bell' = [bell EXCEPT ![p] = new]
         /\ new.replies # << >>
         /\ new.replies[Len(new.replies)] = [count |-> Unread(p), late |-> FALSE]
         /\ Ordered(page.replies) => Ordered(new.replies)
  <2> DEFINE reply == [count |-> Unread(p), late |-> FALSE]
             new == [page EXCEPT !.asked = @ - 1, !.replies = Append(@, reply)]
  <2>1. reply \in Reply
    BY CountsAreBounded DEF Reply
  <2>2. page.asked > 0
    BY <1>3 DEF AnswerCount
  <2> HIDE DEF reply
  <2>3. /\ Append(page.replies, reply) \in Seq(Reply)
        /\ Append(page.replies, reply) # << >>
        /\ Len(Append(page.replies, reply)) = Len(page.replies) + 1
        /\ Append(page.replies, reply)[Len(page.replies) + 1] = reply
        /\ \A k \in 1 .. Len(page.replies) : Append(page.replies, reply)[k] = page.replies[k]
    BY <1>1, <2>1, AppendProperties DEF Page
  <2>4. /\ page.asked \in Nat /\ page.asked - 1 \in Nat /\ Len(page.replies) \in Nat
        /\ page.asked + Len(page.replies) <= MaxAsked
    BY <1>1, <2>2 DEF Page, Fits
  <2>5. new \in Page /\ new.asked = page.asked - 1 /\ new.replies = Append(page.replies, reply)
    BY <1>1, <2>3, <2>4 DEF Page
  <2>6. Fits(new)
    <3> HIDE DEF new
    <3> QED
      BY <2>3, <2>4, <2>5 DEF Fits
  <2>7. bell' = [bell EXCEPT ![p] = new]
    BY <1>3 DEF AnswerCount, reply
  <2>8. new.replies # << >> /\ new.replies[Len(new.replies)] = reply
    BY <2>3, <2>5
  <2>9. Ordered(page.replies) => Ordered(Append(page.replies, reply))
    <3>1. page.replies \in Seq(Reply) /\ ~reply.late
      BY <1>1 DEF Page, reply
    <3> HIDE DEF page
    <3> QED
      BY <2>3, <3>1 DEF Ordered
  <2> HIDE DEF new
  <2> QED
    BY <2>5, <2>6, <2>7, <2>8, <2>9 DEF reply
<1>4. ASSUME LoseCount(p)
      PROVE  \E new \in Page :
               Fits(new) /\ bell' = [bell EXCEPT ![p] = new] /\ new.replies = page.replies
  <2> DEFINE new == [page EXCEPT !.asked = @ - 1]
  <2>1. new \in Page /\ Fits(new) /\ new.replies = page.replies
    BY <1>1, <1>4 DEF Page, Fits, LoseCount
  <2>2. bell' = [bell EXCEPT ![p] = new]
    BY <1>4 DEF LoseCount
  <2> QED
    BY <2>1, <2>2
<1>5. ASSUME NEW m \in page.posts, Marked(p, m)
      PROVE  \E new \in Page :
               /\ Fits(new) /\ bell' = [bell EXCEPT ![p] = new]
               /\ new.asked > 0 /\ new.replies = page.replies
  <2> DEFINE rest == page.posts \ {m}
             asks == [page EXCEPT !.asked = @ + 1]
             new == [asks EXCEPT !.posts = rest]
  <2>1. page.asked \in Nat /\ Len(page.replies) \in Nat
        /\ page.asked + Len(page.replies) < MaxAsked
    BY <1>1, <1>5 DEF Page, Marked, MayAsk
  <2>2. asks \in Page /\ asks.asked = page.asked + 1 /\ asks.replies = page.replies
    BY <1>1, <2>1 DEF Page
  <2>3. rest \in SUBSET Post
    BY <1>1 DEF Page
  <2>4. bell' = [bell EXCEPT ![p] = new]
    <3>1. bell' = [bell EXCEPT ![p].posts = rest, ![p].asked = @ + 1]
      BY <1>5 DEF Marked
    <3>2. [page EXCEPT !.posts = rest, !.asked = @ + 1] = new
      BY <1>1 DEF Page
    <3> QED
      BY <3>1, <3>2, <1>1
  <2> HIDE DEF asks, rest
  <2>5. new \in Page /\ new.asked = asks.asked /\ new.replies = asks.replies
    BY <2>2, <2>3 DEF Page
  <2> HIDE DEF new
  <2>6. Fits(new) /\ new.asked > 0
    BY <2>1, <2>2, <2>5 DEF Fits
  <2> QED
    BY <2>2, <2>4, <2>5, <2>6
<1> QED
  BY <1>1, <1>2, <1>3, <1>4, <1>5

\* A reply that is shown: those behind it stay as they are, those before it are
\* late.
LEMMA ShowPage ==
  ASSUME NoticeTypeOK, NEW p \in People, NEW i \in DOMAIN bell[p].replies, ShowCount(p, i)
  PROVE  LET page == bell[p]
             last == Len(page.replies) IN
    \E new \in Page :
      /\ Fits(new) /\ bell' = [bell EXCEPT ![p] = new]
      /\ new.badge = page.replies[i].count
      /\ new.asked = page.asked /\ new.posts = page.posts
      /\ Len(new.replies) = last - 1
      /\ i = last /\ last > 1 => new.replies[last - 1].late
      /\ i < last => new.replies[last - 1] = page.replies[last]
      /\ Ordered(page.replies) => Ordered(new.replies)
<1> DEFINE page == bell[p]
           replies == page.replies
           kept(k) == IF k < i THEN [replies[k] EXCEPT !.late = TRUE] ELSE replies[k + 1]
           rest == [k \in 1 .. Len(replies) - 1 |-> kept(k)]
           new == [page EXCEPT !.badge = replies[i].count, !.replies = rest]
<1>1. page \in Page /\ replies \in Seq(Reply) /\ i \in 1 .. Len(replies)
      /\ Len(replies) \in Nat /\ page.asked + Len(replies) <= MaxAsked /\ page.asked \in Nat
  BY DEF NoticeTypeOK, Page
<1>2. \A k \in 1 .. Len(replies) - 1 : kept(k) \in Reply
  <2> TAKE k \in 1 .. Len(replies) - 1
  <2>1. replies[k] \in Reply /\ replies[k + 1] \in Reply
    BY <1>1
  <2>2. [replies[k] EXCEPT !.late = TRUE] \in Reply
    BY <2>1 DEF Reply
  <2> QED
    BY <2>1, <2>2
<1>3. rest \in Seq(Reply) /\ Len(rest) = Len(replies) - 1
  <2>1. Len(replies) - 1 \in Nat
    BY <1>1
  <2>2. rest \in [1 .. Len(replies) - 1 -> Reply]
    BY <1>2
  <2> HIDE DEF rest
  <2> QED
    BY <2>1, <2>2
<1>4. i = Len(replies) /\ Len(replies) > 1 => rest[Len(replies) - 1].late
  <2>1. ASSUME i = Len(replies), Len(replies) > 1
        PROVE  rest[Len(replies) - 1] = [replies[Len(replies) - 1] EXCEPT !.late = TRUE]
    BY <1>1, <2>1
  <2>2. ASSUME Len(replies) > 1
        PROVE  replies[Len(replies) - 1] \in Reply
    BY <1>1, <2>2
  <2>3. ASSUME NEW reply \in Reply
        PROVE  [reply EXCEPT !.late = TRUE].late
    BY DEF Reply
  <2> HIDE DEF rest
  <2> QED
    BY <2>1, <2>2, <2>3
<1>5. i < Len(replies) => rest[Len(replies) - 1] = replies[Len(replies)]
  BY <1>1
<1>11. Ordered(replies) => Ordered(rest)
  <2> SUFFICES ASSUME Ordered(replies), NEW j \in DOMAIN rest, NEW k \in DOMAIN rest,
                      j < k, rest[k].late
               PROVE  rest[j].late
    BY DEF Ordered
  <2>1. j \in 1 .. Len(replies) - 1 /\ k \in 1 .. Len(replies) - 1
    BY <1>1
  <2>2. CASE j < i
    <3>1. rest[j] = [replies[j] EXCEPT !.late = TRUE] /\ replies[j] \in Reply
      BY <1>1, <2>1, <2>2
    <3> HIDE DEF rest
    <3> QED
      BY <3>1 DEF Reply
  <2>3. CASE ~(j < i)
    <3>1. rest[j] = replies[j + 1] /\ rest[k] = replies[k + 1]
      BY <1>1, <2>1, <2>3
    <3> HIDE DEF rest, replies
    <3>2. j + 1 \in 1 .. Len(replies) /\ k + 1 \in 1 .. Len(replies) /\ j + 1 < k + 1
      BY <1>1, <2>1
    <3> QED
      BY <1>1, <3>1, <3>2 DEF Ordered
  <2> QED
    BY <2>2, <2>3
<1>6. replies[i] \in Reply
  BY <1>1
<1>7. replies[i].count \in Counts
  BY <1>6 DEF Reply
<1> HIDE DEF rest
<1>8. /\ new \in Page /\ new.badge = replies[i].count /\ new.replies = rest
      /\ new.asked = page.asked /\ new.posts = page.posts
  BY <1>1, <1>3, <1>7 DEF Page
<1>9. bell' = [bell EXCEPT ![p] = new]
  BY DEF ShowCount, rest
<1>10. Fits(new)
  <2> HIDE DEF new
  <2> QED
    BY <1>1, <1>3, <1>8 DEF Fits
<1> HIDE DEF new
<1> QED
  BY <1>3, <1>4, <1>5, <1>8, <1>9, <1>10, <1>11

\* What a step makes of the POSTs of p, and of nothing else on the page.
Posts(p, posts) == [bell[p] EXCEPT !.posts = posts]

LEMMA PostsType ==
  ASSUME NoticeTypeOK, NEW p \in People, NEW posts \in SUBSET Post
  PROVE  /\ Posts(p, posts) \in Page /\ Fits(Posts(p, posts))
         /\ Posts(p, posts).posts = posts
         /\ Posts(p, posts).badge = bell[p].badge
         /\ Posts(p, posts).asked = bell[p].asked
         /\ Posts(p, posts).replies = bell[p].replies
<1>1. bell[p] \in Page /\ Fits(bell[p])
  BY DEF NoticeTypeOK, Page, Fits
<1> QED
  BY <1>1 DEF Posts, Page, Fits

\* The click on a notification, and what becomes of its POST: but for MarkRead, no
\* reply gets on its way or lost without an excuse.
LEMMA ClickPages ==
  ASSUME NoticeTypeOK, NEW p \in People
  PROVE  LET Same(new) ==
               /\ new \in SUBSET Post /\ bell' = [bell EXCEPT ![p] = Posts(p, new)]
               /\ \A k \in bell[p].posts : k.stage = "done" => k \in new
         IN
         /\ \A n \in Notices : ClickRead(p, n) => \E new : Same(new)
         /\ \A m \in bell[p].posts :
              /\ MarkRead(p, m) => \E new : Same(new) /\ ~Answered(new)
              /\ MarkReadLate(p, m) \/ LosePost(p, m) => \E new : Same(new)
              /\ LoseMarked(p, m) => \E new :
                   /\ new \in SUBSET Post /\ bell' = [bell EXCEPT ![p] = Posts(p, new)]
                   /\ Same(new) \/ p \in excused'
<1> DEFINE page == bell[p]
           Same(new) ==
             /\ new \in SUBSET Post /\ bell' = [bell EXCEPT ![p] = Posts(p, new)]
             /\ \A k \in page.posts : k.stage = "done" => k \in new
<1>1. page \in Page /\ bell \in [People -> Page] /\ page.posts \in SUBSET Post
  BY DEF NoticeTypeOK, Page
<1>2. ASSUME NEW new, bell' = [bell EXCEPT ![p].posts = new]
      PROVE  bell' = [bell EXCEPT ![p] = Posts(p, new)]
  BY <1>1, <1>2 DEF Posts
<1>3. ASSUME NEW n \in Notices, ClickRead(p, n)
      PROVE  \E new : Same(new)
  <2> DEFINE new == page.posts \cup {[n |-> n, stage |-> "sent"]}
  <2>1. new \in SUBSET Post
    BY <1>1 DEF Post
  <2>2. bell' = [bell EXCEPT ![p].posts = new]
    BY <1>3 DEF ClickRead
  <2>3. \A k \in page.posts : k \in new
    OBVIOUS
  <2> HIDE DEF new
  <2> QED
    BY <1>2, <2>1, <2>2, <2>3
<1>4. ASSUME NEW m \in page.posts, NEW stage \in {"sent", "done", "left"}
      PROVE  Restaged(page.posts, m, stage) \in SUBSET Post
  BY <1>1 DEF Restaged, Post
<1>5. ASSUME NEW m \in page.posts, MarkRead(p, m)
      PROVE  \E new : Same(new) /\ ~Answered(new)
  <2> DEFINE new == Restaged(page.posts, m, "done")
  <2>1. new \in SUBSET Post
    BY <1>4
  <2>2. bell' = [bell EXCEPT ![p].posts = new] /\ m.stage = "sent"
    BY <1>5 DEF MarkRead
  <2>3. /\ \A k \in page.posts : k.stage = "done" => k \in new
        /\ [n |-> m.n, stage |-> "done"] \in new
    BY <2>2 DEF Restaged
  <2>4. ~Answered(new)
    BY <2>3 DEF Answered
  <2> HIDE DEF new
  <2> QED
    BY <1>2, <2>1, <2>2, <2>3, <2>4
<1>6. ASSUME NEW m \in page.posts, MarkReadLate(p, m) \/ LosePost(p, m)
      PROVE  \E new : Same(new)
  <2> DEFINE new == page.posts \ {m}
  <2>1. new \in SUBSET Post
    BY <1>1
  <2>2. bell' = [bell EXCEPT ![p].posts = new] /\ m.stage = "left"
    BY <1>6 DEF MarkReadLate, LosePost
  <2>3. \A k \in page.posts : k.stage = "done" => k \in new
    BY <2>2
  <2> HIDE DEF new
  <2> QED
    BY <1>2, <2>1, <2>2, <2>3
<1>7. ASSUME NEW m \in page.posts, LoseMarked(p, m)
      PROVE  \E new :
               /\ new \in SUBSET Post /\ bell' = [bell EXCEPT ![p] = Posts(p, new)]
               /\ Same(new) \/ p \in excused'
  <2>1. CASE m.stage = "done"
    <3> DEFINE new == page.posts \ {m}
    <3>1. new \in SUBSET Post
      BY <1>1
    <3>2. bell' = [bell EXCEPT ![p].posts = new] /\ p \in excused'
      BY <1>7, <2>1 DEF LoseMarked
    <3> HIDE DEF new
    <3> QED
      BY <1>2, <3>1, <3>2
  <2>2. CASE m.stage = "sent"
    <3> DEFINE new == Restaged(page.posts, m, "left")
    <3>1. new \in SUBSET Post
      BY <1>4
    <3>2. bell' = [bell EXCEPT ![p].posts = new]
      BY <1>7, <2>2 DEF LoseMarked
    <3>3. \A k \in page.posts : k.stage = "done" => k \in new
      BY <2>2 DEF Restaged
    <3> HIDE DEF new
    <3> QED
      BY <1>2, <3>1, <3>2, <3>3
  <2> QED
    BY <1>7, <2>1, <2>2 DEF LoseMarked
<1> HIDE DEF Same
<1>8. /\ \A n \in Notices : ClickRead(p, n) => \E new : Same(new)
      /\ \A m \in bell[p].posts :
           /\ MarkRead(p, m) => \E new : Same(new) /\ ~Answered(new)
           /\ MarkReadLate(p, m) \/ LosePost(p, m) => \E new : Same(new)
           /\ LoseMarked(p, m) => \E new :
                /\ new \in SUBSET Post /\ bell' = [bell EXCEPT ![p] = Posts(p, new)]
                /\ Same(new) \/ p \in excused'
  BY <1>3, <1>5, <1>6, <1>7
<1> USE DEF Same
<1> QED
  BY <1>8

\* The page that is opened next.
LEMMA RemountPage ==
  ASSUME NoticeTypeOK, NEW p \in People, Remount(p)
  PROVE  \E new \in Page :
           /\ Fits(new) /\ bell' = [bell EXCEPT ![p] = new]
           /\ new.asked > 0 /\ new.replies = << >>
<1> DEFINE left == Left(bell[p].posts)
<1>1. 0 \in Counts
  BY FS_CardinalityType DEF Counts
<1>2. bell[p].posts \in SUBSET Post
  BY DEF NoticeTypeOK
<1>3. left \in SUBSET Post
  BY <1>2 DEF Left, Post
<1>4. bell' = [bell EXCEPT ![p] = NewPage(left)]
  BY DEF Remount
<1> HIDE DEF left
<1>5. /\ NewPage(left) \in Page /\ Fits(NewPage(left))
      /\ NewPage(left).asked > 0 /\ NewPage(left).replies = << >>
  BY <1>1, <1>3 DEF NewPage, Page, Fits
<1> QED
  BY <1>4, <1>5

-----------------------------------------------------------------------------
\* The steps of a page, with the connection of its user: a new page, or the same.
LEMMA PageTypeStep ==
  ASSUME NoticeTypeOK, NEW p \in People, NEW page \in Page, Fits(page),
         bell' = [bell EXCEPT ![p] = page],
         notice' = notice, read' \in SUBSET (Notices \X People), others' = others,
         stream' \in [People -> Connection],
         \A q \in People : Len(stream'[q].queue) <= QueueSize,
         excused' \in SUBSET People
  PROVE  NoticeTypeOK'
BY PageType DEF NoticeTypeOK, Page, Connection

LEMMA TypeStep ==
  ASSUME NoticeTypeOK, [NoticeNext]_bellVars
  PROVE  NoticeTypeOK'
<1>1. /\ notice \in [Notices -> Handling] /\ stream \in [People -> Connection]
      /\ \A p \in People : Len(stream[p].queue) <= QueueSize
      /\ bell \in [People -> Page]
      /\ read \in SUBSET (Notices \X People) /\ excused \in SUBSET People
      /\ others \in 0 .. MaxOthers
  BY DEF NoticeTypeOK, Handling, Connection, Page
<1>2. ASSUME NEW n \in Notices, NoticeStep(n)
      PROVE  NoticeTypeOK'
  <2>1. ASSUME NEW to \in SUBSET People, BeginNotice(n, to)
        PROVE  NoticeTypeOK'
    BY <2>1 DEF BeginNotice, NoticeTypeOK
  <2>2. ASSUME NEW p \in People, CreateInapp(n, p)
        PROVE  NoticeTypeOK'
    <3>1. /\ stream' \in [People -> Connection]
          /\ \A q \in People : Len(stream'[q].queue) <= QueueSize
          /\ excused' \in SUBSET People
      BY <2>2, EmitType DEF CreateInapp, Events
    <3>2. notice' \in [Notices -> Handling]
      BY <1>1, <2>2 DEF CreateInapp, Handling
    <3> QED
      BY <1>1, <2>2, <3>1, <3>2 DEF CreateInapp, NoticeTypeOK, Handling, Connection
  <2>3. CASE CommitNotice(n) \/ FailNotice(n)
    <3>1. notice' \in [Notices -> Handling]
      BY <1>1, <2>3 DEF CommitNotice, FailNotice, Handling
    <3> QED
      BY <1>1, <2>3, <3>1 DEF CommitNotice, FailNotice, NoticeTypeOK, Handling
  <2> QED
    BY <1>2, <2>1, <2>2, <2>3 DEF NoticeStep
<1>3. ASSUME NEW p \in People, BellStep(p)
      PROVE  NoticeTypeOK'
  <2>1. CASE EmitOther(p)
    <3>1. /\ stream' \in [People -> Connection]
          /\ \A q \in People : Len(stream'[q].queue) <= QueueSize
          /\ excused' \in SUBSET People
      BY <2>1, EmitType DEF EmitOther, Events
    <3> QED
      BY <1>1, <2>1, <3>1 DEF EmitOther, NoticeTypeOK, Connection
  <2>2. CASE Listen(p)
    BY <2>2 DEF Listen, NoticeTypeOK
  <2>3. Closed \in Connection /\ Len(Closed.queue) = 0
    BY DEF Closed, Connection
  <2>4. CASE Hang(p)
    <3>1. stream' = [stream EXCEPT ![p] = Closed] /\ excused' \in SUBSET People
      BY <1>1, <2>4 DEF Hang
    <3>2. /\ stream' \in [People -> Connection]
          /\ \A q \in People : Len(stream'[q].queue) <= QueueSize
      BY <1>1, <2>3, <3>1
    <3> QED
      BY <2>4, <3>1, <3>2 DEF Hang, NoticeTypeOK, Connection
  <2>5. CASE Hear(p)
    <3>1. stream[p].queue \in Seq(Events) /\ stream[p].queue # << >>
      BY <1>1, <2>5 DEF Hear, Connection
    <3>2. Tail(stream[p].queue) \in Seq(Events) /\ Len(Tail(stream[p].queue)) <= QueueSize
      BY <1>1, <3>1, HeadTailProperties
    <3>3. stream' = [stream EXCEPT ![p].queue = Tail(stream[p].queue)]
      BY <2>5 DEF Hear
    <3>4. /\ stream' \in [People -> Connection]
          /\ \A q \in People : Len(stream'[q].queue) <= QueueSize
      BY <3>2, <3>3, QueueType
    <3> QED
      BY <1>1, <2>5, <3>4, PageSteps, PageTypeStep DEF Hear
  <2>6. CASE AnswerCount(p)
    <3>1. PICK new \in Page : Fits(new) /\ bell' = [bell EXCEPT ![p] = new]
      BY <2>6, PageSteps
    <3>2. UNCHANGED <<notice, read, stream, others>> /\ excused' \in SUBSET People
      BY <1>1, <2>6 DEF AnswerCount
    <3> QED
      BY <1>1, <3>1, <3>2, PageTypeStep
  <2>7. ASSUME NEW i \in DOMAIN bell[p].replies, ShowCount(p, i)
        PROVE  NoticeTypeOK'
    <3>1. PICK new \in Page : Fits(new) /\ bell' = [bell EXCEPT ![p] = new]
      BY <2>7, ShowPage
    <3>2. UNCHANGED <<notice, read, stream, others>> /\ excused' \in SUBSET People
      BY <1>1, <2>7 DEF ShowCount
    <3> QED
      BY <1>1, <3>1, <3>2, PageTypeStep
  <2>8. CASE LoseCount(p)
    <3>1. PICK new \in Page : Fits(new) /\ bell' = [bell EXCEPT ![p] = new]
      BY <2>8, PageSteps
    <3>2. UNCHANGED <<notice, read, stream, others>> /\ excused' \in SUBSET People
      BY <1>1, <2>8 DEF LoseCount
    <3> QED
      BY <1>1, <3>1, <3>2, PageTypeStep
  <2>9. ASSUME NEW posts \in SUBSET Post, bell' = [bell EXCEPT ![p] = Posts(p, posts)],
               UNCHANGED <<notice, stream, others>>, read' \in SUBSET (Notices \X People),
               excused' \in SUBSET People
        PROVE  NoticeTypeOK'
    BY <1>1, <2>9, PostsType, PageTypeStep
  <2>10. ASSUME NEW n \in Notices, ClickRead(p, n)
         PROVE  NoticeTypeOK'
    <3>1. UNCHANGED <<notice, stream, others, read, excused>>
      BY <2>10 DEF ClickRead
    <3> QED
      BY <1>1, <2>9, <2>10, <3>1, ClickPages
  <2>11. ASSUME NEW m \in bell[p].posts, PostStep(p, m)
         PROVE  NoticeTypeOK'
    <3>1. m.n \in Notices
      BY <1>1 DEF Page, Post
    <3>2. CASE Marked(p, m)
      BY <1>1, <3>2, PageSteps, PageTypeStep DEF Marked
    <3>3. CASE ~Marked(p, m)
      <4>1. /\ UNCHANGED <<notice, stream, others>> /\ read' \in SUBSET (Notices \X People)
            /\ excused' \in SUBSET People
        BY <1>1, <2>11, <3>1, <3>3 DEF PostStep, MarkRead, MarkReadLate, LoseMarked, LosePost
      <4> QED
        BY <2>9, <2>11, <3>3, <4>1, ClickPages DEF PostStep
    <3> QED
      BY <3>2, <3>3
  <2>12. CASE Remount(p)
    <3>1. /\ stream' \in [People -> Connection]
          /\ \A q \in People : Len(stream'[q].queue) <= QueueSize
      BY <1>1, <2>3, <2>12 DEF Remount
    <3> QED
      BY <1>1, <2>12, <3>1, RemountPage, PageTypeStep DEF Remount
  <2> QED
    BY <1>3, <2>1, <2>2, <2>4, <2>5, <2>6, <2>7, <2>8, <2>9, <2>10, <2>11, <2>12 DEF BellStep
<1>4. CASE UNCHANGED bellVars
  BY <1>4 DEF bellVars, NoticeTypeOK
<1> QED
  BY <1>2, <1>3, <1>4 DEF NoticeNext

-----------------------------------------------------------------------------
(* The badge.                                                              *)

\* What may happen to p without a count being read or shown.
LEMMA Keeps ==
  ASSUME NEW p \in People, Sound(p), bell'[p] = bell[p], Unread(p)' = Unread(p),
         p \in excused => p \in excused',
         Holds(stream[p].queue, "notification") =>
           Holds(stream'[p].queue, "notification") \/ p \in excused',
         Announced(p)' # {} =>
           Announced(p) # {} \/ Holds(stream'[p].queue, "notification") \/ p \in excused'
  PROVE  Sound(p)'
BY DEF Sound, Heralded, Informed, Waiting, Youngest

\* A step that touches neither the notices nor what p has read.
LEMMA SameRows ==
  ASSUME NEW p \in People, notice' = notice,
         \A n \in Notices : <<n, p>> \in read' <=> <<n, p>> \in read
  PROVE  Unread(p)' = Unread(p) /\ Announced(p)' = Announced(p)
<1>1. Rows(p)' = Rows(p) /\ Announced(p)' = Announced(p)
  BY DEF Rows, Announced
<1>2. \A n \in Rows(p) : n \in Notices
  BY DEF Rows
<1>3. {n \in Rows(p) : <<n, p>> \notin read}' = {n \in Rows(p) : <<n, p>> \notin read}
  BY <1>1, <1>2
<1> QED
  BY <1>1, <1>3 DEF Unread

LEMMA NoticeSound ==
  ASSUME IInv, NEW n \in Notices, NoticeStep(n), NEW p \in People
  PROVE  Sound(p)'
<1>1. NoticeTypeOK /\ Sound(p)
  BY DEF IInv
<1>2. notice \in [Notices -> Handling]
  BY <1>1 DEF NoticeTypeOK, Handling
<1>3. ASSUME Rows(p)' = Rows(p), read' = read
      PROVE  Unread(p)' = Unread(p)
  BY <1>3 DEF Unread
<1>4. ASSUME NEW to \in SUBSET People, BeginNotice(n, to)
      PROVE  Sound(p)'
  <2>1. Rows(p)' = Rows(p) /\ Announced(p)' = Announced(p)
    BY <1>2, <1>4 DEF BeginNotice, Rows, Announced
  <2> QED
    BY <1>1, <1>3, <1>4, <2>1, Keeps DEF BeginNotice
<1>5. ASSUME NEW q \in People, CreateInapp(n, q)
      PROVE  Sound(p)'
  <2>1. Rows(p)' = Rows(p) /\ bell' = bell /\ read' = read
    BY <1>2, <1>5 DEF CreateInapp, Rows, Handling
  <2>2. /\ excused \subseteq excused'
        /\ q # p => stream'[p] = stream[p]
        /\ q = p => Holds(stream'[p].queue, "notification") \/ p \in excused'
    BY <1>1, <1>5, EmitType DEF CreateInapp, Events
  <2>3. q # p => Announced(p)' = Announced(p)
    BY <1>2, <1>5 DEF CreateInapp, Announced, Handling
  <2> QED
    BY <1>1, <1>3, <2>1, <2>2, <2>3, Keeps
<1>6. CASE CommitNotice(n)
  <2>1. UNCHANGED <<read, stream, bell, excused>>
    BY <1>6 DEF CommitNotice
  <2>2. CASE p \in notice[n].to
    <3>1. Announced(p) # {} /\ (p \notin excused => Waiting(p))
      BY <1>1, <1>6, <2>2 DEF CommitNotice, Announced, Sound, Heralded
    <3> QED
      BY <1>1, <2>1, <3>1 DEF Sound, Heralded, Informed, Waiting
  <2>3. CASE p \notin notice[n].to
    <3>1. Rows(p)' = Rows(p) /\ Announced(p)' = Announced(p)
      BY <1>2, <1>6, <2>3 DEF CommitNotice, Rows, Announced, Handling
    <3> QED
      BY <1>1, <1>3, <2>1, <3>1, Keeps
  <2> QED
    BY <2>2, <2>3
<1>7. CASE FailNotice(n)
  <2>1. Rows(p)' = Rows(p) /\ Announced(p)' \subseteq Announced(p)
    BY <1>2, <1>7 DEF FailNotice, Rows, Announced, Handling
  <2> QED
    BY <1>1, <1>3, <1>7, <2>1, Keeps DEF FailNotice
<1> QED
  BY <1>4, <1>5, <1>6, <1>7 DEF NoticeStep

\* The steps of another page, and those that leave the page as it is.
LEMMA ConnectionSound ==
  ASSUME IInv, NEW q \in People, NEW p \in People,
         \/ EmitOther(q) \/ Listen(q) \/ Hang(q)
         \/ q # p /\ BellStep(q)
  PROVE  Sound(p)'
<1>1. NoticeTypeOK /\ Sound(p) /\ stream \in [People -> Connection]
  BY DEF IInv, NoticeTypeOK, Connection
<1>2. CASE EmitOther(q)
  <2>1. /\ excused \subseteq excused'
        /\ q # p => stream'[p] = stream[p]
        /\ q = p => (Holds(stream[p].queue, "notification") =>
                       Holds(stream'[p].queue, "notification") \/ p \in excused')
    BY <1>1, <1>2, EmitType DEF EmitOther, Events
  <2>2. UNCHANGED <<notice, read, bell>>
    BY <1>2 DEF EmitOther
  <2> QED
    BY <1>1, <2>1, <2>2, Keeps, SameRows
<1>3. CASE Listen(q)
  <2>1. UNCHANGED <<notice, read, bell, excused>> /\ stream'[p].queue = stream[p].queue
    BY <1>1, <1>3 DEF Listen, Connection
  <2> QED
    BY <1>1, <2>1, Keeps, SameRows
<1>4. CASE Hang(q)
  <2>1. /\ UNCHANGED <<notice, read, bell>> /\ excused \subseteq excused'
        /\ q # p => stream'[p] = stream[p]
        /\ q = p => (Holds(stream[p].queue, "notification") => p \in excused')
    BY <1>1, <1>4 DEF Hang
  <2> QED
    BY <1>1, <2>1, Keeps, SameRows
<1>5. ASSUME q # p, Hear(q) \/ AnswerCount(q) \/ LoseCount(q) \/ Remount(q)
                      \/ (\E i \in DOMAIN bell[q].replies : ShowCount(q, i))
                      \/ (\E n \in Notices : ClickRead(q, n))
                      \/ (\E m \in bell[q].posts : PostStep(q, m))
      PROVE  Sound(p)'
  <2>0. bell \in [People -> Page]
    BY <1>1 DEF NoticeTypeOK, Page
  <2>1. /\ notice' = notice
        /\ \A n \in Notices : <<n, p>> \in read' <=> <<n, p>> \in read
        /\ p \in excused => p \in excused'
        /\ stream'[p] = stream[p]
        /\ bell'[p] = bell[p]
    <3>1. CASE Hear(q) \/ AnswerCount(q) \/ LoseCount(q) \/ Remount(q)
      BY <1>1, <1>5, <2>0, <3>1 DEF Hear, AnswerCount, LoseCount, Remount
    <3>2. CASE (\E i \in DOMAIN bell[q].replies : ShowCount(q, i))
               \/ (\E n \in Notices : ClickRead(q, n))
      BY <1>5, <2>0, <3>2 DEF ShowCount, ClickRead
    <3>3. ASSUME NEW m \in bell[q].posts, PostStep(q, m)
          PROVE  /\ notice' = notice
                 /\ \A n \in Notices : <<n, p>> \in read' <=> <<n, p>> \in read
                 /\ p \in excused => p \in excused'
                 /\ stream'[p] = stream[p]
                 /\ bell'[p] = bell[p]
      <4>1. CASE MarkRead(q, m) \/ MarkReadLate(q, m)
        BY <1>5, <2>0, <4>1 DEF MarkRead, MarkReadLate
      <4>2. CASE Marked(q, m) \/ LoseMarked(q, m) \/ LosePost(q, m)
        BY <1>5, <2>0, <4>2 DEF Marked, LoseMarked, LosePost
      <4> QED
        BY <3>3, <4>1, <4>2 DEF PostStep
    <3> QED
      BY <1>5, <3>1, <3>2, <3>3
  <2> QED
    BY <1>1, <2>1, Keeps, SameRows
<1> QED
  BY <1>2, <1>3, <1>4, <1>5 DEF BellStep

\* The steps of the page itself.
LEMMA PageSound ==
  ASSUME IInv, NEW p \in People,
         \/ Hear(p) \/ AnswerCount(p) \/ LoseCount(p) \/ Remount(p)
         \/ \E i \in DOMAIN bell[p].replies : ShowCount(p, i)
         \/ \E n \in Notices : ClickRead(p, n)
         \/ \E m \in bell[p].posts : PostStep(p, m)
  PROVE  Sound(p)'
<1>1. NoticeTypeOK /\ Sound(p) /\ bell \in [People -> Page] /\ stream \in [People -> Connection]
  BY DEF IInv, NoticeTypeOK, Page, Connection
<1>2. ASSUME NEW new \in Page, bell' = [bell EXCEPT ![p] = new]
      PROVE  bell'[p] = new
  BY <1>1, <1>2
<1>3. bell[p].asked \in Nat
  BY <1>1 DEF Page
<1>4. CASE Hear(p)
  <2>1. PICK new \in Page :
          /\ bell' = [bell EXCEPT ![p] = new]
          /\ new.asked >= bell[p].asked
          /\ Head(stream[p].queue) = "notification" => new.asked > 0
          /\ new.badge = bell[p].badge /\ new.replies = bell[p].replies
          /\ new.posts = bell[p].posts
    BY <1>1, <1>4, PageSteps
  <2>2. bell'[p] = new /\ new.asked \in Nat
    BY <1>2, <2>1 DEF Page
  <2>3. UNCHANGED <<notice, read, excused>> /\ stream'[p].queue = Tail(stream[p].queue)
        /\ stream[p].queue \in Seq(Events) /\ stream[p].queue # << >>
    BY <1>1, <1>4 DEF Hear, Connection
  <2>4. Unread(p)' = Unread(p) /\ Announced(p)' = Announced(p)
    BY <2>3, SameRows
  <2>5. Waiting(p) => Waiting(p)'
    <3>1. CASE bell[p].asked > 0
      BY <1>3, <2>1, <2>2, <3>1 DEF Waiting
    <3>2. CASE Head(stream[p].queue) = "notification"
      BY <2>1, <2>2, <3>2 DEF Waiting
    <3>3. CASE Head(stream[p].queue) # "notification" /\ Holds(stream[p].queue, "notification")
      <4>1. PICK i \in 1 .. Len(stream[p].queue) : stream[p].queue[i] = "notification"
        BY <2>3, <3>3 DEF Holds
      <4>2. i > 1 /\ i - 1 \in 1 .. Len(Tail(stream[p].queue))
        BY <2>3, <3>3, <4>1
      <4>3. Tail(stream[p].queue)[i - 1] = "notification"
        BY <2>3, <4>1, <4>2
      <4>4. Holds(Tail(stream[p].queue), "notification")
        <5>1. Tail(stream[p].queue) \in Seq(Events)
          BY <2>3
        <5>2. i - 1 \in DOMAIN Tail(stream[p].queue)
          BY <4>2, <5>1
        <5> QED
          BY <4>3, <5>2 DEF Holds
      <4> QED
        BY <2>3, <4>4 DEF Waiting
    <3> QED
      BY <3>1, <3>2, <3>3 DEF Waiting
  <2>6. Youngest(p)' = Youngest(p)
    BY <2>1, <2>2 DEF Youngest
  <2>7. ~Waiting(p)' => ~Waiting(p)
    BY <2>5
  <2> QED
    BY <1>1, <2>1, <2>2, <2>3, <2>4, <2>5, <2>6 DEF Sound, Heralded, Informed
<1>5. CASE AnswerCount(p)
  <2>1. PICK new \in Page :
          /\ bell' = [bell EXCEPT ![p] = new]
          /\ new.replies # << >>
          /\ new.replies[Len(new.replies)] = [count |-> Unread(p), late |-> FALSE]
          /\ Ordered(bell[p].replies) => Ordered(new.replies)
    BY <1>1, <1>5, PageSteps
  <2>2. bell'[p] = new
    BY <1>2, <2>1
  <2>3. UNCHANGED <<notice, read, stream>> /\ (p \notin excused' => Announced(p) = {})
    BY <1>5 DEF AnswerCount
  <2>4. Unread(p)' = Unread(p) /\ Announced(p)' = Announced(p)
    BY <2>3, SameRows
  <2>5. Youngest(p)' = Unread(p)
    BY <2>1, <2>2 DEF Youngest
  <2> QED
    BY <1>1, <2>1, <2>2, <2>3, <2>4, <2>5 DEF Sound, Heralded, Informed
<1>6. CASE LoseCount(p)
  <2>1. p \in excused' /\ \E new \in Page :
          bell' = [bell EXCEPT ![p] = new] /\ new.replies = bell[p].replies
    BY <1>1, <1>6, PageSteps DEF LoseCount
  <2>2. bell'[p].replies = bell[p].replies
    BY <1>2, <2>1
  <2> QED
    BY <1>1, <2>1, <2>2 DEF Sound, Heralded, Informed
<1>7. ASSUME Remount(p) \/ \E m \in bell[p].posts : Marked(p, m)
      PROVE  Sound(p)'
  <2>1. PICK new \in Page : /\ bell' = [bell EXCEPT ![p] = new] /\ new.asked > 0
                            /\ new.replies \in {bell[p].replies, << >>}
    <3>1. CASE \E m \in bell[p].posts : Marked(p, m)
      BY <1>1, <3>1, PageSteps
    <3>2. CASE Remount(p)
      BY <1>1, <3>2, RemountPage
    <3> QED
      BY <1>7, <3>1, <3>2
  <2>2. bell'[p].asked > 0 /\ bell'[p].replies \in {bell[p].replies, << >>}
    BY <1>2, <2>1
  <2>3. Ordered(bell'[p].replies)
    BY <1>1, <2>2 DEF Sound, Ordered
  <2> QED
    BY <2>2, <2>3 DEF Sound, Heralded, Informed, Waiting
<1>8. ASSUME NEW posts \in SUBSET Post, bell' = [bell EXCEPT ![p] = Posts(p, posts)],
             UNCHANGED <<notice, stream>>, excused \subseteq excused',
             \/ p \in excused'
             \/ ~Answered(posts)
             \/ /\ \A n \in Notices : <<n, p>> \in read' <=> <<n, p>> \in read
                /\ \A k \in bell[p].posts : k.stage = "done" => k \in posts
      PROVE  Sound(p)'
  <2>1. /\ bell'[p].posts = posts /\ bell'[p].badge = bell[p].badge
        /\ bell'[p].asked = bell[p].asked /\ bell'[p].replies = bell[p].replies
    BY <1>1, <1>2, <1>8, PostsType
  <2>2. Announced(p)' = Announced(p) /\ Waiting(p)' = Waiting(p) /\ Youngest(p)' = Youngest(p)
    BY <1>8, <2>1 DEF Announced, Waiting, Youngest
  <2>3. Heralded(p)' /\ Ordered(bell'[p].replies)
    BY <1>1, <1>8, <2>1, <2>2 DEF Sound, Heralded
  <2>4. Informed(p)'
    <3>1. CASE p \in excused' \/ ~Answered(posts)
      BY <2>1, <3>1 DEF Informed
    <3>2. CASE /\ \A n \in Notices : <<n, p>> \in read' <=> <<n, p>> \in read
               /\ \A k \in bell[p].posts : k.stage = "done" => k \in posts
      <4>1. Unread(p)' = Unread(p)
        BY <1>8, <3>2, SameRows
      <4>2. Answered(posts) => Answered(bell[p].posts)
        BY <3>2 DEF Answered
      <4> QED
        BY <1>1, <1>8, <2>1, <2>2, <4>1, <4>2 DEF Sound, Informed
    <3> QED
      BY <1>8, <3>1, <3>2
  <2> QED
    BY <2>3, <2>4 DEF Sound
<1>10. ASSUME NEW n \in Notices, ClickRead(p, n)
       PROVE  Sound(p)'
  <2>1. UNCHANGED <<notice, stream, read, excused>>
    BY <1>10 DEF ClickRead
  <2> QED
    BY <1>1, <1>8, <1>10, <2>1, ClickPages
<1>11. ASSUME NEW m \in bell[p].posts, PostStep(p, m), ~Marked(p, m)
       PROVE  Sound(p)'
  <2>1. UNCHANGED <<notice, stream>> /\ excused \subseteq excused'
    BY <1>11 DEF PostStep, MarkRead, MarkReadLate, LoseMarked, LosePost
  <2>2. CASE MarkRead(p, m)
    BY <1>1, <1>8, <2>1, <2>2, ClickPages
  <2>3. CASE MarkReadLate(p, m)
    <3>1. p \in excused' \/ read' = read
      BY <2>3 DEF MarkReadLate
    <3> QED
      BY <1>1, <1>8, <2>1, <2>3, <3>1, ClickPages
  <2>4. CASE LoseMarked(p, m) \/ LosePost(p, m)
    <3>1. read' = read
      BY <2>4 DEF LoseMarked, LosePost
    <3> QED
      BY <1>1, <1>8, <2>1, <2>4, <3>1, ClickPages
  <2> QED
    BY <1>11, <2>2, <2>3, <2>4 DEF PostStep
<1>9. ASSUME NEW i \in DOMAIN bell[p].replies, ShowCount(p, i)
      PROVE  Sound(p)'
  <2> DEFINE replies == bell[p].replies
             last == Len(replies)
  <2>1. PICK new \in Page :
          /\ bell' = [bell EXCEPT ![p] = new]
          /\ new.badge = replies[i].count
          /\ new.asked = bell[p].asked /\ new.posts = bell[p].posts
          /\ Len(new.replies) = last - 1
          /\ i = last /\ last > 1 => new.replies[last - 1].late
          /\ i < last => new.replies[last - 1] = replies[last]
          /\ Ordered(replies) => Ordered(new.replies)
    BY <1>1, <1>9, ShowPage
  <2>2. bell'[p] = new /\ new.replies \in Seq(Reply)
    BY <1>2, <2>1 DEF Page
  <2>3. /\ UNCHANGED <<notice, read, stream>>
        /\ replies[i].late => p \in excused'
        /\ ~replies[i].late => excused' = excused
    BY <1>9 DEF ShowCount
  <2>4. Unread(p)' = Unread(p) /\ Announced(p)' = Announced(p)
    BY <2>3, SameRows
  <2>5. last \in Nat /\ i \in 1 .. last /\ replies \in Seq(Reply)
    BY <1>1, <1>9 DEF Page
  <2>6. Ordered(replies)
    BY <1>1 DEF Sound
  <2>7. ASSUME ~replies[i].late
        PROVE  Youngest(p)' = Youngest(p)
    <3>1. CASE i = last /\ last > 1
      BY <2>1, <2>2, <2>5, <2>7, <3>1 DEF Youngest
    <3>2. CASE i = last /\ last = 1
      BY <2>1, <2>2, <2>5, <2>7, <3>2 DEF Youngest
    <3>3. CASE i < last
      <4>1. ~replies[last].late
        BY <2>5, <2>6, <2>7, <3>3 DEF Ordered
      <4> QED
        BY <2>1, <2>2, <2>5, <3>3, <4>1 DEF Youngest
    <3>4. (i = last /\ last > 1) \/ (i = last /\ last = 1) \/ i < last
      <4> HIDE DEF last
      <4> QED
        BY <2>5
    <3> QED
      BY <3>1, <3>2, <3>3, <3>4
  <2>8. Waiting(p)' = Waiting(p) /\ bell'[p].posts = bell[p].posts
    BY <2>1, <2>2, <2>3 DEF Waiting
  <2>9. Ordered(bell'[p].replies)
    BY <2>1, <2>2, <2>6
  <2>10. CASE replies[i].late
    BY <2>3, <2>9, <2>10 DEF Sound, Heralded, Informed
  <2>11. CASE ~replies[i].late
    BY <1>1, <2>3, <2>4, <2>7, <2>8, <2>9, <2>11 DEF Sound, Heralded, Informed
  <2> QED
    BY <2>10, <2>11
<1> QED
  BY <1>4, <1>5, <1>6, <1>7, <1>9, <1>10, <1>11

-----------------------------------------------------------------------------
LEMMA NextIInv == IInv /\ [NoticeNext]_bellVars => IInv'
<1> SUFFICES ASSUME IInv, [NoticeNext]_bellVars PROVE IInv'
  OBVIOUS
<1>1. NoticeTypeOK'
  BY TypeStep DEF IInv
<1>2. ASSUME NEW p \in People PROVE Sound(p)'
  <2>1. ASSUME NEW n \in Notices, NoticeStep(n) PROVE Sound(p)'
    BY <2>1, NoticeSound
  <2>2. ASSUME NEW q \in People, BellStep(q) PROVE Sound(p)'
    <3>1. CASE EmitOther(q) \/ Listen(q) \/ Hang(q) \/ q # p
      BY <2>2, <3>1, ConnectionSound
    <3>2. CASE q = p /\ ~(EmitOther(p) \/ Listen(p) \/ Hang(p))
      BY <2>2, <3>2, PageSound DEF BellStep
    <3> QED
      BY <3>1, <3>2
  <2>3. CASE UNCHANGED bellVars
    <3>1. UNCHANGED <<notice, read, stream, bell, excused>>
      BY <2>3 DEF bellVars
    <3> QED
      BY <3>1, SameRows, Keeps DEF IInv
  <2> QED
    BY <2>1, <2>2, <2>3 DEF NoticeNext
<1> QED
  BY <1>1, <1>2 DEF IInv

LEMMA SpecIInv == NoticeSpec => []IInv
BY InitIInv, NextIInv, PTL DEF NoticeSpec

\* A queue of events never outgrows its size, and no page has more requests for a
\* count under way than the model lets it, for any people, notices and sizes.
THEOREM NoticeTypesHold == NoticeSpec => []NoticeTypeOK
<1>1. IInv => NoticeTypeOK
  BY DEF IInv
<1> QED
  BY <1>1, SpecIInv, PTL

\* The badge of a page that waits for nothing is the number of unread rows, unless
\* one of the named losses has happened since the last sound count: for any number
\* of recipients and notices that overlap, and any size of the queues.
THEOREM BadgesAreRight == NoticeSpec => []BadgeIsRight
<1>1. IInv => BadgeIsRight
  <2> SUFFICES ASSUME IInv, NEW p \in People, Settled(p), p \notin excused
               PROVE  bell[p].badge = Unread(p)
    BY DEF BadgeIsRight
  <2>1. Sound(p) /\ ~Waiting(p) /\ Youngest(p) = bell[p].badge
    BY DEF IInv, Settled, Waiting, Youngest
  <2>2. Answered(bell[p].posts)
    BY DEF Answered, Settled
  <2> QED
    BY <2>1, <2>2 DEF Sound, Informed
<1> QED
  BY <1>1, SpecIInv, PTL
=============================================================================
