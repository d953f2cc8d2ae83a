--------------------------- MODULE Notifications ---------------------------
(***************************************************************************)
(* Notifications inside the portal: the rows and the events that a notify_ *)
(* handler makes (services/notifications.py), the queue of a stream of     *)
(* server-sent events (notifications/sse.py), and the bell that shows how  *)
(* many are unread (api/v1/notifications.py, notification-bell.tsx,        *)
(* use-sse.ts).                                                            *)
(*                                                                         *)
(* Every recipient has one page open, with a bell of its own: a link of    *)
(* the bell opens another page while its POST is under way.  The bell      *)
(* never counts events: each makes it ask for the count, and the replies   *)
(* are shown as they arrive.                                               *)
(* A handler emits the event of a row when the row is flushed, before the  *)
(* commit.  Which people a notice is for, its text and the e-mails are     *)
(* left out; so is the list under the bell, which is asked for likewise.   *)
(***************************************************************************)
EXTENDS Naturals, Sequences, FiniteSets

CONSTANTS
  People,      \* recipients
  Notices,     \* calls of a notify_ handler
  QueueSize,   \* maxsize of a stream's queue
  MaxOthers,   \* bound: events of other kinds
  MaxAsked,    \* bound: requests for one count that are under way, replies included
  MaxPosts     \* bound: POSTs of one person that are under way, replies included

ASSUME NoticesAssumption == IsFiniteSet(Notices)
ASSUME QueueAssumption == QueueSize \in Nat \ {0}
ASSUME BellAssumption == MaxOthers \in Nat /\ MaxAsked \in Nat \ {0} /\ MaxPosts \in Nat

VARIABLES
  notice,     \* notice[n]: its handler, whom it is for, whose rows are flushed
  read,       \* the committed rows <<n, p>> with read_at
  stream,     \* stream[p]: a connection is registered, and its queue
  others,     \* how many events of other kinds there have been
  bell,       \* bell[p]: what the page shows and what it waits for
  excused     \* history: why p's badge may be out of date, see BadgeIsRight

bellVars == <<notice, read, stream, others, bell, excused>>

Events == {"notification", "other"}

\* late: a younger reply has been shown before this one.
Counts == 0 .. Cardinality(Notices)
Reply == [count : Counts, late : BOOLEAN]

\* POST /read of a notice: "sent" by the page that waits for its reply, "done" when it
\* is committed and the reply is on its way, "left" when nobody waits for it any more.  Two of one row at one
\* stage count as one: the later commit changes nothing that is asked for.
Post == [n : Notices, stage : {"sent", "done", "left"}]

NoticeTypeOK ==
  /\ notice \in [Notices -> [pc : {"idle", "flushing", "committed", "rolled_back"},
                             to : SUBSET People, told : SUBSET People]]
  /\ read \in SUBSET (Notices \X People)
  /\ stream \in [People -> [open : BOOLEAN, queue : Seq(Events)]]
  /\ \A p \in People : Len(stream[p].queue) <= QueueSize
  /\ others \in 0 .. MaxOthers
  /\ bell \in [People -> [badge : Counts, asked : Nat, replies : Seq(Reply),
                          posts : SUBSET Post]]
  /\ \A p \in People : bell[p].asked + Len(bell[p].replies) <= MaxAsked
  /\ excused \in SUBSET People

\* The page has just been opened: it asks for the count, and the stream is not
\* registered yet.  POSTs of the page before it may be under way.
NewPage(posts) == [badge |-> 0, asked |-> 1, replies |-> << >>, posts |-> posts]
Closed == [open |-> FALSE, queue |-> << >>]

NoticeInit ==
  /\ notice = [n \in Notices |-> [pc |-> "idle", to |-> {}, told |-> {}]]
  /\ read = {}
  /\ stream = [p \in People |-> Closed]
  /\ others = 0
  /\ bell = [p \in People |-> NewPage({})]
  /\ excused = {}

-----------------------------------------------------------------------------
Rows(p) == {n \in Notices : notice[n].pc = "committed" /\ p \in notice[n].to}
Unread(p) == Cardinality({n \in Rows(p) : <<n, p>> \notin read})

\* Its event is out and its row is not.
Announced(p) == {n \in Notices : notice[n].pc = "flushing" /\ p \in notice[n].told}

MayAsk(p) == bell[p].asked + Len(bell[p].replies) < MaxAsked

Holds(queue, event) == \E i \in DOMAIN queue : queue[i] = event

\* Mutant of Pushed: a full queue loses its oldest event, and the new one too.
PushedUnlessFull(queue, event) ==
  IF Len(queue) < QueueSize THEN Append(queue, event) ELSE Tail(queue)

\* Mutant of Pushed: a queue without maxsize.
PushedAlways(queue, event) == Append(queue, event)

\* emit_to_user: a full queue loses its oldest event.
Pushed(queue, event) ==
  IF Len(queue) < QueueSize THEN Append(queue, event) ELSE Append(Tail(queue), event)

\* The event goes to the connection p has at this moment.  A notification is lost
\* without a successor if there is no connection, or if the event that pushes it
\* out is of another kind and no other notification is queued behind it.
Emit(p, event) ==
  LET old == stream[p].queue
      new == Pushed(old, event)
      unheard == event = "notification" /\ ~stream[p].open
      evicted == /\ event = "other"
                 /\ Holds(old, "notification")
                 /\ ~Holds(new, "notification")
  IN
  /\ stream' = IF stream[p].open THEN [stream EXCEPT ![p].queue = new] ELSE stream
  /\ excused' = IF unheard \/ (stream[p].open /\ evicted) THEN excused \cup {p} ELSE excused

-----------------------------------------------------------------------------
(* notify_report_submitted, notify_approval_decision,                      *)
(* notify_transition_decision.                                             *)

BeginNotice(n, to) ==
  /\ notice[n].pc = "idle"
  /\ notice' = [notice EXCEPT ![n] = [pc |-> "flushing", to |-> to, told |-> {}]]
  /\ UNCHANGED <<read, stream, others, bell, excused>>

\* _create_inapp.
CreateInapp(n, p) ==
  /\ notice[n].pc = "flushing"
  /\ p \in notice[n].to \ notice[n].told
  /\ notice' = [notice EXCEPT ![n].told = @ \cup {p}]
  /\ Emit(p, "notification")
  /\ UNCHANGED <<read, others, bell>>

CommitNotice(n) ==
  /\ notice[n].pc = "flushing"
  /\ notice[n].told = notice[n].to
  /\ notice' = [notice EXCEPT ![n].pc = "committed"]
  /\ UNCHANGED <<read, stream, others, bell, excused>>

\* The caller goes on; the rows are rolled back, the events are not.
FailNotice(n) ==
  /\ notice[n].pc = "flushing"
  /\ notice' = [notice EXCEPT ![n].pc = "rolled_back"]
  /\ UNCHANGED <<read, stream, others, bell, excused>>

\* "proposal_extracted" and "report_insights_ready" of the stubs, which the bell
\* passes over.
EmitOther(p) ==
  /\ others < MaxOthers
  /\ others' = others + 1
  /\ Emit(p, "other")
  /\ UNCHANGED <<notice, read, bell>>

-----------------------------------------------------------------------------
(* The stream.                                                             *)

\* subscribe: a queue of its own.
Listen(p) ==
  /\ ~stream[p].open
  /\ stream' = [stream EXCEPT ![p].open = TRUE]
  /\ UNCHANGED <<notice, read, others, bell, excused>>

\* The connection ends, or the bell is opened or closed, which aborts it and
\* listens anew: what is queued is gone.  Nothing else ever listens again.
Hang(p) ==
  /\ stream[p].open
  /\ stream' = [stream EXCEPT ![p] = Closed]
  /\ excused' = IF Holds(stream[p].queue, "notification") THEN excused \cup {p} ELSE excused
  /\ UNCHANGED <<notice, read, others, bell>>

\* Mutant of Hear: the bell counts by itself.
HearAndCount(p) ==
  /\ stream[p].queue # << >>
  /\ bell[p].badge < Cardinality(Notices)
  /\ stream' = [stream EXCEPT ![p].queue = Tail(@)]
  /\ bell' = IF Head(stream[p].queue) = "notification"
               THEN [bell EXCEPT ![p].badge = @ + 1] ELSE bell
  /\ UNCHANGED <<notice, read, others, excused>>

\* The oldest event arrives; a notification asks for the count.
Hear(p) ==
  /\ stream[p].queue # << >>
  /\ MayAsk(p)
  /\ stream' = [stream EXCEPT ![p].queue = Tail(@)]
  /\ bell' = IF Head(stream[p].queue) = "notification"
               THEN [bell EXCEPT ![p].asked = @ + 1] ELSE bell
  /\ UNCHANGED <<notice, read, others, excused>>

-----------------------------------------------------------------------------
(* The bell.                                                               *)

\* unread_count: what is committed now.  It makes up for what was lost, unless
\* the row of an event that is out is still to come.
AnswerCount(p) ==
  /\ bell[p].asked > 0
  /\ bell' = [bell EXCEPT ![p].asked = @ - 1,
                          ![p].replies = Append(@, [count |-> Unread(p), late |-> FALSE])]
  /\ excused' = IF Announced(p) = {} THEN excused \ {p} ELSE excused \cup {p}
  /\ UNCHANGED <<notice, read, stream, others>>

\* One of the replies arrives: the older ones are late from now on.
ShowCount(p, i) ==
  /\ LET replies == bell[p].replies
         kept(k) == IF k < i THEN [replies[k] EXCEPT !.late = TRUE] ELSE replies[k + 1]
     IN
     /\ bell' = [bell EXCEPT ![p].badge = replies[i].count,
                             ![p].replies = [k \in 1 .. Len(replies) - 1 |-> kept(k)]]
     /\ excused' = IF replies[i].late THEN excused \cup {p} ELSE excused
  /\ UNCHANGED <<notice, read, stream, others>>

\* "silencioso": a request for the count fails.
LoseCount(p) ==
  /\ bell[p].asked > 0
  /\ bell' = [bell EXCEPT ![p].asked = @ - 1]
  /\ excused' = excused \cup {p}
  /\ UNCHANGED <<notice, read, stream, others>>

\* markRead: the POST of a row, read or not, is sent.
ClickRead(p, n) ==
  /\ n \in Rows(p)
  /\ Cardinality(bell[p].posts) < MaxPosts
  /\ bell' = [bell EXCEPT ![p].posts = @ \cup {[n |-> n, stage |-> "sent"]}]
  /\ UNCHANGED <<notice, read, stream, others, excused>>

\* The stage of a POST becomes another one.
Restaged(posts, m, stage) == (posts \ {m}) \cup {[n |-> m.n, stage |-> stage]}

\* mark_read commits.
MarkRead(p, m) ==
  /\ m.stage = "sent"
  /\ read' = read \cup {<<m.n, p>>}
  /\ bell' = [bell EXCEPT ![p].posts = Restaged(@, m, "done")]
  /\ UNCHANGED <<notice, stream, others, excused>>

\* The same when no page waits for the reply: no count follows it.
MarkReadLate(p, m) ==
  /\ m.stage = "left"
  /\ read' = read \cup {<<m.n, p>>}
  /\ bell' = [bell EXCEPT ![p].posts = @ \ {m}]
  /\ excused' = IF <<m.n, p>> \in read THEN excused ELSE excused \cup {p}
  /\ UNCHANGED <<notice, stream, others>>

\* Mutant of Marked: the reply is not followed by a new count.
MarkedOnly(p, m) ==
  /\ m.stage = "done"
  /\ bell' = [bell EXCEPT ![p].posts = @ \ {m}]
  /\ UNCHANGED <<notice, read, stream, others, excused>>

\* The reply arrives.
Marked(p, m) ==
  /\ m.stage = "done"
  /\ MayAsk(p)
  /\ bell' = [bell EXCEPT ![p].posts = @ \ {m}, ![p].asked = @ + 1]
  /\ UNCHANGED <<notice, read, stream, others, excused>>

\* The page has an error for an answer, whether the POST is committed, will be or
\* will not.
LoseMarked(p, m) ==
  /\ \/ /\ m.stage = "done"
        /\ bell' = [bell EXCEPT ![p].posts = @ \ {m}]
        /\ excused' = excused \cup {p}
     \/ /\ m.stage = "sent"
        /\ bell' = [bell EXCEPT ![p].posts = Restaged(@, m, "left")]
        /\ UNCHANGED excused
  /\ UNCHANGED <<notice, read, stream, others>>

\* A POST that nobody waits for never arrives, or fails.
LosePost(p, m) ==
  /\ m.stage = "left"
  /\ bell' = [bell EXCEPT ![p].posts = @ \ {m}]
  /\ UNCHANGED <<notice, read, stream, others, excused>>

\* POSTs that are not committed when their page is left.
Left(posts) == {[n |-> m.n, stage |-> "left"] : m \in {k \in posts : k.stage # "done"}}

\* p opens another page, by a link of the bell or otherwise.
Remount(p) ==
  /\ bell' = [bell EXCEPT ![p] = NewPage(Left(@.posts))]
  /\ stream' = [stream EXCEPT ![p] = Closed]
  /\ UNCHANGED <<notice, read, others, excused>>

-----------------------------------------------------------------------------
NoticeStep(n) ==
  \/ \E to \in SUBSET People \ {{}} : BeginNotice(n, to)
  \/ \E p \in People : CreateInapp(n, p)
  \/ CommitNotice(n) \/ FailNotice(n)

PostStep(p, m) ==
  MarkRead(p, m) \/ MarkReadLate(p, m) \/ Marked(p, m) \/ LoseMarked(p, m) \/ LosePost(p, m)

BellStep(p) ==
  \/ EmitOther(p) \/ Listen(p) \/ Hang(p) \/ Hear(p) \/ AnswerCount(p)
  \/ \E i \in DOMAIN bell[p].replies : ShowCount(p, i)
  \/ LoseCount(p)
  \/ \E n \in Notices : ClickRead(p, n)
  \/ \E m \in bell[p].posts : PostStep(p, m)
  \/ Remount(p)

NoticeNext == (\E n \in Notices : NoticeStep(n)) \/ (\E p \in People : BellStep(p))

NoticeSpec == NoticeInit /\ [][NoticeNext]_bellVars

-----------------------------------------------------------------------------
\* No count that p's page has asked for, and nothing that makes it ask, is under way.
Settled(p) ==
  /\ bell[p].asked = 0 /\ bell[p].replies = << >>
  /\ \A m \in bell[p].posts : m.stage # "done"
  /\ ~Holds(stream[p].queue, "notification")
  /\ Announced(p) = {}

\* "SSE para notificacoes em tempo real" (docs/arquitetura.md:52): a settled badge
\* shows the number of unread rows.  What may have gone wrong since the last count
\* that had nothing in front of it is one of these: a notification found no
\* connection or died with one; events of another kind pushed out the last one
\* queued (sse.py:55-64); the count was read between the event and the commit
\* (notifications.py:55-66 against :109); a request failed; an older reply came
\* after a younger one (notification-bell.tsx:18-25); a POST /read whose page did not
\* wait for it any more was committed (the link of a notification sends it and opens
\* another page, notification-bell.tsx:113-117, whose bell may count before the commit,
\* notifications.py:269-271).  Overlapping handlers, rollbacks, overlapping clicks, a
\* page left after the commit or before a POST that fails, and notifications that push
\* each other out do it no harm.
BadgeIsRight ==
  \A p \in People : Settled(p) /\ p \notin excused => bell[p].badge = Unread(p)
=============================================================================
