------------------------------- MODULE Stream -------------------------------
(***************************************************************************)
(* One project's card on the overview page, kept up by the event stream.   *)
(*                                                                         *)
(* A change of the project commits with its event.  Three handlers of the  *)
(* bus react to it in any order: the engine rescores and issues an event   *)
(* of its own, the snapshot-builder rebuilds the queue's row, sse-fanout   *)
(* publishes a frame.  GET /api/stream forwards what is published while    *)
(* the browser is subscribed and nothing of what was before.  The page is  *)
(* rendered from the row, and then patched by the frames it hears.         *)
(*                                                                         *)
(* What two rescorings or two rebuilds do to each other is in Ranking and  *)
(* CommandCenter: here one of each is in hand at a time.  A state and a    *)
(* score are the number of the commit they come from.                      *)
(*                                                                         *)
(* Init, Next and Spec bear the tab's name here, since CommandCenterProofs *)
(* speaks of this module and of CommandCenter.                             *)
(***************************************************************************)
EXTENDS Naturals, FiniteSets, Sequences, SequencesExt

CONSTANTS
  SeenLimit,     \* SEEN_ID_LIMIT of the browser's store
  MaxCommits,    \* bound: changes of the project
  MaxFaults,     \* bound: connections lost, claims of sse-fanout rolled back
                 \* and reads of the queue refused
  Nothing

ASSUME StreamBounds ==
  SeenLimit \in Nat \ {0} /\ MaxCommits \in Nat /\ MaxFaults \in Nat

\* What a card shows that frames patch.
Aspect == {"state", "score"}

Version == 0..MaxCommits
Instant == 0..MaxCommits

\* EventEnvelope: "edit" stands for every topic the engine reacts to and the
\* overview has no handler for.  A change and the rescoring it causes share
\* their instant, and no two changes do: topic and instant are the identity.
Event == [topic : Aspect \cup {"edit"}, at : Instant, value : Version]

\* stream.reset: no id, no envelope.
Reset == [topic |-> "reset", at |-> 0, value |-> 0]

\* What rebuild_snapshot copies; a ProjectSnapshot, and a card, whose
\* updatedAt is the row's rebuilt_at.
Content == [state : Version, score : Version]
Row == [state : Version, score : Version, at : Instant]

ASSUME NothingIsNoRow == Nothing \notin Row \cup Content

VARIABLES
  clock,     \* admissions so far: the only instants told apart
  admitted,  \* requests whose now is taken and whose row is not locked yet
  commits,   \* changes committed
  truth,     \* the state and the score stored
  unscored,  \* events the priority-recalculator has not handled
  unbuilt,   \* how many the snapshot-builder has not
  unsent,    \* those sse-fanout has not
  copied,    \* what the snapshot-builder has read, not written
  snapshot,  \* ProjectSnapshot
  page,      \* "away", "loading" (rendered, scripts not run) or "mounted"
  card,      \* None when the region shows its error arm
  open,      \* the channel is subscribed for the tab's EventSource
  resumes,   \* lastEventId is set
  seen,      \* seenOrder, and seenIds
  work,      \* the chain pending of overview/live.ts
  excused,   \* history: aspects whose news the card had no way to show
  faults

database == <<clock, admitted, commits, truth, snapshot, copied>>
bus == <<unscored, unbuilt, unsent>>
browser == <<page, card, open, resumes, seen, work, excused>>
tabVars == <<database, bus, browser, faults>>

\* A frame the page will still take, with that chain, and says how an aspect is.
Coming(a, chain) ==
  \E e \in (unsent \ ToSet(seen)) \cup ToSet(chain) :
    e.topic = a /\ e.value = truth[a]

\* The queue is about to be read again.
RereadComing == (~open /\ resumes) \/ Reset \in ToSet(work)

Shown == page # "away" /\ card # Nothing

\* A frame that says what the card does not show and what is so.
News(e) ==
  /\ Shown /\ e.topic \in Aspect
  /\ e.value = truth[e.topic] /\ card[e.topic] # e.value

\* What a card with that content misses, and no frame will say.
Behind(r, chain) == {a \in Aspect : r[a] # truth[a] /\ ~Coming(a, chain)}

-----------------------------------------------------------------------------
(* The server. *)

\* The router takes now before the service locks the project.
Admit(topic) ==
  /\ commits + Cardinality(admitted) < MaxCommits
  /\ clock' = clock + 1
  /\ admitted' = admitted \cup {[topic |-> topic, at |-> clock + 1]}
  /\ UNCHANGED <<commits, truth, snapshot, copied, bus, browser, faults>>

\* The snapshot-builder and sse-fanout are subscribed to every topic here.
Issue(e) == unbuilt' = unbuilt + 1 /\ unsent' = unsent \cup {e}

\* transition_project, or any other change, and enqueue_event beside it.
Change(r) ==
  LET moves == r.topic = "state"
      e     == [topic |-> r.topic, at |-> r.at,
                value |-> IF moves THEN commits + 1 ELSE 0]
  IN /\ admitted' = admitted \ {r}
     /\ commits' = commits + 1
     /\ truth' = IF moves THEN [truth EXCEPT !.state = commits + 1] ELSE truth
     /\ unscored' = unscored \cup {e}
     /\ Issue(e)
     /\ UNCHANGED <<clock, snapshot, copied, browser, faults>>

\* _rescore: a score that moved is announced, at the instant of the event.
Recalculate(e) ==
  /\ unscored' = unscored \ {e}
  /\ IF truth.score = commits THEN UNCHANGED <<truth, unbuilt, unsent>>
     ELSE /\ truth' = [truth EXCEPT !.score = commits]
          /\ Issue([topic |-> "score", at |-> e.at, value |-> commits])
  /\ UNCHANGED <<clock, admitted, commits, snapshot, copied, browser, faults>>

\* rebuild_snapshot reads the project and its score ...
Build ==
  /\ copied = Nothing /\ unbuilt > 0
  /\ unbuilt' = unbuilt - 1
  /\ copied' = truth
  /\ UNCHANGED <<clock, admitted, commits, truth, snapshot, unscored, unsent,
                 browser, faults>>

\* ... and upsert stamps the row with the instant it saves it: after every
\* admission there has been, and before the next.
Upsert ==
  /\ copied # Nothing
  /\ snapshot' = [state |-> copied.state, score |-> copied.score, at |-> clock]
  /\ copied' = Nothing
  /\ UNCHANGED <<clock, admitted, commits, truth, bus, browser, faults>>

-----------------------------------------------------------------------------
(* The channel and the browser's store.  A frame is received as it is      *)
(* published: a late one is one published later, and one lost on the way   *)
(* is one published after the connection broke.                            *)

\* Mutant: nothing is ever forgotten.
RememberAll(e) == Append(seen, e)

\* store.remember: first in, first out.
Remember(e) ==
  LET all == Append(seen, e)
  IN  IF Len(all) > SeenLimit THEN Tail(all) ELSE all

\* The topics overview/live.ts subscribes to while it is mounted.
Heard(e) == page = "mounted" /\ e.topic \in Aspect

\* handleDataFrame and dispatch.
Receive(e) ==
  /\ resumes' = TRUE
  /\ IF e \in ToSet(seen) THEN UNCHANGED <<seen, work, excused>>
     ELSE /\ seen' = Remember(e)
          /\ work' = IF Heard(e) THEN Append(work, e) ELSE work
          /\ excused' = IF ~Heard(e) /\ News(e) THEN excused \cup {e.topic}
                                                ELSE excused

\* No subscriber: redis keeps nothing, and only a cursor will tell.
Miss(e) ==
  /\ excused' = IF ~resumes /\ News(e) THEN excused \cup {e.topic} ELSE excused
  /\ UNCHANGED <<resumes, seen, work>>

\* publish_to_sse_channel: the publish is out even if the claim rolls back.
Publish(e) ==
  /\ \/ unsent' = unsent \ {e} /\ UNCHANGED faults
     \/ faults < MaxFaults /\ faults' = faults + 1 /\ UNCHANGED unsent
  /\ IF open THEN Receive(e) ELSE Miss(e)
  /\ UNCHANGED <<database, unscored, unbuilt, page, card, open>>

\* Mutant: a stream resumed just goes on.
NoReset == work

\* _frames, on a cursor: what was published meanwhile cannot be replayed.
OnResume == IF resumes /\ page = "mounted" THEN Append(work, Reset) ELSE work

\* A reset that finds no handler is the end of it.
Connect ==
  /\ ~open
  /\ open' = TRUE
  /\ work' = OnResume
  /\ excused' = IF resumes /\ page = "loading" /\ card # Nothing
                THEN excused \cup Behind(card, work) ELSE excused
  /\ UNCHANGED <<database, bus, page, card, resumes, seen, faults>>

Drop ==
  /\ open /\ faults < MaxFaults
  /\ faults' = faults + 1
  /\ open' = FALSE
  /\ UNCHANGED <<database, bus, page, card, resumes, seen, work, excused>>

-----------------------------------------------------------------------------
(* The page: pages/index.astro and overview/live.ts.  The chain awaits a   *)
(* read before its next link and nothing else writes the card, so asking,  *)
(* answering and painting are one step of it.                              *)

\* The queue is read, or refused and the error arm is shown.
ReadQueue(chain) ==
  \/ card' = snapshot /\ excused' = Behind(snapshot, chain) /\ UNCHANGED faults
  \/ /\ faults < MaxFaults /\ faults' = faults + 1
     /\ card' = Nothing /\ excused' = {}

\* The page is rendered while the tab is still on another.
Render ==
  /\ page = "away"
  /\ page' = "loading"
  /\ ReadQueue(<<>>)
  /\ UNCHANGED <<database, bus, open, resumes, seen, work>>

\* before-swap: the last subscription of the page left closes the connection.
\* page-load: this one subscribes, and reads again a region that was refused.
Mount ==
  /\ page = "loading"
  /\ page' = "mounted"
  /\ open' \in {open, FALSE}
  /\ work' = IF card = Nothing THEN <<Reset>> ELSE <<>>
  /\ UNCHANGED <<database, bus, card, resumes, seen, excused, faults>>

\* cardFor, and isNewer, strict: one stamp guards both aspects.
IsNewer(e) == card # Nothing /\ e.at > card.at

\* The chain takes its next link.
Link == work # <<>> /\ work' = Tail(work)

Reread ==
  /\ Link
  /\ LET e == Head(work) IN
       \/ e = Reset
       \/ \* applyState, knownState: no card on the page shows that state.
          e.topic = "state" /\ IsNewer(e)
  /\ ReadQueue(Tail(work))
  /\ UNCHANGED <<database, bus, page, open, resumes, seen>>

\* applyPriority and applyState, when the envelope is older than the stamp.
Discard ==
  /\ Link
  /\ LET e == Head(work) IN
       /\ e # Reset /\ ~IsNewer(e)
       /\ excused' = IF card # Nothing /\ e.value > card[e.topic]
                     THEN excused \cup {e.topic} ELSE excused
  /\ UNCHANGED <<database, bus, page, card, open, resumes, seen, faults>>

\* ... and when it is newer.  The commits may be in another order.
Patch ==
  /\ Link
  /\ LET e == Head(work)
         a == e.topic
     IN /\ e # Reset /\ IsNewer(e)
        /\ card' = [card EXCEPT ![a] = e.value, !.at = e.at]
        /\ excused' = IF e.value < card[a] THEN excused \cup {a}
                      ELSE IF e.value = truth[a] THEN excused \ {a} ELSE excused
  /\ UNCHANGED <<database, bus, page, open, resumes, seen, faults>>

\* The error arm's button.
Retry ==
  /\ page = "mounted" /\ card = Nothing /\ work = <<>>
  /\ work' = <<Reset>>
  /\ UNCHANGED <<database, bus, page, card, open, resumes, seen, excused,
                 faults>>

-----------------------------------------------------------------------------
TabInit ==
  /\ clock = 0 /\ admitted = {} /\ commits = 0
  /\ truth = [state |-> 0, score |-> 0]
  /\ unscored = {} /\ unbuilt = 0 /\ unsent = {}
  /\ copied = Nothing /\ snapshot = [state |-> 0, score |-> 0, at |-> 0]
  /\ page = "away" /\ card = Nothing
  /\ open = FALSE /\ resumes = FALSE /\ seen = <<>> /\ work = <<>>
  /\ excused = {} /\ faults = 0

TabNext ==
  \/ \E topic \in {"state", "edit"} : Admit(topic)
  \/ \E r \in admitted : Change(r)
  \/ \E e \in unscored : Recalculate(e)
  \/ Build \/ Upsert
  \/ \E e \in unsent : Publish(e)
  \/ Connect \/ Drop
  \/ Render \/ Mount \/ Reread \/ Discard \/ Patch \/ Retry

TabSpec == TabInit /\ [][TabNext]_tabVars

-----------------------------------------------------------------------------
(* Properties. *)

TabTypeOK ==
  /\ clock \in Instant /\ commits \in Version /\ faults \in 0..MaxFaults
  /\ admitted \subseteq [topic : {"state", "edit"}, at : Instant]
  /\ truth \in Content /\ snapshot \in Row /\ copied \in Content \cup {Nothing}
  /\ unscored \subseteq Event /\ unsent \subseteq Event /\ unbuilt \in Nat
  /\ page \in {"away", "loading", "mounted"}
  /\ card \in Row \cup {Nothing}
  /\ open \in BOOLEAN /\ resumes \in BOOLEAN
  /\ seen \in Seq(Event) /\ Len(seen) <= SeenLimit /\ IsInjective(seen)
  /\ work \in Seq(Event \cup {Reset})
  /\ excused \subseteq Aspect

\* What the page shows of a project is so, or a frame or a read that will say
\* so is on its way: but for a frame sent while nobody listened and the tab had
\* no cursor, a frame or a reset received before the page's handlers, a read of
\* a row not rebuilt yet whose frame had gone by, a frame as old as the card's
\* one stamp, and commits against the order of their instants.
CardFollowsTheProject ==
  Shown => \A a \in Aspect \ excused :
             card[a] = truth[a] \/ Coming(a, work) \/ RereadComing

\* All there is to handle is handled, and the stream is up.
AtRest == /\ unscored = {} /\ unbuilt = 0 /\ copied = Nothing /\ unsent = {}
          /\ open /\ work = <<>>

\* "Stale numbers shown as live is the one failure mode an operations board must
\* not have" (PATTERNS_FRONTEND.md): a mounted page whose stream is up and has
\* brought everything shows what is stored.  It does not hold, without any fault:
\* a frame may go by before the row the page is rendered from is rebuilt.
StaleIsNeverLive ==
  page = "mounted" /\ card # Nothing /\ AtRest =>
    \A a \in Aspect : card[a] = truth[a]

\* "The stream wins only if it is newer: [...] drop older envelopes"
\* (PATTERNS_FRONTEND.md): a frame that brings what the card does not show yet is
\* newer than the stamp of the card.  It does not hold: a rescoring bears the
\* instant of the change that caused it.
NewsIsNewer ==
  work # <<>> /\ Head(work) # Reset =>
    LET e == Head(work)
    IN  News(e) /\ e.value > card[e.topic] => IsNewer(e)
=============================================================================
