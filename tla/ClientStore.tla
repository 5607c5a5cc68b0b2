------------------------------ MODULE ClientStore ------------------------------
(***************************************************************************)
(* The sidebar of the desktop client during one life of its page: the      *)
(* store of sessions (stores/sessionStore.ts) fed by three sources that    *)
(* know nothing of each other: the answers to GET /sessions asked every    *)
(* five seconds (App.tsx), the events of the WebSocket connections         *)
(* (ws/wsManager.ts), and the user's own requests to run and to delete.    *)
(*                                                                         *)
(* An event is its place in the session's log.  How a connection gets the  *)
(* events, and loses some, is EventStream's matter: here it passes on the  *)
(* log from the last seq the client remembers.  The client remembers it in *)
(* memory and in localStorage, which are written and forgotten together,   *)
(* so one variable stands for both; localStorage outlives the page, so an  *)
(* entry may begin, without cards, at the seq an earlier page came to.     *)
(***************************************************************************)
EXTENDS Naturals, Sequences, FiniteSets

CONSTANTS
    Sessions,
    NoSession,    \* activeSessionId = null
    Past,         \* what there may be of a session when the page is loaded
    MaxEvents,    \* bound: events of a session
    MaxAnswers    \* bound: answers to GET /sessions under way at once

ASSUME BoundsAssumption ==
    /\ NoSession \notin Sessions
    /\ MaxEvents \in Nat \ {0, 1}
    /\ MaxAnswers \in Nat \ {0}

VARIABLES
    row,        \* the sessions table: status, "absent" without a row
    log,        \* kinds of the events published for a session
    runner,     \* how far the runner of a session of this sidecar's life is
    posting,    \* the session whose POST /run has been served and not answered yet
    answers,    \* answers to GET /sessions on their way
    listed,     \* the keys of sessions, the store's record
    view,       \* the status of an entry
    cards,      \* the events an entry has cards of
    selected,   \* activeSessionId
    conn,       \* wsManager has a connection of the session
    pos,        \* the event it has passed on last
    last_seq,   \* lastSeqs and localStorage, 0 if there is none
    deleting,   \* the DELETE request of a session
    removed,    \* sessions whose DELETE has been answered with success
    kept        \* history: last_seq as an earlier page left it in localStorage

serverVars == <<row, log, runner>>
entryVars == <<listed, view, cards, selected>>
wireVars == <<conn, pos, last_seq>>
deleteVars == <<deleting, removed>>
vars == <<serverVars, posting, kept, answers, entryVars, wireVars, deleteVars>>

Verdicts == {"finished", "errored"}
Rows == {"absent", "idle", "running"} \cup Verdicts
Views == {"idle", "running", "paused"} \cup Verdicts
Kinds == {"started", "card", "paused", "resumed"} \cup Verdicts

\* What has been told of a session begins with its start.  Its runner goes on if only the
\* page was loaded anew.  A seq stays in localStorage only if no verdict has come with it.
ASSUME PastAssumption ==
    \A p \in Past :
        /\ p.row \in Rows
        /\ p.log \in Seq(Kinds) /\ Len(p.log) <= MaxEvents
        /\ p.log # << >> => p.log[1] = "started"
        /\ p.runner \in {"none", "running"}
        /\ p.runner = "running" =>
              p.row \notin Verdicts /\ p.log # << >> /\ Len(p.log) < MaxEvents
        /\ p.seq \in 0 .. Len(p.log)
        /\ p.seq > 0 => p.log[p.seq] \notin Verdicts

\* Every variable has its type; the session on the screen is one of the list.
TypeOK ==
    /\ row \in [Sessions -> Rows]
    /\ log \in [Sessions -> Seq(Kinds)] /\ \A s \in Sessions : Len(log[s]) <= MaxEvents
    /\ runner \in [Sessions -> {"none", "starting", "running", "ending", "over"}]
    /\ posting \in Sessions \cup {NoSession}
    /\ answers \subseteq [Sessions -> Rows]
    /\ Cardinality(answers) <= MaxAnswers
    /\ listed \subseteq Sessions
    /\ view \in [Sessions -> Views]
    /\ cards \in [Sessions -> Seq(1 .. MaxEvents)]
    /\ selected \in listed \cup {NoSession}
    /\ conn \in [Sessions -> BOOLEAN]
    /\ pos \in [Sessions -> 0 .. MaxEvents]
    /\ last_seq \in [Sessions -> 0 .. MaxEvents]
    /\ deleting \in [Sessions -> {"no", "asked", "served"}]
    /\ removed \subseteq Sessions
    /\ kept \in [Sessions -> 0 .. MaxEvents]

Init ==
    /\ \E past \in [Sessions -> Past] :
          /\ row = [s \in Sessions |-> past[s].row]
          /\ log = [s \in Sessions |-> past[s].log]
          /\ runner = [s \in Sessions |-> past[s].runner]
          /\ kept = [s \in Sessions |-> past[s].seq]
    /\ posting = NoSession
    /\ answers = {}
    /\ listed = {}
    /\ view = [s \in Sessions |-> "idle"]
    /\ cards = [s \in Sessions |-> << >>]
    /\ selected = NoSession
    /\ conn = [s \in Sessions |-> FALSE]
    /\ pos = kept
    /\ last_seq = kept
    /\ deleting = [s \in Sessions |-> "no"]
    /\ removed = {}

(***************************************************************************)
(* The sidecar                                                             *)
(***************************************************************************)

\* The event at place k is the last of the first n that tells of the status.
TellsLast(s, k, n) ==
    k \in 1 .. n /\ log[s][k] # "card" /\ \A j \in k + 1 .. n : log[s][j] = "card"

Paused(s) == \E k \in 1 .. Len(log[s]) : TellsLast(s, k, Len(log[s])) /\ log[s][k] = "paused"

\* What may come next in a log: a life cycle as SessionLifecycle has it.
NextKinds(s) ==
    CASE runner[s] = "starting" -> {"started"}
      [] runner[s] = "running" ->
            Verdicts \cup (IF Len(log[s]) + 1 = MaxEvents THEN {}
                           ELSE {"card", IF Paused(s) THEN "resumed" ELSE "paused"})
      [] OTHER -> {}

Announce(s) ==
    /\ \E kind \in NextKinds(s) :
          /\ log' = [log EXCEPT ![s] = Append(@, kind)]
          /\ runner' = [runner EXCEPT ![s] = IF kind \in Verdicts THEN "ending" ELSE "running"]
    /\ UNCHANGED <<row, posting, kept, answers, entryVars, wireVars, deleteVars>>

\* _update_db_status, after session.started and after the verdict; it may fail, or
\* find the row deleted.
RowWritten(s) ==
    /\ \/ row[s] = "idle" /\ runner[s] = "running"
       \/ runner[s] = "ending"
    /\ row' = [row EXCEPT ![s] =
                  IF @ = "absent" THEN @
                  ELSE IF runner[s] = "ending" THEN log[s][Len(log[s])] ELSE "running"]
    /\ runner' = [runner EXCEPT ![s] = IF @ = "ending" THEN "over" ELSE @]
    /\ UNCHANGED <<log, posting, kept, answers, entryVars, wireVars, deleteVars>>

RowNotWritten(s) ==
    /\ runner[s] = "ending"
    /\ runner' = [runner EXCEPT ![s] = "over"]
    /\ UNCHANGED <<row, log, posting, kept, answers, entryVars, wireVars, deleteVars>>

\* list_sessions reads the rows; the answer takes its time.
AnswerList ==
    /\ Cardinality(answers) < MaxAnswers
    /\ answers' = answers \cup {row}
    /\ UNCHANGED <<serverVars, posting, kept, entryVars, wireVars, deleteVars>>

\* delete_session: the runner has ended or been given up, the row is deleted.
DeleteServed(s) ==
    /\ deleting[s] = "asked"
    /\ row[s] # "absent"
    /\ row' = [row EXCEPT ![s] = "absent"]
    /\ deleting' = [deleting EXCEPT ![s] = "served"]
    /\ UNCHANGED <<log, runner, posting, kept, answers, entryVars, wireVars, removed>>

\* A locked database, or a 404 because there is no such row.
DeleteRefused(s) ==
    /\ deleting[s] = "asked"
    /\ deleting' = [deleting EXCEPT ![s] = "no"]
    /\ UNCHANGED <<serverVars, posting, kept, answers, entryVars, wireVars, removed>>

SidecarStep ==
    \E s \in Sessions :
       Announce(s) \/ RowWritten(s) \/ RowNotWritten(s) \/ DeleteServed(s) \/ DeleteRefused(s)

(***************************************************************************)
(* wsManager                                                               *)
(***************************************************************************)

\* connect: nothing if there is a connection; a session the sidecar does not know is
\* refused with 4404.  It asks for the events after the seq in memory, else the one in
\* localStorage, else 0.
Connect(s) ==
    IF conn[s] \/ row[s] = "absent" THEN UNCHANGED wireVars
    ELSE /\ conn' = [conn EXCEPT ![s] = TRUE]
         /\ pos' = [pos EXCEPT ![s] = last_seq[s]]
         /\ UNCHANGED last_seq

\* reduceEvent, as far as the status goes.
ReduceStatus(status, kind) ==
    CASE kind \in {"started", "resumed"} -> "running"
      [] kind = "card" -> status
      [] OTHER -> kind

\* applyEvent: an event of a session that is not in the store is dropped.
ApplyEvent(s, kind, n) ==
    IF s \notin listed THEN UNCHANGED <<view, cards>>
    ELSE /\ view' = [view EXCEPT ![s] = ReduceStatus(@, kind)]
         /\ cards' = [cards EXCEPT ![s] =
               IF kind \in {"card"} \cup Verdicts THEN Append(@, n) ELSE @]

\* onmessage: remember the seq, applyEvent, forget the seq of a session that is over.
Receive(s) ==
    LET n == pos[s] + 1
        kind == log[s][n]
    IN /\ conn[s]
       /\ n <= Len(log[s])
       /\ pos' = [pos EXCEPT ![s] = n]
       /\ last_seq' = [last_seq EXCEPT ![s] = IF kind \in Verdicts THEN 0 ELSE n]
       /\ ApplyEvent(s, kind, n)
       /\ UNCHANGED <<serverVars, posting, kept, answers, listed, selected, conn, deleteVars>>

\* onclose: the sidecar has nothing more to send, or the connection is lost.
Closed(s) ==
    /\ conn[s]
    /\ conn' = [conn EXCEPT ![s] = FALSE]
    /\ UNCHANGED <<serverVars, posting, kept, answers, entryVars, pos, last_seq, deleteVars>>

(***************************************************************************)
(* The store and the user                                                  *)
(***************************************************************************)

\* Mutant: sessions the store knows are left alone, whatever becomes of them.
MergeNewOnly(list) ==
    LET new == {s \in Sessions : list[s] # "absent"} \ listed
    IN /\ listed' = listed \cup new
       /\ view' = [s \in Sessions |-> IF s \in new THEN list[s] ELSE view[s]]
       /\ cards' = [s \in Sessions |-> IF s \in new THEN << >> ELSE cards[s]]

\* Mutant: every status that differs is patched.
MergeEveryStatus(list) ==
    LET known == {s \in Sessions : list[s] # "absent"}
    IN /\ listed' = listed \cup known
       /\ view' = [s \in Sessions |-> IF s \in known THEN list[s] ELSE view[s]]
       /\ cards' = [s \in Sessions |-> IF s \in known \ listed THEN << >> ELSE cards[s]]

\* Mutant: a snapshot replaces the whole entry when it patches it.
MergeReplaces(list) ==
    LET known == {s \in Sessions : list[s] # "absent"}
        replaced == {s \in known : s \in listed => list[s] \in Verdicts /\ view[s] \notin Verdicts}
    IN /\ listed' = listed \cup known
       /\ view' = [s \in Sessions |-> IF s \in replaced THEN list[s] ELSE view[s]]
       /\ cards' = [s \in Sessions |-> IF s \in replaced THEN << >> ELSE cards[s]]

\* mergeHistorical: new sessions are added without cards; of a known one only the
\* status is patched, and only from a status that is not final to one that is.
MergeHistorical(list) ==
    LET known == {s \in Sessions : list[s] # "absent"}
        patched == {s \in known \cap listed : list[s] \in Verdicts /\ view[s] \notin Verdicts}
    IN /\ listed' = listed \cup known
       /\ view' = [s \in Sessions |->
                     IF s \in (known \ listed) \cup patched THEN list[s] ELSE view[s]]
       /\ cards' = [s \in Sessions |-> IF s \in known \ listed THEN << >> ELSE cards[s]]

Merge ==
    /\ \E list \in answers :
          /\ MergeHistorical(list)
          /\ answers' = answers \ {list}
    /\ UNCHANGED <<serverVars, posting, kept, selected, wireVars, deleteVars>>

\* A session nobody has heard of: the id is a new one.
Fresh(s) ==
    /\ row[s] = "absent" /\ log[s] = << >> /\ runner[s] = "none"
    /\ deleting[s] = "no" /\ s \notin removed

\* runTask up to the answer: POST /run has made the session.  The input is locked
\* while the session on the screen works, and while an answer is awaited.
RunTask(s) ==
    /\ posting = NoSession
    /\ selected # NoSession => view[selected] \notin {"running", "paused"}
    /\ Fresh(s)
    /\ row' = [row EXCEPT ![s] = "idle"]
    /\ runner' = [runner EXCEPT ![s] = "starting"]
    /\ posting' = s
    /\ UNCHANGED <<log, kept, answers, entryVars, wireVars, deleteVars>>

\* startSession and connect.
RunAnswered ==
    /\ posting # NoSession
    /\ listed' = listed \cup {posting}
    /\ view' = [view EXCEPT ![posting] = "running"]
    /\ cards' = [cards EXCEPT ![posting] = << >>]
    /\ selected' = posting
    /\ Connect(posting)
    /\ posting' = NoSession
    /\ UNCHANGED <<serverVars, kept, answers, deleteVars>>

\* A session whose POST /run is still to be answered may be in the list already, if a
\* poll was faster; but nobody clicks within these milliseconds.
\* setActive, and the effect that connects a session without cards.
Select(s) ==
    /\ s \in listed \ {posting} /\ deleting[s] = "no"
    /\ selected # s
    /\ selected' = s
    /\ IF cards[s] = << >> THEN Connect(s) ELSE UNCHANGED wireVars
    /\ UNCHANGED <<serverVars, posting, kept, answers, listed, view, cards, deleteVars>>

Deselect ==
    /\ selected # NoSession
    /\ selected' = NoSession
    /\ UNCHANGED <<serverVars, posting, kept, answers, listed, view, cards, wireVars, deleteVars>>

DeleteAsked(s) ==
    /\ s \in listed \ {posting} /\ deleting[s] = "no"
    /\ deleting' = [deleting EXCEPT ![s] = "asked"]
    /\ UNCHANGED <<serverVars, posting, kept, answers, entryVars, wireVars, removed>>

\* removeSession
RemoveSession(s) ==
    /\ listed' = listed \ {s}
    /\ selected' = IF selected = s THEN NoSession ELSE selected

\* handleDelete after its await: disconnect and removeSession.
DeleteAnswered(s) ==
    /\ deleting[s] = "served"
    /\ conn' = [conn EXCEPT ![s] = FALSE]
    /\ RemoveSession(s)
    /\ deleting' = [deleting EXCEPT ![s] = "no"]
    /\ removed' = removed \cup {s}
    /\ UNCHANGED <<serverVars, posting, kept, answers, view, cards, pos, last_seq>>

UserStep ==
    \/ \E s \in Sessions : RunTask(s) \/ Select(s) \/ DeleteAsked(s)
    \/ Deselect

ClientStep ==
    \/ \E s \in Sessions : Receive(s) \/ Closed(s) \/ DeleteAnswered(s)
    \/ RunAnswered
    \/ Merge

Next == SidecarStep \/ AnswerList \/ UserStep \/ ClientStep

\* The page goes on polling and handles what arrives; nobody has to click.
Fairness ==
    /\ WF_vars(AnswerList)
    /\ WF_vars(Merge)
    /\ WF_vars(RunAnswered)
    /\ \A s \in Sessions : WF_vars(DeleteAnswered(s))

Spec == Init /\ [][Next]_vars /\ Fairness

(***************************************************************************)
(* Properties                                                              *)
(***************************************************************************)

\* The places in a session's log that make a card, after what an earlier page had.
CardPlaces(s) ==
    {n \in 1 .. Len(log[s]) : n > kept[s] /\ log[s][n] \in {"card"} \cup Verdicts}

\* The cards c are those of the places in P up to m, each once and in order.
Shows(c, P, m) ==
    /\ \A i, j \in 1 .. Len(c) : i < j => c[i] < c[j]
    /\ {c[i] : i \in 1 .. Len(c)} = {n \in P : n <= m}

ShowsUpTo(s, m) == Shows(cards[s], CardPlaces(s), m)

\* Polls, replays, lost connections and changes of the selection neither take a card
\* from an entry nor leave one out nor show one twice (sessionStore.ts:318-390,
\* wsManager.ts:52-83, App.tsx:97-105): an entry shows an unbroken stretch of the log,
\* from the seq an earlier page left in localStorage, the beginning if there is none.
CardsArePrefix ==
    \A s \in listed : \E m \in kept[s] .. Len(log[s]) : ShowsUpTo(s, m)

\* No card is lost, and every variable has its type.
CardsInv == TypeOK /\ CardsArePrefix

\* This page has been told of the status by one of the first n events.
Told(s, n) == \E k \in kept[s] + 1 .. n : log[s][k] # "card"

\* A status is what the first n events tell of it.
IsTold(s, n, status) ==
    \E k \in 1 .. n : TellsLast(s, k, n) /\ status = ReduceStatus("idle", log[s][k])

\* Once this page has been told of the status, a connected entry says what the last event
\* has said, or the verdict that is in its row, or was until the row was deleted: no poll,
\* however late its answer, puts it back (sessionStore.ts:363-387).
ConnectedViewIsTrue ==
    \A s \in listed :
       conn[s] /\ Told(s, pos[s]) =>
          \/ IsTold(s, pos[s], view[s])
          \/ view[s] \in Verdicts /\ row[s] \in {view[s], "absent"}

\* A session that is over in the database ends up as over in the sidebar, also if it
\* was not connected, its connection was lost, or the log of a sidecar that died is
\* replayed, which has no end (App.tsx:78-95, sessionStore.ts:374-385).
SidebarConverges ==
    \A s \in Sessions : row[s] \in Verdicts ~> (s \notin listed \/ view[s] \in Verdicts)

\* "On success it is removed from the store" (App.tsx:114).
RemovedStaysRemoved == removed \cap listed = {}
=============================================================================
