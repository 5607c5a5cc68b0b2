--------------------------- MODULE ClientStoreProofs ---------------------------
(***************************************************************************)
(* Theorems about the sidebar of the desktop client, for any number of     *)
(* sessions, of events and of polls under way at once.                     *)
(*                                                                         *)
(* The three sources of the store know nothing of each other; what they    *)
(* agree on is the session's life cycle.  A runner writes a verdict into   *)
(* the row only after it has told it (ServerInv), so that a poll, however  *)
(* late, tells of a session with a row, and a verdict it tells is there to *)
(* stay (AnswersInv); a connection goes on where its seq says, and only    *)
(* has an entry to write to (WireInv); a session is known nowhere before   *)
(* its POST /run is answered, and connected nowhere after its DELETE is    *)
(* (StagesInv).  With that, an entry shows the events received and no      *)
(* others (EntryInv).                                                      *)
(***************************************************************************)
EXTENDS ClientStore, SequenceTheorems, FiniteSetTheorems, TLAPS

(***************************************************************************)
(* The invariant                                                           *)
(***************************************************************************)

\* How far a session's log and row have come with its runner.
ServerInv ==
    \A s \in Sessions :
        /\ log[s] # << >> => log[s][1] = "started"
        /\ runner[s] = "starting" => log[s] = << >>
        /\ runner[s] = "running" => log[s] # << >> /\ Len(log[s]) < MaxEvents
        /\ runner[s] = "ending" => log[s] # << >> /\ log[s][Len(log[s])] \in Verdicts
        /\ row[s] \in Verdicts => runner[s] \in {"none", "over"}

\* The deletion of a session has been served.
Deleted(s) == deleting[s] = "served" \/ s \in removed

\* An answer on its way tells of sessions with a row, and a verdict it tells is still in the
\* row, unless the session has been deleted.
AnswersInv ==
    /\ IsFiniteSet(answers)
    /\ \A list \in answers, s \in Sessions :
           /\ list[s] # "absent" => row[s] # "absent" \/ Deleted(s)
           /\ list[s] \in Verdicts => row[s] \in {list[s], "absent"}

\* A connection belongs to an entry, and the seq remembered is the place it has come to,
\* unless that is a verdict; it begins where an earlier page had come to.
WireInv ==
    \A s \in Sessions :
        /\ conn[s] => s \in listed
        /\ kept[s] <= pos[s] /\ pos[s] <= Len(log[s])
        /\ kept[s] > 0 => log[s][kept[s]] \notin Verdicts
        /\ last_seq[s] = IF pos[s] > 0 /\ log[s][pos[s]] \in Verdicts THEN 0 ELSE pos[s]
        /\ pos[s] = kept[s] \/ s \in listed \/ s \in removed

\* A session in the list has a row, unless it has been deleted; one that has been removed
\* has no connection, and one whose start is to be answered has none yet.
StagesInv ==
    /\ \A s \in Sessions :
           /\ s \in listed \/ posting = s => row[s] # "absent" \/ Deleted(s)
           /\ Deleted(s) => row[s] = "absent"
           /\ s \in removed => ~conn[s]
    /\ posting # NoSession =>
           /\ ~conn[posting] /\ pos[posting] = 0 /\ deleting[posting] = "no"
           /\ posting \notin removed

\* The cards and the status are those of the events received, but of an entry that came
\* back after it had been removed.
EntryInv ==
    \A s \in listed :
        /\ ShowsUpTo(s, pos[s]) \/ (s \in removed /\ cards[s] = << >>)
        /\ s \notin removed /\ Told(s, pos[s]) =>
              \/ IsTold(s, pos[s], view[s])
              \/ view[s] \in Verdicts /\ row[s] \in {view[s], "absent"}

ClientInv == TypeOK /\ ServerInv /\ AnswersInv /\ WireInv /\ StagesInv /\ EntryInv

(***************************************************************************)
(* The helpers                                                             *)
(***************************************************************************)

\* One more event.
LEMMA OneMore ==
    ASSUME NEW S, NEW q \in Seq(S), NEW e \in S
    PROVE  /\ Append(q, e) \in Seq(S) /\ Len(q) \in Nat /\ Len(Append(q, e)) = Len(q) + 1
           /\ \A i \in 1 .. Len(q) : Append(q, e)[i] = q[i]
           /\ Append(q, e)[Len(q) + 1] = e
           /\ Append(q, e) # << >> /\ (q = << >> => Len(q) = 0)
           /\ \A i \in 1 .. Len(q) : q[i] \in S
BY AppendProperties, LenProperties, ElementOfSeq

\* A log with events has a first and a last.
LEMMA Filled ==
    ASSUME NEW S, NEW q \in Seq(S)
    PROVE  /\ Len(q) \in Nat /\ (q # << >> <=> Len(q) > 0)
           /\ q # << >> => q[1] \in S /\ q[Len(q)] \in S
<1>1. Len(q) \in Nat /\ (q = << >> <=> Len(q) = 0)
  BY LenProperties, EmptySeq
<1> QED
  BY <1>1, ElementOfSeq

\* Cards of some events, and that of the next one.
LEMMA OneMoreCard ==
    ASSUME NEW S, NEW c \in Seq(S), NEW P, P \subseteq Nat, NEW n \in Nat \ {0}, n \in S,
           Shows(c, P, n - 1)
    PROVE  /\ n \notin P => Shows(c, P, n)
           /\ n \in P => Shows(Append(c, n), P, n)
<1> USE DEF Shows
<1> DEFINE d == Append(c, n)
<1>1. /\ Len(c) \in Nat /\ Len(d) = Len(c) + 1 /\ d[Len(c) + 1] = n
      /\ \A i \in 1 .. Len(c) : d[i] = c[i] /\ c[i] \in P /\ c[i] <= n - 1
  <2>1. ASSUME NEW i \in 1 .. Len(c) PROVE c[i] \in P /\ c[i] <= n - 1
    <3>1. c[i] \in {c[m] : m \in 1 .. Len(c)}
      OBVIOUS
    <3> QED
      BY <3>1
  <2>2. /\ Len(c) \in Nat /\ Len(d) = Len(c) + 1 /\ d[Len(c) + 1] = n
        /\ \A i \in 1 .. Len(c) : d[i] = c[i]
    BY OneMore
  <2> QED
    BY <2>1, <2>2
<1>2. ASSUME n \notin P PROVE Shows(c, P, n)
  <2>1. \A k \in P : k <= n <=> k <= n - 1
    BY <1>2
  <2> QED
    BY <2>1
<1>3. ASSUME n \in P PROVE Shows(d, P, n)
  <2> HIDE DEF d
  <2>1. ASSUME NEW i \in 1 .. Len(d), NEW j \in 1 .. Len(d), i < j PROVE d[i] < d[j]
    <3>1. i \in 1 .. Len(c) /\ (j \in 1 .. Len(c) \/ j = Len(c) + 1)
      BY <1>1, <2>1
    <3>2. CASE j \in 1 .. Len(c)
      BY <1>1, <2>1, <3>1, <3>2
    <3>3. CASE j = Len(c) + 1
      <4>1. d[i] <= n - 1 /\ d[i] \in Nat
        BY <1>1, <3>1
      <4> QED
        BY <1>1, <3>3, <4>1
    <3> QED
      BY <3>1, <3>2, <3>3
  <2>2. ASSUME NEW i \in 1 .. Len(d) PROVE d[i] \in {k \in P : k <= n}
    <3>1. CASE i \in 1 .. Len(c)
      <4>1. d[i] \in P /\ d[i] <= n - 1
        BY <1>1, <3>1
      <4>2. d[i] \in Nat
        BY <4>1
      <4>3. d[i] <= n
        BY <4>1, <4>2
      <4> QED
        BY <4>1, <4>3
    <3>2. CASE i = Len(c) + 1
      BY <1>1, <1>3, <3>2
    <3> QED
      BY <1>1, <3>1, <3>2
  <2>3. ASSUME NEW k \in P, k <= n PROVE \E i \in 1 .. Len(d) : d[i] = k
    <3>1. CASE k = n
      <4>1. Len(c) + 1 \in 1 .. Len(d)
        BY <1>1
      <4> QED
        BY <1>1, <3>1, <4>1
    <3>2. CASE k # n
      <4>1. k \in {m \in P : m <= n - 1}
        BY <2>3, <3>2
      <4>2. PICK i \in 1 .. Len(c) : c[i] = k
        BY <4>1
      <4>3. i \in 1 .. Len(d)
        BY <1>1
      <4> QED
        BY <1>1, <4>2, <4>3
    <3> QED
      BY <3>1, <3>2
  <2>4. {d[i] : i \in 1 .. Len(d)} \subseteq {k \in P : k <= n}
    BY <2>2
  <2>5. {k \in P : k <= n} \subseteq {d[i] : i \in 1 .. Len(d)}
    BY <2>3
  <2> QED
    BY <2>1, <2>4, <2>5
<1> QED
  BY <1>2, <1>3

\* Each part of ClientInv is about some of the variables.
LEMMA Frames ==
    /\ ServerInv /\ UNCHANGED <<row, log, runner>> => ServerInv'
    /\ AnswersInv /\ UNCHANGED <<answers, row, deleting, removed>> => AnswersInv'
    /\ WireInv /\ UNCHANGED <<conn, listed, pos, log, last_seq, removed, kept>> => WireInv'
    /\ StagesInv /\ UNCHANGED <<listed, posting, row, deleting, removed, conn, pos, kept>> => StagesInv'
    /\ EntryInv /\ UNCHANGED <<listed, cards, log, pos, removed, view, row, kept>> => EntryInv'
<1>1. ServerInv /\ UNCHANGED <<row, log, runner>> => ServerInv'
  BY DEF ServerInv
<1>2. AnswersInv /\ UNCHANGED <<answers, row, deleting, removed>> => AnswersInv'
  BY DEF AnswersInv, Deleted
<1>3. WireInv /\ UNCHANGED <<conn, listed, pos, log, last_seq, removed, kept>> => WireInv'
  BY DEF WireInv
<1>4. StagesInv /\ UNCHANGED <<listed, posting, row, deleting, removed, conn, pos, kept>> => StagesInv'
  BY DEF StagesInv, Deleted
<1>5. EntryInv /\ UNCHANGED <<listed, cards, log, pos, removed, view, row, kept>> => EntryInv'
  BY DEF EntryInv, ShowsUpTo, Shows, CardPlaces, Told, IsTold, TellsLast
<1> QED
  BY <1>1, <1>2, <1>3, <1>4, <1>5

(***************************************************************************)
(* The sidecar                                                             *)
(***************************************************************************)

\* What the first n events tell stays told as the log grows.
LEMMA Grown ==
    ASSUME NEW s \in Sessions, UNCHANGED <<pos, cards, view, row, kept>>,
           pos[s] \in Nat, Len(log[s]) \in Nat, Len(log[s])' \in Nat,
           kept[s] \in Nat, pos[s] <= Len(log[s]), Len(log[s]) <= Len(log[s])',
           \A i \in 1 .. Len(log[s]) : log'[s][i] = log[s][i]
    PROVE  /\ ShowsUpTo(s, pos[s]) => ShowsUpTo(s, pos[s])'
           /\ Told(s, pos[s])' => Told(s, pos[s])
           /\ IsTold(s, pos[s], view[s]) => IsTold(s, pos[s], view[s])'
<1>1. \A i \in 1 .. pos[s] : i \in 1 .. Len(log[s]) /\ i \in 1 .. Len(log[s])'
  OBVIOUS
<1>2. {n \in CardPlaces(s)' : n <= pos'[s]} = {n \in CardPlaces(s) : n <= pos[s]}
  <2>1. ASSUME NEW n \in Nat, n <= pos[s]
        PROVE  n \in CardPlaces(s)' <=> n \in CardPlaces(s)
    BY <1>1, <2>1 DEF CardPlaces
  <2>2. CardPlaces(s) \subseteq Nat /\ CardPlaces(s)' \subseteq Nat
    BY DEF CardPlaces
  <2> QED
    BY <2>1, <2>2
<1>3. ShowsUpTo(s, pos[s]) => ShowsUpTo(s, pos[s])'
  BY <1>2 DEF ShowsUpTo, Shows
<1>4. ASSUME NEW k \in 1 .. pos[s], TellsLast(s, k, pos[s])
      PROVE  log'[s][k] = log[s][k] /\ TellsLast(s, k, pos[s])'
  <2>1. \A i \in 1 .. pos[s] : log'[s][i] = log[s][i]
    BY <1>1
  <2>2. k \in Nat /\ \A j \in k + 1 .. pos[s] : j \in 1 .. pos[s]
    OBVIOUS
  <2> QED
    BY <1>4, <2>1, <2>2 DEF TellsLast
<1>5. IsTold(s, pos[s], view[s]) => IsTold(s, pos[s], view[s])'
  BY <1>4 DEF IsTold, ReduceStatus
<1>6. Told(s, pos[s])' => Told(s, pos[s])
  <2>1. \A k \in kept[s] + 1 .. pos[s] : k \in 1 .. pos[s] /\ log'[s][k] = log[s][k]
    BY <1>1
  <2> QED
    BY <2>1 DEF Told
<1> QED
  BY <1>3, <1>5, <1>6

LEMMA AnnounceStep ==
    ASSUME ClientInv, NEW s \in Sessions, Announce(s)
    PROVE  ClientInv'
<1> USE DEF ClientInv
<1>1. PICK kind \in NextKinds(s) :
          /\ log' = [log EXCEPT ![s] = Append(@, kind)]
          /\ runner' = [runner EXCEPT ![s] = IF kind \in Verdicts THEN "ending" ELSE "running"]
  BY DEF Announce
<1>2. UNCHANGED <<row, posting, kept, answers, entryVars, wireVars, deleteVars>>
  BY DEF Announce
<1> USE <1>2 DEF entryVars, wireVars, deleteVars
<1>3. /\ MaxEvents \in Nat \ {0, 1}
      /\ log \in [Sessions -> Seq(Kinds)] /\ runner[s] \in {"starting", "running"}
      /\ kind \in Kinds /\ (runner[s] = "starting" => kind = "started")
      /\ runner[s] = "running" /\ Len(log[s]) + 1 = MaxEvents => kind \in Verdicts
  BY <1>1, BoundsAssumption DEF TypeOK, NextKinds, Kinds, Verdicts
<1>4. /\ Len(log[s]) \in Nat /\ log'[s] \in Seq(Kinds)
      /\ Len(log'[s]) = Len(log[s]) + 1 /\ log'[s][Len(log[s]) + 1] = kind
      /\ \A i \in 1 .. Len(log[s]) : log'[s][i] = log[s][i]
      /\ log'[s] # << >> /\ (log[s] = << >> => Len(log[s]) = 0)
      /\ \A i \in 1 .. Len(log[s]) : log[s][i] \in Kinds
  <2>1. log[s] \in Seq(Kinds) /\ log'[s] = Append(log[s], kind)
    BY <1>1, <1>3
  <2> QED
    BY <1>3, <2>1, OneMore
<1>5. Len(log'[s]) <= MaxEvents /\ (kind \notin Verdicts => Len(log'[s]) < MaxEvents)
  BY <1>3, <1>4 DEF ServerInv, Verdicts
<1>6. \A t \in Sessions \ {s} : log'[t] = log[t] /\ runner'[t] = runner[t]
  BY <1>1 DEF TypeOK
<1>7. TypeOK'
  <2>1. log' \in [Sessions -> Seq(Kinds)]
    BY <1>1, <1>3, <1>4
  <2>2. \A t \in Sessions : Len(log'[t]) <= MaxEvents
    BY <1>5, <1>6 DEF TypeOK
  <2>3. runner' \in [Sessions -> {"none", "starting", "running", "ending", "over"}]
    BY <1>1 DEF TypeOK
  <2> QED
    BY <2>1, <2>2, <2>3 DEF TypeOK
<1>8. ServerInv'
  <2>1. log'[s][1] = "started"
    <3>1. CASE log[s] = << >>
      BY <1>3, <1>4, <3>1 DEF ServerInv
    <3>2. CASE log[s] # << >>
      <4>1. 1 \in 1 .. Len(log[s])
        BY <1>3, <3>2, Filled
      <4> QED
        BY <1>4, <3>2, <4>1 DEF ServerInv
    <3> QED
      BY <3>1, <3>2
  <2>2. runner'[s] = IF kind \in Verdicts THEN "ending" ELSE "running"
    BY <1>1 DEF TypeOK
  <2>3. row'[s] \notin Verdicts
    BY <1>3 DEF ServerInv
  <2> QED
    BY <1>4, <1>5, <1>6, <2>1, <2>2, <2>3 DEF ServerInv
<1>9. WireInv'
  <2>1. ASSUME NEW t \in Sessions, NEW n \in Nat, n <= Len(log[t])
        PROVE  n <= Len(log'[t]) /\ (n > 0 => log'[t][n] = log[t][n])
    <3>1. Len(log[t]) \in Nat
      BY <1>3, Filled
    <3>2. CASE t = s
      BY <1>4, <2>1, <3>1, <3>2
    <3>3. CASE t # s
      BY <1>6, <2>1, <3>1, <3>3
    <3> QED
      BY <3>2, <3>3
  <2>2. ASSUME NEW t \in Sessions
        PROVE  /\ pos[t] <= Len(log'[t])
               /\ pos[t] > 0 => log'[t][pos[t]] = log[t][pos[t]]
               /\ kept[t] > 0 => log'[t][kept[t]] = log[t][kept[t]]
    <3>1. /\ pos[t] \in Nat /\ kept[t] \in Nat /\ Len(log[t]) \in Nat
          /\ kept[t] <= pos[t] /\ pos[t] <= Len(log[t])
      BY <1>3, Filled DEF TypeOK, WireInv
    <3> QED
      BY <2>1, <3>1
  <2> QED
    BY <2>2 DEF WireInv
<1>10. EntryInv'
  <2>1. ASSUME NEW t \in Sessions
        PROVE  /\ ShowsUpTo(t, pos[t]) => ShowsUpTo(t, pos[t])'
               /\ Told(t, pos[t])' => Told(t, pos[t])
               /\ IsTold(t, pos[t], view[t]) => IsTold(t, pos[t], view[t])'
    <3>1. /\ pos[t] \in Nat /\ Len(log[t]) \in Nat /\ pos[t] <= Len(log[t])
          /\ kept[t] \in Nat
      BY <1>3, Filled DEF TypeOK, WireInv
    <3>2. /\ Len(log[t])' \in Nat /\ Len(log[t]) <= Len(log[t])'
          /\ \A i \in 1 .. Len(log[t]) : log'[t][i] = log[t][i]
      BY <1>4, <1>6, <3>1
    <3> QED
      BY <3>1, <3>2, Grown
  <2> QED
    BY <2>1 DEF EntryInv, TypeOK
<1> QED
  BY <1>7, <1>8, <1>9, <1>10, Frames

\* Nothing is told of an entry, and nothing of it changes.
LEMMA SameEntry ==
    ASSUME NEW s \in Sessions, UNCHANGED <<log, kept>>, pos'[s] = pos[s],
           cards'[s] = cards[s], view'[s] = view[s]
    PROVE  /\ ShowsUpTo(s, pos[s]) => ShowsUpTo(s, pos[s])'
           /\ Told(s, pos[s])' => Told(s, pos[s])
           /\ IsTold(s, pos[s], view[s]) => IsTold(s, pos[s], view[s])'
BY DEF ShowsUpTo, Shows, CardPlaces, Told, IsTold, TellsLast

LEMMA RowWrittenStep ==
    ASSUME ClientInv, NEW s \in Sessions, RowWritten(s)
    PROVE  ClientInv'
<1> USE DEF ClientInv
<1>1. UNCHANGED <<log, posting, kept, answers, entryVars, wireVars, deleteVars>>
  BY DEF RowWritten
<1> USE <1>1 DEF entryVars, wireVars, deleteVars
<1>2. /\ row' \in [Sessions -> Rows]
      /\ runner' \in [Sessions -> {"none", "starting", "running", "ending", "over"}]
      /\ \A t \in Sessions \ {s} : row'[t] = row[t] /\ runner'[t] = runner[t]
      /\ row[s] \notin Verdicts /\ (row[s] = "absent" => row'[s] = "absent")
      /\ row[s] # "absent" => row'[s] # "absent"
      /\ row'[s] \in Verdicts => runner'[s] = "over"
      /\ runner'[s] \in {"running", "over"}
      /\ runner'[s] = "running" => runner[s] = "running"
  BY DEF RowWritten, TypeOK, ServerInv, Rows, Verdicts
<1>3. TypeOK'
  BY <1>2 DEF TypeOK
<1>4. ServerInv'
  BY <1>2 DEF ServerInv
<1>5. AnswersInv'
  BY <1>2 DEF AnswersInv, Deleted
<1>6. StagesInv'
  BY <1>2 DEF StagesInv, Deleted
<1>7. EntryInv'
  <2>1. \A t \in Sessions : row[t] \in {view[t], "absent"} /\ view[t] \in Verdicts
                                => row'[t] \in {view[t], "absent"}
    BY <1>2
  <2>2. ASSUME NEW t \in Sessions
        PROVE  /\ ShowsUpTo(t, pos[t]) => ShowsUpTo(t, pos[t])'
               /\ Told(t, pos[t])' => Told(t, pos[t])
               /\ IsTold(t, pos[t], view[t]) => IsTold(t, pos[t], view[t])'
    BY SameEntry
  <2> QED
    BY <2>1, <2>2 DEF EntryInv, TypeOK
<1> QED
  BY <1>3, <1>4, <1>5, <1>6, <1>7, Frames

LEMMA RowNotWrittenStep ==
    ASSUME ClientInv, NEW s \in Sessions, RowNotWritten(s)
    PROVE  ClientInv'
<1> USE DEF ClientInv
<1>1. UNCHANGED <<row, log, posting, kept, answers, entryVars, wireVars, deleteVars>>
  BY DEF RowNotWritten
<1> USE <1>1 DEF entryVars, wireVars, deleteVars
<1>2. TypeOK'
  BY DEF TypeOK, RowNotWritten
<1>3. ServerInv'
  BY DEF ServerInv, RowNotWritten, TypeOK
<1> QED
  BY <1>2, <1>3, Frames

LEMMA AnswerListStep ==
    ASSUME ClientInv, AnswerList
    PROVE  ClientInv'
<1> USE DEF ClientInv
<1>1. UNCHANGED <<serverVars, posting, kept, entryVars, wireVars, deleteVars>>
  BY DEF AnswerList
<1> USE <1>1 DEF serverVars, entryVars, wireVars, deleteVars
<1>2. IsFiniteSet(answers') /\ Cardinality(answers') <= MaxAnswers
  <2>1. IsFiniteSet(answers) /\ MaxAnswers \in Nat /\ Cardinality(answers) < MaxAnswers
    BY BoundsAssumption DEF AnswersInv, AnswerList
  <2>2. /\ IsFiniteSet(answers')
        /\ Cardinality(answers') \in {Cardinality(answers), Cardinality(answers) + 1}
    BY <2>1, FS_AddElement DEF AnswerList
  <2>3. Cardinality(answers) \in Nat
    BY <2>1, FS_CardinalityType
  <2> QED
    BY <2>1, <2>2, <2>3
<1>3. TypeOK'
  BY <1>2 DEF TypeOK, AnswerList
<1>4. AnswersInv'
  BY <1>2 DEF AnswersInv, AnswerList, Deleted
<1> QED
  BY <1>3, <1>4, Frames

LEMMA DeleteServedStep ==
    ASSUME ClientInv, NEW s \in Sessions, DeleteServed(s)
    PROVE  ClientInv'
<1> USE DEF ClientInv
<1>1. UNCHANGED <<log, runner, posting, kept, answers, entryVars, wireVars, removed>>
  BY DEF DeleteServed
<1> USE <1>1 DEF entryVars, wireVars
<1>2. /\ deleting[s] = "asked" /\ row'[s] = "absent" /\ deleting'[s] = "served"
      /\ \A t \in Sessions \ {s} : row'[t] = row[t] /\ deleting'[t] = deleting[t]
  BY DEF DeleteServed, TypeOK
<1>3. TypeOK'
  BY DEF TypeOK, DeleteServed, Rows
<1>4. ServerInv'
  BY <1>2 DEF ServerInv, Verdicts
<1>5. AnswersInv'
  BY <1>2 DEF AnswersInv, Deleted
<1>6. StagesInv'
  BY <1>2 DEF StagesInv, Deleted, TypeOK
<1>7. EntryInv'
  <2>1. ASSUME NEW t \in Sessions
        PROVE  /\ ShowsUpTo(t, pos[t]) => ShowsUpTo(t, pos[t])'
               /\ Told(t, pos[t])' => Told(t, pos[t])
               /\ IsTold(t, pos[t], view[t]) => IsTold(t, pos[t], view[t])'
    BY SameEntry
  <2> QED
    BY <1>2, <2>1 DEF EntryInv, TypeOK
<1> QED
  BY <1>3, <1>4, <1>5, <1>6, <1>7, Frames

\* A DELETE that is asked for or refused: nothing has been deleted.
LEMMA DeleteStep ==
    ASSUME ClientInv, NEW s \in Sessions, DeleteRefused(s) \/ DeleteAsked(s)
    PROVE  ClientInv'
<1> USE DEF ClientInv
<1>1. UNCHANGED <<serverVars, posting, kept, answers, entryVars, wireVars, removed>>
  BY DEF DeleteRefused, DeleteAsked
<1> USE <1>1 DEF serverVars, entryVars, wireVars
<1>2. /\ deleting[s] # "served" /\ deleting'[s] # "served"
      /\ s = posting => deleting'[s] = "no"
      /\ \A t \in Sessions \ {s} : deleting'[t] = deleting[t]
  BY DEF DeleteRefused, DeleteAsked, TypeOK
<1>3. TypeOK'
  BY DEF TypeOK, DeleteRefused, DeleteAsked
<1>4. AnswersInv'
  BY <1>2 DEF AnswersInv, Deleted
<1>5. StagesInv'
  BY <1>2 DEF StagesInv, Deleted, TypeOK
<1> QED
  BY <1>3, <1>4, <1>5, Frames

(***************************************************************************)
(* The connections                                                         *)
(***************************************************************************)

\* An event is the next to its connection, and its entry says what it has said.
LEMMA NextIsTold ==
    ASSUME NEW s \in Sessions, NEW n \in Nat \ {0}, NEW old, NEW new, kept[s] \in Nat,
           Told(s, n - 1) =>
              IsTold(s, n - 1, old) \/ (old \in Verdicts /\ row[s] \in {old, "absent"}),
           Told(s, n), new = ReduceStatus(old, log[s][n])
    PROVE  IsTold(s, n, new) \/ (new \in Verdicts /\ row[s] \in {new, "absent"})
<1>1. CASE log[s][n] # "card"
  <2>1. TellsLast(s, n, n) /\ n \in 1 .. n
    BY <1>1 DEF TellsLast
  <2>2. new = ReduceStatus("idle", log[s][n])
    BY <1>1 DEF ReduceStatus
  <2> QED
    BY <2>1, <2>2 DEF IsTold
<1>2. CASE log[s][n] = "card"
  <2>1. new = old
    BY <1>2 DEF ReduceStatus
  <2>2. Told(s, n - 1)
    <3>1. PICK k \in kept[s] + 1 .. n : log[s][k] # "card"
      BY DEF Told
    <3>2. k \in kept[s] + 1 .. n - 1
      BY <1>2, <3>1
    <3> QED
      BY <3>1, <3>2 DEF Told
  <2>3. ASSUME NEW k \in 1 .. n - 1, TellsLast(s, k, n - 1) PROVE k \in 1 .. n /\ TellsLast(s, k, n)
    <3>1. k \in 1 .. n /\ \A j \in k + 1 .. n : j \in k + 1 .. n - 1 \/ j = n
      OBVIOUS
    <3> QED
      BY <1>2, <2>3, <3>1 DEF TellsLast
  <2> QED
    BY <2>1, <2>2, <2>3 DEF IsTold
<1> QED
  BY <1>1, <1>2

LEMMA ReceiveStep ==
    ASSUME ClientInv, NEW s \in Sessions, Receive(s)
    PROVE  ClientInv'
<1> USE DEF ClientInv
<1>1. UNCHANGED <<serverVars, posting, kept, answers, listed, selected, conn, deleteVars>>
  BY DEF Receive
<1> USE <1>1 DEF serverVars, deleteVars
<1> DEFINE n == pos[s] + 1
           kind == log[s][n]
<1>2. /\ conn[s] /\ n <= Len(log[s])
      /\ pos' = [pos EXCEPT ![s] = n]
      /\ last_seq' = [last_seq EXCEPT ![s] = IF kind \in Verdicts THEN 0 ELSE n]
      /\ ApplyEvent(s, kind, n)
  BY DEF Receive
<1>3. /\ n \in Nat \ {0} /\ n - 1 = pos[s] /\ pos[s] \in Nat /\ MaxEvents \in Nat
      /\ Len(log[s]) \in Nat /\ Len(log[s]) <= MaxEvents /\ kept[s] \in Nat
  <2>1. /\ log[s] \in Seq(Kinds) /\ Len(log[s]) <= MaxEvents
        /\ pos[s] \in 0 .. MaxEvents /\ kept[s] \in 0 .. MaxEvents
    BY DEF TypeOK
  <2> QED
    BY <2>1, BoundsAssumption, Filled
<1>4. n \in 1 .. Len(log[s]) /\ n \in 1 .. MaxEvents /\ n \in 0 .. MaxEvents
  BY <1>2, <1>3
<1>5. kind \in Kinds /\ log[s] # << >>
  <2>1. log[s] \in Seq(Kinds)
    BY DEF TypeOK
  <2> QED
    BY <1>4, <2>1, ElementOfSeq, Filled
<1>6. s \in listed /\ s \notin removed
  BY <1>2 DEF WireInv, StagesInv
<1>7. /\ view' = [view EXCEPT ![s] = ReduceStatus(@, kind)]
      /\ cards' = [cards EXCEPT ![s] =
             IF kind \in {"card"} \cup Verdicts THEN Append(@, n) ELSE @]
  BY <1>2, <1>6 DEF ApplyEvent
<1> HIDE DEF n
<1>8. /\ pos'[s] = n /\ view'[s] = ReduceStatus(view[s], kind)
      /\ cards'[s] = IF kind \in {"card"} \cup Verdicts THEN Append(cards[s], n) ELSE cards[s]
      /\ last_seq'[s] = IF kind \in Verdicts THEN 0 ELSE n
      /\ \A t \in Sessions \ {s} :
             /\ pos'[t] = pos[t] /\ last_seq'[t] = last_seq[t]
             /\ view'[t] = view[t] /\ cards'[t] = cards[t]
  BY <1>2, <1>7 DEF TypeOK
<1>9. TypeOK'
  <2>1. view' \in [Sessions -> Views]
    BY <1>5, <1>7 DEF TypeOK, ReduceStatus, Kinds, Views, Verdicts
  <2>2. cards' \in [Sessions -> Seq(1 .. MaxEvents)]
    <3>1. cards[s] \in Seq(1 .. MaxEvents)
      BY DEF TypeOK
    <3>2. Append(cards[s], n) \in Seq(1 .. MaxEvents)
      BY <1>4, <3>1, OneMore
    <3> QED
      BY <1>7, <3>2 DEF TypeOK
  <2>3. pos' \in [Sessions -> 0 .. MaxEvents] /\ last_seq' \in [Sessions -> 0 .. MaxEvents]
    BY <1>2, <1>3, <1>4 DEF TypeOK
  <2> QED
    BY <2>1, <2>2, <2>3 DEF TypeOK
<1>10. WireInv'
  BY <1>3, <1>4, <1>6, <1>8 DEF WireInv
<1>11. StagesInv'
  BY <1>2, <1>8 DEF StagesInv, Deleted
<1>12. EntryInv'
  <2>1. ASSUME NEW t \in Sessions \ {s}
        PROVE  /\ ShowsUpTo(t, pos[t]) => ShowsUpTo(t, pos[t])'
               /\ Told(t, pos[t])' => Told(t, pos[t])
               /\ IsTold(t, pos[t], view[t]) => IsTold(t, pos[t], view[t])'
    BY <1>8, SameEntry
  <2>2. ShowsUpTo(s, pos[s])'
    <3>1. CardPlaces(s)' = CardPlaces(s) /\ CardPlaces(s) \subseteq Nat
      BY DEF CardPlaces
    <3>2. cards[s] \in Seq(1 .. MaxEvents) /\ Shows(cards[s], CardPlaces(s), n - 1)
      BY <1>3, <1>6 DEF EntryInv, ShowsUpTo, TypeOK
    <3>3. /\ n \notin CardPlaces(s) => Shows(cards[s], CardPlaces(s), n)
          /\ n \in CardPlaces(s) => Shows(Append(cards[s], n), CardPlaces(s), n)
      BY <1>3, <1>4, <3>1, <3>2, OneMoreCard
    <3>4. n \in CardPlaces(s) <=> kind \in {"card"} \cup Verdicts
      BY <1>3, <1>4 DEF CardPlaces, WireInv, TypeOK
    <3> QED
      BY <1>8, <3>1, <3>3, <3>4 DEF ShowsUpTo
  <2>3. ASSUME Told(s, pos[s])'
        PROVE  \/ IsTold(s, pos[s], view[s])'
               \/ view'[s] \in Verdicts /\ row'[s] \in {view'[s], "absent"}
    <3>1. Told(s, n - 1) => \/ IsTold(s, n - 1, view[s])
                            \/ view[s] \in Verdicts /\ row[s] \in {view[s], "absent"}
      BY <1>3, <1>6 DEF EntryInv
    <3>2. Told(s, n) /\ kept[s] \in Nat
      BY <1>8, <2>3 DEF Told, TypeOK
    <3>3. \/ IsTold(s, n, view'[s])
          \/ view'[s] \in Verdicts /\ row[s] \in {view'[s], "absent"}
      BY <1>3, <1>8, <3>1, <3>2, NextIsTold
    <3> QED
      BY <1>8, <3>3 DEF IsTold, TellsLast
  <2> QED
    BY <1>8, <2>1, <2>2, <2>3 DEF EntryInv, TypeOK
<1> QED
  BY <1>9, <1>10, <1>11, <1>12, Frames

LEMMA ClosedStep ==
    ASSUME ClientInv, NEW s \in Sessions, Closed(s)
    PROVE  ClientInv'
<1> USE DEF ClientInv
<1>1. UNCHANGED <<serverVars, posting, kept, answers, entryVars, pos, last_seq, deleteVars>>
  BY DEF Closed
<1> USE <1>1 DEF serverVars, entryVars, deleteVars
<1>2. \A t \in Sessions : conn'[t] => conn[t]
  BY DEF Closed, TypeOK
<1>3. TypeOK'
  BY DEF TypeOK, Closed
<1>4. WireInv'
  BY <1>2 DEF WireInv
<1>5. StagesInv'
  <2>1. posting # NoSession => posting \in Sessions
    BY DEF TypeOK
  <2> QED
    BY <1>2, <2>1 DEF StagesInv, Deleted
<1> QED
  BY <1>3, <1>4, <1>5, Frames

(***************************************************************************)
(* The store and the user                                                  *)
(***************************************************************************)

LEMMA DeleteAnsweredStep ==
    ASSUME ClientInv, NEW s \in Sessions, DeleteAnswered(s)
    PROVE  ClientInv'
<1> USE DEF ClientInv
<1>1. UNCHANGED <<serverVars, posting, kept, answers, view, cards, pos, last_seq>>
  BY DEF DeleteAnswered
<1> USE <1>1 DEF serverVars
<1>2. /\ deleting[s] = "served" /\ deleting'[s] = "no" /\ ~conn'[s]
      /\ \A t \in Sessions \ {s} : deleting'[t] = deleting[t] /\ conn'[t] = conn[t]
      /\ listed' = listed \ {s} /\ removed' = removed \cup {s}
  BY DEF DeleteAnswered, RemoveSession, TypeOK
<1>3. TypeOK'
  BY DEF TypeOK, DeleteAnswered, RemoveSession
<1>4. AnswersInv'
  BY <1>2 DEF AnswersInv, Deleted
<1>5. WireInv'
  BY <1>2 DEF WireInv
<1>6. StagesInv'
  BY <1>2 DEF StagesInv, Deleted, TypeOK
<1>7. EntryInv'
  <2>1. ASSUME NEW t \in Sessions
        PROVE  /\ ShowsUpTo(t, pos[t]) => ShowsUpTo(t, pos[t])'
               /\ Told(t, pos[t])' => Told(t, pos[t])
               /\ IsTold(t, pos[t], view[t]) => IsTold(t, pos[t], view[t])'
    BY SameEntry
  <2> QED
    BY <1>2, <2>1 DEF EntryInv, TypeOK
<1> QED
  BY <1>3, <1>4, <1>5, <1>6, <1>7, Frames

LEMMA RunAnsweredStep ==
    ASSUME ClientInv, RunAnswered
    PROVE  ClientInv'
<1> USE DEF ClientInv
<1>1. UNCHANGED <<serverVars, kept, answers, deleteVars>>
  BY DEF RunAnswered
<1> USE <1>1 DEF serverVars, deleteVars
<1>2. PICK s \in Sessions : s = posting
  BY DEF RunAnswered, TypeOK
<1>3. /\ posting = s /\ ~conn[s] /\ pos[s] = 0 /\ row[s] # "absent" /\ last_seq[s] = 0
      /\ s \notin removed /\ kept[s] = 0
  BY <1>2 DEF RunAnswered, TypeOK, StagesInv, Deleted, WireInv
<1>4. /\ listed' = listed \cup {s} /\ posting' = NoSession /\ selected' = s
      /\ view' = [view EXCEPT ![s] = "running"]
      /\ cards' = [cards EXCEPT ![s] = << >>]
      /\ conn' = [conn EXCEPT ![s] = TRUE]
      /\ pos' = pos /\ last_seq' = last_seq
  <2>1. pos' = [pos EXCEPT ![s] = last_seq[s]]
    BY <1>3 DEF RunAnswered, Connect
  <2>2. pos' = pos
    BY <1>3, <2>1 DEF TypeOK
  <2> QED
    BY <1>3, <2>2 DEF RunAnswered, Connect, wireVars
<1>5. TypeOK'
  <2>1. << >> \in Seq(1 .. MaxEvents)
    OBVIOUS
  <2> QED
    BY <1>3, <1>4, <2>1 DEF TypeOK, Views
<1>6. WireInv'
  BY <1>3, <1>4 DEF WireInv, TypeOK
<1>7. StagesInv'
  BY <1>3, <1>4, BoundsAssumption DEF StagesInv, Deleted, TypeOK
<1>8. EntryInv'
  <2>1. ASSUME NEW t \in Sessions \ {s}
        PROVE  /\ ShowsUpTo(t, pos[t]) => ShowsUpTo(t, pos[t])'
               /\ Told(t, pos[t])' => Told(t, pos[t])
               /\ IsTold(t, pos[t], view[t]) => IsTold(t, pos[t], view[t])'
               /\ cards'[t] = cards[t] /\ view'[t] = view[t]
    BY <1>4, SameEntry DEF TypeOK
  <2>2. ShowsUpTo(s, pos[s])' /\ ~Told(s, pos[s])'
    <3>1. cards'[s] = << >> /\ pos'[s] = 0 /\ kept'[s] = 0
      BY <1>3, <1>4 DEF TypeOK
    <3> QED
      BY <3>1 DEF ShowsUpTo, Shows, CardPlaces, Told
  <2> QED
    BY <1>3, <1>4, <2>1, <2>2 DEF EntryInv, TypeOK
<1> QED
  BY <1>4, <1>5, <1>6, <1>7, <1>8, Frames

LEMMA MergeStep ==
    ASSUME ClientInv, Merge
    PROVE  ClientInv'
<1> USE DEF ClientInv
<1>1. UNCHANGED <<serverVars, posting, kept, selected, wireVars, deleteVars>>
  BY DEF Merge
<1> USE <1>1 DEF serverVars, wireVars, deleteVars
<1>2. PICK list \in answers : MergeHistorical(list) /\ answers' = answers \ {list}
  BY DEF Merge
<1> DEFINE known == {s \in Sessions : list[s] # "absent"}
           patched == {s \in known \cap listed : list[s] \in Verdicts /\ view[s] \notin Verdicts}
<1>3. /\ listed' = listed \cup known
      /\ view' = [s \in Sessions |->
                    IF s \in (known \ listed) \cup patched THEN list[s] ELSE view[s]]
      /\ cards' = [s \in Sessions |-> IF s \in known \ listed THEN << >> ELSE cards[s]]
  BY <1>2 DEF MergeHistorical
<1>4. \A s \in known : row[s] # "absent" \/ Deleted(s)
  BY <1>2 DEF AnswersInv
<1>5. list \in [Sessions -> Rows]
  BY <1>2 DEF TypeOK
<1>6. TypeOK'
  <2>1. view' \in [Sessions -> Views]
    BY <1>3, <1>5 DEF TypeOK, Rows, Views
  <2>2. cards' \in [Sessions -> Seq(1 .. MaxEvents)]
    <3>1. << >> \in Seq(1 .. MaxEvents)
      OBVIOUS
    <3> QED
      BY <1>3, <3>1 DEF TypeOK
  <2>3. Cardinality(answers') <= MaxAnswers
    <3>1. /\ Cardinality(answers') = Cardinality(answers) - 1
          /\ Cardinality(answers) \in Nat /\ MaxAnswers \in Nat
      BY <1>2, FS_RemoveElement, FS_CardinalityType, BoundsAssumption DEF AnswersInv
    <3> QED
      BY <3>1 DEF TypeOK
  <2>4. listed' \subseteq Sessions /\ selected' \in listed' \cup {NoSession}
    BY <1>3 DEF TypeOK
  <2>5. answers' \subseteq [Sessions -> Rows]
    BY <1>2 DEF TypeOK
  <2> QED
    BY <2>1, <2>2, <2>3, <2>4, <2>5 DEF TypeOK
<1>7. AnswersInv'
  <2>1. IsFiniteSet(answers')
    BY <1>2, FS_RemoveElement DEF AnswersInv
  <2> QED
    BY <1>2, <2>1 DEF AnswersInv, Deleted
<1>8. WireInv'
  BY <1>3 DEF WireInv
<1>9. StagesInv'
  BY <1>3, <1>4 DEF StagesInv, Deleted
<1>10. EntryInv'
  <2> SUFFICES ASSUME NEW t \in Sessions, t \in listed'
               PROVE  /\ ShowsUpTo(t, pos[t])' \/ (t \in removed /\ cards'[t] = << >>)
                      /\ t \notin removed /\ Told(t, pos[t])' =>
                            \/ IsTold(t, pos[t], view[t])'
                            \/ view'[t] \in Verdicts /\ row[t] \in {view'[t], "absent"}
    BY <1>3 DEF EntryInv, TypeOK
  <2>1. CASE t \in listed
    <3>1. /\ cards'[t] = cards[t]
          /\ \/ view'[t] = view[t]
             \/ view'[t] = list[t] /\ list[t] \in Verdicts
      BY <1>3, <2>1
    <3>2. ShowsUpTo(t, pos[t]) => ShowsUpTo(t, pos[t])'
      BY <3>1 DEF ShowsUpTo, Shows, CardPlaces
    <3>3. CASE view'[t] = view[t]
      <4>1. /\ Told(t, pos[t])' => Told(t, pos[t])
            /\ IsTold(t, pos[t], view[t]) => IsTold(t, pos[t], view[t])'
        BY <3>1, <3>3, SameEntry
      <4> QED
        BY <2>1, <3>1, <3>2, <3>3, <4>1 DEF EntryInv
    <3>4. CASE view'[t] = list[t] /\ list[t] \in Verdicts
      <4>1. row[t] \in {view'[t], "absent"}
        BY <1>2, <3>4 DEF AnswersInv
      <4> QED
        BY <2>1, <3>1, <3>2, <3>4, <4>1 DEF EntryInv
    <3> QED
      BY <3>1, <3>3, <3>4
  <2>2. CASE t \notin listed
    <3>1. cards'[t] = << >> /\ (pos[t] = kept[t] \/ t \in removed)
      BY <1>3, <2>2 DEF WireInv
    <3>2. pos[t] = kept[t] => ShowsUpTo(t, pos[t])' /\ ~Told(t, pos[t])'
      BY <3>1 DEF ShowsUpTo, Shows, CardPlaces, Told, TypeOK
    <3> QED
      BY <3>1, <3>2
  <2> QED
    BY <2>1, <2>2
<1> QED
  BY <1>6, <1>7, <1>8, <1>9, <1>10, Frames

LEMMA RunTaskStep ==
    ASSUME ClientInv, NEW s \in Sessions, RunTask(s)
    PROVE  ClientInv'
<1> USE DEF ClientInv
<1>1. UNCHANGED <<log, kept, answers, entryVars, wireVars, deleteVars>>
  BY DEF RunTask
<1> USE <1>1 DEF entryVars, wireVars, deleteVars
<1>2. /\ row[s] = "absent" /\ ~Deleted(s) /\ deleting[s] = "no" /\ log[s] = << >>
      /\ row'[s] = "idle" /\ runner'[s] = "starting" /\ posting' = s
      /\ \A t \in Sessions \ {s} : row'[t] = row[t] /\ runner'[t] = runner[t]
  BY DEF RunTask, Fresh, Deleted, TypeOK
<1>3. s \notin listed /\ ~conn[s] /\ pos[s] = 0 /\ s \notin removed
  <2>1. pos[s] \in Nat /\ kept[s] \in Nat /\ pos[s] <= Len(log[s]) /\ Len(log[s]) = 0
    BY <1>2, EmptySeq DEF TypeOK, WireInv
  <2> QED
    BY <1>2, <2>1 DEF StagesInv, WireInv, Deleted
<1>4. TypeOK'
  BY DEF TypeOK, RunTask, Rows
<1>5. ServerInv'
  BY <1>2 DEF ServerInv, Verdicts
<1>6. AnswersInv'
  <2>1. \A list \in answers : list[s] = "absent"
    BY <1>2 DEF AnswersInv
  <2> QED
    BY <1>2, <2>1 DEF AnswersInv, Deleted, Verdicts
<1>7. StagesInv'
  BY <1>2, <1>3 DEF StagesInv, Deleted, TypeOK
<1>8. EntryInv'
  <2>1. ASSUME NEW t \in Sessions
        PROVE  /\ ShowsUpTo(t, pos[t]) => ShowsUpTo(t, pos[t])'
               /\ Told(t, pos[t])' => Told(t, pos[t])
               /\ IsTold(t, pos[t], view[t]) => IsTold(t, pos[t], view[t])'
    BY SameEntry
  <2> QED
    BY <1>2, <1>3, <2>1 DEF EntryInv, TypeOK
<1> QED
  BY <1>4, <1>5, <1>6, <1>7, <1>8, Frames

LEMMA SelectStep ==
    ASSUME ClientInv, NEW s \in Sessions, Select(s)
    PROVE  ClientInv'
<1> USE DEF ClientInv
<1>1. UNCHANGED <<serverVars, posting, kept, answers, listed, view, cards, deleteVars>>
  BY DEF Select
<1> USE <1>1 DEF serverVars, deleteVars
<1>2. s \in listed /\ s # posting /\ selected' = s
  BY DEF Select
<1>3. CASE UNCHANGED wireVars
  <2>1. TypeOK'
    BY <1>2, <1>3 DEF TypeOK, wireVars
  <2> QED
    BY <1>3, <2>1, Frames DEF wireVars
<1>4. CASE /\ cards[s] = << >> /\ row[s] # "absent" /\ last_seq' = last_seq
           /\ conn' = [conn EXCEPT ![s] = TRUE]
           /\ pos' = [pos EXCEPT ![s] = last_seq[s]]
  <2>1. /\ conn'[s] /\ pos'[s] = last_seq[s]
        /\ \A t \in Sessions \ {s} : conn'[t] = conn[t] /\ pos'[t] = pos[t]
    BY <1>4 DEF TypeOK
  <2>2. last_seq[s] = pos[s]
    <3>1. /\ s \notin removed /\ pos[s] \in Nat /\ kept[s] \in Nat /\ Len(log[s]) \in Nat
          /\ kept[s] <= pos[s] /\ pos[s] <= Len(log[s])
      BY <1>4, Filled DEF StagesInv, WireInv, TypeOK, Deleted
    <3>2. ShowsUpTo(s, pos[s])
      BY <1>2, <3>1 DEF EntryInv
    <3>3. \A m \in CardPlaces(s) : ~(m <= pos[s])
      <4>1. {m \in CardPlaces(s) : m <= pos[s]} = {}
        BY <1>4, <3>2 DEF ShowsUpTo, Shows
      <4> QED
        BY <4>1
    <3>4. ASSUME pos[s] > 0, log[s][pos[s]] \in Verdicts PROVE FALSE
      <4>1. pos[s] > kept[s]
        BY <3>1, <3>4 DEF WireInv
      <4>2. pos[s] \in CardPlaces(s)
        BY <3>1, <3>4, <4>1 DEF CardPlaces
      <4> QED
        BY <3>1, <3>3, <4>2
    <3> QED
      BY <3>4 DEF WireInv
  <2>3. pos' = pos
    BY <1>4, <2>2 DEF TypeOK
  <2>4. TypeOK'
    BY <1>2, <1>4, <2>3 DEF TypeOK
  <2>5. WireInv'
    BY <1>2, <1>4, <2>1, <2>3 DEF WireInv
  <2>6. StagesInv'
    BY <1>2, <1>4, <2>1, <2>3 DEF StagesInv, Deleted, TypeOK
  <2> QED
    BY <1>4, <2>3, <2>4, <2>5, <2>6, Frames
<1> QED
  BY <1>3, <1>4 DEF Select, Connect, wireVars

LEMMA DeselectStep ==
    ASSUME ClientInv, Deselect
    PROVE  ClientInv'
<1> USE DEF ClientInv
<1>1. UNCHANGED <<serverVars, posting, kept, answers, listed, view, cards, wireVars, deleteVars>>
  BY DEF Deselect
<1>2. TypeOK'
  BY <1>1 DEF TypeOK, Deselect, serverVars, wireVars, deleteVars
<1> QED
  BY <1>1, <1>2, Frames DEF serverVars, wireVars, deleteVars

(***************************************************************************)
(* The theorems                                                            *)
(***************************************************************************)

\* The invariant ClientInv (types, how far the sidecar has come, what the answers on their
\* way and the connections know, what the entries show) holds for any number of sessions,
\* events and answers under way (sessionStore.ts, wsManager.ts, App.tsx).
THEOREM ClientInvariant == Spec => []ClientInv
<1>1. Init => ClientInv
  <2> SUFFICES ASSUME Init PROVE ClientInv
    OBVIOUS
  <2>1. PICK past \in [Sessions -> Past] : /\ row = [s \in Sessions |-> past[s].row]
                                           /\ log = [s \in Sessions |-> past[s].log]
                                           /\ runner = [s \in Sessions |-> past[s].runner]
                                           /\ kept = [s \in Sessions |-> past[s].seq]
    BY DEF Init
  <2>2. ASSUME NEW s \in Sessions
        PROVE  /\ row[s] \in Rows /\ log[s] \in Seq(Kinds) /\ Len(log[s]) <= MaxEvents
               /\ log[s] # << >> => log[s][1] = "started"
               /\ runner[s] \in {"none", "running"}
               /\ runner[s] = "running" =>
                     row[s] \notin Verdicts /\ log[s] # << >> /\ Len(log[s]) < MaxEvents
               /\ Len(log[s]) \in Nat /\ kept[s] \in 0 .. Len(log[s])
               /\ kept[s] > 0 => log[s][kept[s]] \notin Verdicts
    <3>1. past[s] \in Past
      OBVIOUS
    <3>2. log[s] \in Seq(Kinds)
      BY <2>1, <3>1, PastAssumption
    <3> QED
      BY <2>1, <3>1, <3>2, Filled, PastAssumption
  <2>3. IsFiniteSet(answers) /\ Cardinality(answers) = 0
    BY FS_EmptySet DEF Init
  <2>4. TypeOK
    <3>1. << >> \in Seq(1 .. MaxEvents) /\ 0 \in 0 .. MaxEvents /\ 0 <= MaxAnswers
      BY BoundsAssumption
    <3>2. kept \in [Sessions -> 0 .. MaxEvents]
      BY <2>1, <2>2, BoundsAssumption
    <3> QED
      BY <2>1, <2>2, <2>3, <3>1, <3>2 DEF Init, TypeOK, Views
  <2>5. ServerInv
    BY <2>2 DEF Init, ServerInv
  <2>6. AnswersInv /\ StagesInv /\ EntryInv
    BY <2>3, BoundsAssumption DEF Init, AnswersInv, StagesInv, EntryInv, Deleted
  <2>7. WireInv
    <3>1. ASSUME NEW s \in Sessions
          PROVE  /\ kept[s] \in Nat /\ kept[s] <= Len(log[s])
                 /\ kept[s] > 0 => log[s][kept[s]] \notin Verdicts
      BY <2>2
    <3> QED
      BY <3>1 DEF Init, WireInv
  <2> QED
    BY <2>4, <2>5, <2>6, <2>7 DEF ClientInv
<1>2. ClientInv /\ [Next]_vars => ClientInv'
  <2> SUFFICES ASSUME ClientInv, [Next]_vars PROVE ClientInv'
    OBVIOUS
  <2>1. ASSUME NEW s \in Sessions, Announce(s) \/ RowWritten(s) \/ RowNotWritten(s)
                                       \/ DeleteServed(s) \/ DeleteRefused(s)
        PROVE  ClientInv'
    BY <2>1, AnnounceStep, RowWrittenStep, RowNotWrittenStep, DeleteServedStep, DeleteStep
  <2>2. ASSUME NEW s \in Sessions, RunTask(s) \/ Select(s) \/ DeleteAsked(s)
        PROVE  ClientInv'
    BY <2>2, RunTaskStep, SelectStep, DeleteStep
  <2>3. ASSUME NEW s \in Sessions, Receive(s) \/ Closed(s) \/ DeleteAnswered(s)
        PROVE  ClientInv'
    BY <2>3, ReceiveStep, ClosedStep, DeleteAnsweredStep
  <2>4. CASE UNCHANGED vars
    <3>1. TypeOK'
      BY <2>4 DEF ClientInv, TypeOK, vars, serverVars, entryVars, wireVars, deleteVars
    <3> QED
      BY <2>4, <3>1, Frames DEF ClientInv, vars, serverVars, entryVars, wireVars, deleteVars
  <2> QED
    BY <2>1, <2>2, <2>3, <2>4, AnswerListStep, DeselectStep, RunAnsweredStep, MergeStep
       DEF Next, SidecarStep, UserStep, ClientStep
<1> QED
  BY <1>1, <1>2, PTL DEF Spec

\* Whatever order polls, replays, lost connections, deletions and selections come in, an
\* entry has the cards of an unbroken stretch of its session's log, each once and in order,
\* which begins after the seq an earlier page left in localStorage, at the beginning if
\* there is none (sessionStore.ts:318-390, wsManager.ts:52-83 and 120-146).
THEOREM CardsInvHolds == Spec => []CardsInv
<1>1. ClientInv => CardsInv
  <2> SUFFICES ASSUME ClientInv, NEW s \in listed PROVE \E m \in kept[s] .. Len(log[s]) : ShowsUpTo(s, m)
    BY DEF ClientInv, CardsInv, CardsArePrefix
  <2>1. /\ s \in Sessions /\ Len(log[s]) \in Nat /\ pos[s] \in Nat /\ kept[s] \in Nat
        /\ kept[s] <= pos[s] /\ pos[s] <= Len(log[s])
    BY Filled DEF ClientInv, TypeOK, WireInv
  <2>2. cards[s] = << >> => ShowsUpTo(s, kept[s])
    BY <2>1 DEF ShowsUpTo, Shows, CardPlaces
  <2>3. pos[s] \in kept[s] .. Len(log[s]) /\ kept[s] \in kept[s] .. Len(log[s])
    BY <2>1
  <2> QED
    BY <2>1, <2>2, <2>3 DEF ClientInv, EntryInv
<1> QED
  BY <1>1, ClientInvariant, PTL

\* No poll, however late its answer, puts a connected entry back to what its session was
\* before (sessionStore.ts:363-387).
THEOREM ConnectedViewIsTrueHolds == Spec => []ConnectedViewIsTrue
<1>1. ClientInv => ConnectedViewIsTrue
  BY DEF ClientInv, TypeOK, StagesInv, EntryInv, ConnectedViewIsTrue
<1> QED
  BY <1>1, ClientInvariant, PTL
================================================================================
