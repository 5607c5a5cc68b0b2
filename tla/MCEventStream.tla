---------------------------- MODULE MCEventStream ----------------------------
(***************************************************************************)
(* Model checking of EventStream, with a history variable: the events lost *)
(* to an overflow of the queue.                                            *)
(***************************************************************************)
EXTENDS EventStream

VARIABLE dropped

MCInit == Init /\ dropped = {}

WatchQueue ==
    dropped' = IF published' > published /\ queue # << >>
                  /\ ~\E i \in 1 .. Len(queue') : queue'[i] = Head(queue)
               THEN dropped \cup {Head(queue)} ELSE dropped

MCNext == Next /\ WatchQueue

MCSpec == MCInit /\ [][MCNext]_<<vars, dropped>> /\ Fairness

\* Nothing has gone wrong with the delivery so far: no write has failed, the queue
\* has not overflowed, the client has had one connection.
NoMishap ==
    /\ active
    /\ table \cup writing = 1 .. published
    /\ dropped = {}
    /\ \A h \in Handlers \ {1} : handler[h] = "unused"

\* What the client has applied has no gap.
Gapless == \A i \in 1 .. Len(shown) : shown[i] = i

\* As long as the runner is the only one to publish and nothing goes wrong, the
\* client gets every event, wherever the replay ends and the live stage begins
\* (events_ws.py:69-90, session.py:124-146).
RunnerEventsGapless == NoMishap /\ requests = 0 => Gapless

\* "?since_seq=N restores what was missed" (events_ws.py:33), with pause and resume
\* requests publishing too.
NothingMissed == NoMishap => Gapless
=============================================================================
