---------------------------- MODULE ClientRefresh ----------------------------
(***************************************************************************)
(* How the client keeps its view of one team current for one session: the   *)
(* refresh coordinator (packages/client/src/state/                          *)
(* team-refresh-coordinator.ts), whose rounds probe the read state and pull *)
(* the projection if the probe differs from the view, and the projection    *)
(* store (team-projection-store.ts), which assesses what it pulls and keeps *)
(* a backoff retry of its own.  The mount (plugin/team-mount-core.ts) wires *)
(* the two together.                                                        *)
(*                                                                         *)
(* Requests overlap: the round of a scope that was detached goes on beside  *)
(* those of the next scope and beside the retry.  The host answers each at  *)
(* some moment between its request and its settlement.                      *)
(***************************************************************************)
EXTENDS Integers, Sequences

CONSTANTS
  Lanes,        \* scopes (entries of the session) that may exist together
  Callers,      \* callers of trigger that wait for their round
  Retry,        \* the pull of the backoff retry
  None,
  Generations, LiveTokens,  \* the freshness pair
  MaxChanges,   \* bound: changes of the state of the team
  MaxFailures   \* bound: requests that fail and channel losses

ASSUME RefreshAssumption ==
  /\ Retry \notin Lanes /\ None \notin Lanes \cup [gen: Generations, live: LiveTokens]
  /\ 1 \in Generations /\ Generations \subseteq Nat /\ LiveTokens # {}
  /\ {MaxChanges, MaxFailures} \subseteq Nat

VARIABLES
  \* the host
  history,      \* the pairs the team went through, the present one last
  \* the coordinator
  entry,        \* the scope in the map of the session, or None
  lane,         \* what each scope is doing
  call,         \* what each caller waits for
  authority,    \* the read state published: which version it is
  \* the projection store
  view, status, \* the applied pair, and the liveness shown
  retry,        \* the backoff retry: "none", "pending", "pulling"
  since,        \* the version at which each pull was requested
  earlier,      \* the pulls in flight that were requested before each
  superseded,   \* pulls in flight such that a later one was answered
  behind,       \* pulls in flight requested before the newest loss that is open
  \* bounds, and a history variable
  failures, lost,
  floor         \* the version at which the last pull that was answered in order was requested

coordinator == <<entry, lane, call, authority>>
store       == <<view, status, retry, since, earlier, superseded, behind, floor>>
bounds      == <<failures, lost>>
vars        == <<history, coordinator, store, bounds>>

-------------------------------------------------------------------------------
Pairs == [gen: Generations, live: LiveTokens]
Pulls == Lanes \cup {Retry}
now   == Len(history)

Idle   == [round |-> "off", attached |-> FALSE, dirty |-> FALSE, since |-> 0]
NoCall == [at |-> None, waits |-> "no", asked |-> 0]

\* The pulls in flight.
Flying == {l \in Lanes : lane[l].round = "pulling"}
          \cup (IF retry = "pulling" THEN {Retry} ELSE {})

Attached == entry # None /\ lane[entry].attached

\* A request fails or a channel is lost.
Failure ==
  /\ failures < MaxFailures
  /\ failures' = failures + 1
  /\ UNCHANGED lost

Init ==
  /\ history = <<[gen |-> 1, live |-> CHOOSE t \in LiveTokens : TRUE]>>
  /\ entry = None
  /\ lane = [l \in Lanes |-> Idle]
  /\ call = [c \in Callers |-> NoCall]
  /\ authority = 0
  /\ view = None
  /\ status = "idle"
  /\ retry = "none"
  /\ since = [p \in Pulls |-> 0]
  /\ earlier = [p \in Pulls |-> {}]
  /\ superseded = {} /\ behind = {}
  /\ failures = 0 /\ lost = FALSE
  /\ floor = 0

\* The durable generation advances, or the live state alone moves, perhaps back.
TeamChanges ==
  /\ now <= MaxChanges
  /\ \E p \in Pairs :
       /\ \/ p.gen = history[now].gen + 1
          \/ p.gen = history[now].gen /\ p.live # history[now].live
       /\ history' = Append(history, p)
  /\ UNCHANGED <<coordinator, store, bounds>>

-------------------------------------------------------------------------------
(* The coordinator: scopes and triggers *)

Probing(l, lanes) == [lanes EXCEPT ![l].round = "probing", ![l].since = now, ![l].dirty = FALSE]
Dirty(l, lanes)   == [lanes EXCEPT ![l].dirty = TRUE]

\* A scope that is neither in the map nor kept by a round in flight.
Free(l) == l # entry /\ lane[l].round = "off"

\* A view that opens reuses the scope that a trigger left, or makes a new one.
Attach ==
  /\ \/ /\ entry # None
        /\ lane' = [lane EXCEPT ![entry].attached = TRUE]
        /\ UNCHANGED entry
     \/ /\ entry = None
        /\ \E l \in Lanes :
             /\ Free(l)
             /\ entry' = l
             /\ lane' = [lane EXCEPT ![l] = [Idle EXCEPT !.attached = TRUE]]
  /\ UNCHANGED <<history, call, authority, store, bounds>>

\* The scope leaves the map; a round of it that is in flight goes on.
Detach ==
  /\ entry # None
  /\ entry' = None
  /\ lane' = [lane EXCEPT ![entry] =
                IF @.round = "off" THEN Idle ELSE [@ EXCEPT !.dirty = FALSE, !.attached = FALSE]]
  /\ UNCHANGED <<history, call, authority, store, bounds>>

\* Mutant: a trigger that meets a round in flight is answered by that round.
TriggerJoins(c) ==
  /\ call[c] = NoCall
  /\ entry # None /\ lane[entry].round # "off"
  /\ lane' = Dirty(entry, lane)
  /\ call' = [call EXCEPT ![c] = [at |-> entry, waits |-> "round", asked |-> now]]
  /\ UNCHANGED <<history, entry, authority, store, bounds>>

\* A trigger that meets a round in flight waits for the one that follows it.
TriggerCoalesces(c) ==
  /\ call[c] = NoCall
  /\ entry # None /\ lane[entry].round # "off"
  /\ lane' = Dirty(entry, lane)
  /\ call' = [call EXCEPT ![c] = [at |-> entry, waits |-> "followup", asked |-> now]]
  /\ UNCHANGED <<history, entry, authority, store, bounds>>

TriggerStarts(c) ==
  /\ call[c] = NoCall
  /\ \E l \in Lanes :
       /\ l = entry \/ entry = None
       /\ lane[l].round = "off"
       /\ entry' = l
       /\ lane' = Probing(l, IF l = entry THEN lane ELSE [lane EXCEPT ![l] = Idle])
       /\ call' = [call EXCEPT ![c] = [at |-> l, waits |-> "round", asked |-> now]]
  /\ UNCHANGED <<history, authority, store, bounds>>

\* A trigger of an attached scope that nobody waits for.
Poked ==
  lane' = IF ~Attached THEN lane
          ELSE IF lane[entry].round = "off" THEN Probing(entry, lane)
          ELSE Dirty(entry, lane)

\* The tick of a visible tab, or the trigger of one that becomes visible again: a hidden tab
\* is one whose ticks do not happen.
Tick ==
  /\ Attached
  /\ Poked
  /\ UNCHANGED <<history, entry, call, authority, store, bounds>>

-------------------------------------------------------------------------------
(* The end of a round *)

Served(l, waits) == {c \in Callers : call[c].at = l /\ call[c].waits = waits}

\* Mutant: a round ends without looking at the triggers that were coalesced on it.
RoundEndsUnserved(l) ==
  /\ call' = [c \in Callers |-> IF c \in Served(l, "round") THEN NoCall ELSE call[c]]
  /\ entry' = IF entry = l /\ ~lane[l].attached THEN None ELSE entry
  /\ lane' = [lane EXCEPT ![l] =
                IF entry' = l THEN [@ EXCEPT !.round = "off", !.since = 0] ELSE Idle]

\* The callers of the round have their result.  If a trigger was coalesced and the scope is
\* still in the map, the next round starts, for those who waited for it; if not, they
\* have the result of this one, and an idle scope that was never attached is dropped.
RoundEnds(l) ==
  IF lane[l].dirty /\ entry = l
  THEN /\ lane' = Probing(l, lane)
       /\ call' = [c \in Callers |->
                     IF c \in Served(l, "round") THEN NoCall
                     ELSE IF c \in Served(l, "followup") THEN [call[c] EXCEPT !.waits = "round"]
                     ELSE call[c]]
       /\ UNCHANGED entry
  ELSE /\ call' = [c \in Callers |->
                     IF c \in Served(l, "round") \cup Served(l, "followup") THEN NoCall ELSE call[c]]
       /\ entry' = IF entry = l /\ ~lane[l].attached THEN None ELSE entry
       /\ lane' = [lane EXCEPT ![l] =
                     IF entry' = l THEN [@ EXCEPT !.round = "off", !.since = 0] ELSE Idle]

Current(l) == entry = l

\* A superseded scope publishes nothing and pulls nothing.
ProbeSuperseded(l) ==
  /\ lane[l].round = "probing" /\ ~Current(l)
  /\ RoundEnds(l)
  /\ UNCHANGED <<history, authority, store, bounds>>

\* The outcome of a probe that failed is published; nothing is pulled.
ProbeFails(l) ==
  /\ lane[l].round = "probing" /\ Current(l)
  /\ Failure
  /\ \E v \in lane[l].since..now : authority' = v
  /\ RoundEnds(l)
  /\ UNCHANGED <<history, store>>

Changed(v) == view = None \/ view # history[v]

ProbeUnchanged(l) ==
  /\ lane[l].round = "probing" /\ Current(l)
  /\ \E v \in lane[l].since..now : ~Changed(v) /\ authority' = v
  /\ RoundEnds(l)
  /\ UNCHANGED <<history, store, bounds>>

-------------------------------------------------------------------------------
(* The projection store *)

\* A pull is requested; a retry that is pending is cancelled, for this one stands for it.
Request(p) ==
  /\ since' = [since EXCEPT ![p] = now]
  /\ earlier' = [earlier EXCEPT ![p] = Flying]
  /\ status' = IF view = None /\ status # "ready" THEN "loading" ELSE status
  /\ UNCHANGED <<view, superseded, behind, floor>>

ProbeChanged(l) ==
  /\ lane[l].round = "probing" /\ Current(l)
  /\ \E v \in lane[l].since..now : Changed(v) /\ authority' = v
  /\ lane' = [lane EXCEPT ![l].round = "pulling"]
  /\ Request(l)
  /\ retry' = IF retry = "pending" THEN "none" ELSE retry
  /\ UNCHANGED <<history, entry, call, bounds>>

RetryFires ==
  /\ retry = "pending"
  /\ retry' = "pulling"
  /\ Request(Retry)
  /\ UNCHANGED <<history, coordinator, bounds>>

\* A pull is over: it is nobody's predecessor any more.
Landed(p) ==
  /\ since' = [since EXCEPT ![p] = 0]
  /\ earlier' = [q \in Pulls |-> IF q = p THEN {} ELSE earlier[q] \ {p}]

\* An answer, also an error, is a round trip: the pulls requested before are superseded,
\* and if it was requested after the newest loss it closes the episode.
RoundTrip(p) ==
  /\ Landed(p)
  /\ superseded' = (superseded \cup earlier[p]) \ {p}
  /\ behind' = IF p \in behind THEN behind \ {p} ELSE {}
  /\ retry' = IF p = Retry \/ (retry = "pending" /\ p \notin behind) THEN "none" ELSE retry

\* The verdict on a pair: the first, a newer generation, or another live token.
Applies(pair) ==
  \/ view = None
  \/ pair.gen > view.gen
  \/ pair.gen = view.gen /\ pair.live # view.live

\* Mutant: an answer that is applied is not looked at for its order.
DroppedNever(p, pair) == FALSE

\* The stale-apply guard.
Dropped(p, pair) == p \in superseded /\ view # None /\ pair.gen <= view.gen

\* A pair that is neither dropped nor applied is a duplicate or stale, and ends an error.
PullAnswered(p) ==
  /\ p \in Flying
  /\ \E v \in since[p]..now :
       LET applied == Applies(history[v]) /\ ~Dropped(p, history[v]) IN
       /\ view' = IF applied THEN history[v] ELSE view
       /\ status' = IF applied \/ p \notin superseded THEN "ready" ELSE status
  /\ floor' = IF p \in superseded \/ since[p] < floor THEN floor ELSE since[p]
  /\ RoundTrip(p)
  /\ UNCHANGED bounds

PullRefused(p) ==
  /\ p \in Flying
  /\ Failure
  /\ status' = IF p \in superseded THEN status ELSE "error"
  /\ RoundTrip(p)
  /\ UNCHANGED <<view, floor>>

\* Mutant: any loss is left to the retry, also the one of the retry.
RescheduledOnce(p) == p \notin superseded /\ retry = "none"

\* A loss in order is retried, unless a retry is pending or in flight.
Rescheduled(p) == p \notin superseded /\ (retry = "none" \/ p = Retry)

PullLost(p) ==
  /\ p \in Flying
  /\ Failure
  /\ Landed(p)
  /\ superseded' = superseded \ {p}
  /\ behind' = (IF p \in superseded THEN behind ELSE behind \cup earlier[p]) \ {p}
  /\ retry' = IF Rescheduled(p) THEN "pending" ELSE IF p = Retry THEN "none" ELSE retry
  /\ status' = IF Rescheduled(p) THEN "reconnecting" ELSE status
  /\ UNCHANGED <<view, floor>>

PullEnds(p) == PullAnswered(p) \/ PullRefused(p) \/ PullLost(p)

RoundPulled(l) ==
  /\ PullEnds(l)
  /\ RoundEnds(l)
  /\ UNCHANGED <<history, authority>>

RetryEnds ==
  /\ PullEnds(Retry)
  /\ UNCHANGED <<history, coordinator>>

-------------------------------------------------------------------------------
(* The channel, as the mount reports it to both *)

\* A loss is retried, unless a retry is pending or in flight already.
ConnectionLost ==
  /\ ~lost /\ failures < MaxFailures
  /\ lost' = TRUE
  /\ failures' = failures + 1
  /\ IF status # "idle" /\ retry = "none"
     THEN retry' = "pending" /\ status' = "reconnecting" /\ behind' = Flying
     ELSE UNCHANGED <<retry, status, behind>>
  /\ UNCHANGED <<history, coordinator, view, since, earlier, superseded, floor>>

\* The episode is closed and the coordinator pulls if the probe says so.
ConnectionRestored ==
  /\ lost
  /\ lost' = FALSE
  /\ retry' = IF retry = "pending" THEN "none" ELSE retry
  /\ status' = IF status # "reconnecting" THEN status ELSE IF view # None THEN "ready" ELSE "loading"
  /\ Poked
  /\ UNCHANGED <<history, entry, call, authority, view, since, earlier, superseded, behind,
                 failures, floor>>

-------------------------------------------------------------------------------
Round(l) ==
  \/ ProbeSuperseded(l) \/ ProbeFails(l) \/ ProbeUnchanged(l) \/ ProbeChanged(l)
  \/ RoundPulled(l)

Next ==
  \/ TeamChanges
  \/ Attach \/ Detach \/ Tick
  \/ \E c \in Callers : TriggerCoalesces(c) \/ TriggerStarts(c)
  \/ \E l \in Lanes : Round(l)
  \/ RetryFires \/ RetryEnds
  \/ ConnectionLost \/ ConnectionRestored

Spec == Init /\ [][Next]_vars

\* Requests settle, timers fire, the tab is visible.  Nobody has to open a view or to trigger.
FairSpec ==
  /\ Spec
  /\ \A l \in Lanes : WF_vars(Round(l))
  /\ WF_vars(Tick) /\ WF_vars(RetryFires) /\ WF_vars(RetryEnds)

-------------------------------------------------------------------------------
(* Properties *)

\* The types of the state, and how its parts fit: an attached scope is in the map, a caller
\* waits for a round in flight only (startRound), and what is known of pulls is known of
\* those in flight.
TypeOK ==
  /\ history \in Seq(Pairs) /\ now \in 1..(MaxChanges + 1)
  /\ entry \in Lanes \cup {None}
  /\ lane \in [Lanes -> [round: {"off", "probing", "pulling"}, attached: BOOLEAN,
                         dirty: BOOLEAN, since: 0..now]]
  /\ \A l \in Lanes : Free(l) => lane[l] = Idle
  /\ call \in [Callers -> [at: Lanes, waits: {"round", "followup"}, asked: 1..now] \cup {NoCall}]
  /\ \A c \in Callers : call[c] # NoCall =>
       /\ lane[call[c].at].round # "off"
       /\ call[c].waits = "followup" /\ entry = call[c].at => lane[entry].dirty
  /\ lost \in BOOLEAN
  /\ authority \in 0..now /\ floor \in 0..now
  /\ view \in Pairs \cup {None}
  /\ status \in {"idle", "loading", "ready", "reconnecting", "error"}
  /\ retry \in {"none", "pending", "pulling"}
  /\ since \in [Pulls -> 0..now]
  /\ earlier \in [Pulls -> SUBSET Flying]
  /\ superseded \subseteq Flying /\ behind \subseteq Flying
  /\ failures \in 0..MaxFailures

\* A caller of trigger never has the result of a probe that was sent before it asked, unless
\* its view was closed meanwhile (the coalescing of team-refresh-coordinator.ts).
TriggerIsFresh ==
  \A c \in Callers :
    call[c] # NoCall /\ call'[c] = NoCall /\ entry = call[c].at
      => lane[entry].since >= call[c].asked

\* The read state a view takes its ownership from never goes back to an older one, however
\* the probes of scopes that were closed and opened again settle (isCurrent of runRound).
AuthorityNeverBack == authority' >= authority

\* No step takes the outcome of a probe for newer than it is.
ProbesAreFresh == [][TriggerIsFresh /\ AuthorityNeverBack]_vars

\* The view is never older than the request of the last pull that was answered in order: a
\* late answer does not roll it back, whatever it overtook (the assessment of the pair, and
\* the stale-apply guard of team-projection-store.ts).
ViewNeverStale ==
  floor > 0 => \E v \in floor..now : history[v] = view

\* While a view stays open and visible and failures have ended, it comes to show the state
\* of the team, and its surface does not go on reconnecting or loading.
ViewConverges ==
  <>[]Attached => <>[](view = history[now] /\ status \in {"ready", "error"})
===============================================================================
