------------------------ MODULE ClientRefreshProofs ------------------------
(***************************************************************************)
(* The theorems about ClientRefresh: what the view and the read state never *)
(* go back on, for any sets of scopes and callers, any freshness pairs and  *)
(* any number of changes and failures.                                      *)
(***************************************************************************)
EXTENDS ClientRefresh, TLAPS

\* The durable generation of the team never goes back.
Grows == \A i, j \in 1..now : i <= j => history[i].gen <= history[j].gen

\* A pull that is not superseded was requested no earlier than the last that was answered
\* in order, for a pull that is answered supersedes all that were requested before it.
Ordered ==
  /\ \A p \in Flying : since[p] >= 1
  /\ \A p, q \in Flying : since[p] < since[q] => p \in earlier[q]
  /\ \A p \in Flying : p \notin superseded => floor <= since[p]

\* The round a caller waits for was sent after it asked, and the probe of the scope in the
\* map was sent after the read state that is published was read.
Asked ==
  /\ \A c \in Callers : call[c] # NoCall /\ call[c].waits = "round" =>
       call[c].asked <= lane[call[c].at].since
  /\ entry # None /\ lane[entry].round = "probing" => authority <= lane[entry].since

\* What the view shows is, or was, the state of the team, also while every answer came late.
Shown == view # None => \E v \in 1..now : v >= floor /\ history[v] = view

\* The inductive invariant.
IInv == TypeOK /\ ViewNeverStale /\ Shown /\ Grows /\ Ordered /\ Asked

-------------------------------------------------------------------------------
USE RefreshAssumption

LaneT == [round: {"off", "probing", "pulling"}, attached: BOOLEAN, dirty: BOOLEAN, since: 0..now]
Waits == [at: Lanes, waits: {"round", "followup"}, asked: 1..now]

\* The invariant by the part of the system it is about.
Host ==
  /\ history \in Seq(Pairs) /\ now \in 1..(MaxChanges + 1) /\ Grows
  /\ lost \in BOOLEAN /\ failures \in 0..MaxFailures

Waiting(k) ==
  /\ lane[k.at].round # "off"
  /\ k.waits = "followup" /\ entry = k.at => lane[k.at].dirty
  /\ k.waits = "round" => k.asked <= lane[k.at].since

Coordinator ==
  /\ entry \in Lanes \cup {None}
  /\ lane \in [Lanes -> LaneT]
  /\ \A l \in Lanes : l # entry /\ lane[l].round = "off" => lane[l] = Idle
  /\ call \in [Callers -> Waits \cup {NoCall}]
  /\ \A c \in Callers : call[c] # NoCall => Waiting(call[c])
  /\ authority \in 0..now
  /\ \A l \in Lanes : l = entry /\ lane[l].round = "probing" => authority <= lane[l].since

Store ==
  /\ view \in Pairs \cup {None}
  /\ status \in {"idle", "loading", "ready", "reconnecting", "error"}
  /\ retry \in {"none", "pending", "pulling"}
  /\ since \in [Pulls -> 0..now]
  /\ earlier \in [Pulls -> SUBSET Flying]
  /\ superseded \subseteq Flying /\ behind \subseteq Flying
  /\ floor \in 0..now
  /\ ViewNeverStale /\ Shown /\ Ordered

LEMMA Parts == IInv <=> Host /\ Coordinator /\ Store
<1>1. \A c \in Callers : call \in [Callers -> Waits \cup {NoCall}] /\ call[c] # NoCall
                         => call[c] \in Waits
   OBVIOUS
<1>2. None \notin Lanes
   OBVIOUS
<1>3. Coordinator <=>
        /\ entry \in Lanes \cup {None} /\ lane \in [Lanes -> LaneT]
        /\ \A l \in Lanes : Free(l) => lane[l] = Idle
        /\ call \in [Callers -> Waits \cup {NoCall}]
        /\ \A c \in Callers : call[c] # NoCall =>
             /\ lane[call[c].at].round # "off"
             /\ call[c].waits = "followup" /\ entry = call[c].at => lane[entry].dirty
        /\ authority \in 0..now /\ Asked
   BY <1>1, <1>2 DEF Coordinator, Free, Asked, Waiting
<1> QED BY <1>3 DEF IInv, TypeOK, Host, Store, LaneT, Waits

LEMMA PartsNext == IInv' <=> Host' /\ Coordinator' /\ Store'
BY Parts, PTL

-------------------------------------------------------------------------------
(* The coordinator *)

\* What a trigger makes of the scopes.
LEMMA ProbingFacts ==
  ASSUME Host, NEW lanes \in [Lanes -> LaneT], NEW l \in Lanes
  PROVE  /\ Probing(l, lanes) \in [Lanes -> LaneT]
         /\ Probing(l, lanes)[l].round = "probing" /\ ~Probing(l, lanes)[l].dirty
         /\ Probing(l, lanes)[l].since = now
         /\ Probing(l, lanes)[l].attached = lanes[l].attached
         /\ \A m \in Lanes \ {l} : Probing(l, lanes)[m] = lanes[m]
<1>1. now \in 0..now
   BY DEF Host
<1>2. lanes[l] \in LaneT
   OBVIOUS
<1> QED BY <1>1, <1>2 DEF Probing, LaneT

LEMMA DirtyFacts ==
  ASSUME NEW lanes \in [Lanes -> LaneT], NEW l \in Lanes
  PROVE  /\ Dirty(l, lanes) \in [Lanes -> LaneT]
         /\ Dirty(l, lanes)[l].round = lanes[l].round /\ Dirty(l, lanes)[l].dirty
         /\ Dirty(l, lanes)[l].since = lanes[l].since
         /\ Dirty(l, lanes)[l].attached = lanes[l].attached
         /\ \A m \in Lanes \ {l} : Dirty(l, lanes)[m] = lanes[m]
<1>1. lanes[l] \in LaneT
   OBVIOUS
<1> QED BY <1>1 DEF Dirty, LaneT

\* A step of one scope: the others are as they were, and so are the callers that wait there.
LEMMA ScopeStep ==
  ASSUME Coordinator, Host, NEW l \in Lanes, history' = history,
         lane' \in [Lanes -> LaneT], \A m \in Lanes \ {l} : lane'[m] = lane[m],
         entry' \in {entry, l, None}, entry' # entry /\ entry # None => entry = l,
         l # entry' /\ lane'[l].round = "off" => lane'[l] = Idle,
         authority' \in 0..now, authority' # authority => entry = l,
         l = entry' /\ lane'[l].round = "probing" => authority' <= lane'[l].since,
         call' \in [Callers -> Waits \cup {NoCall}],
         \A c \in Callers, k \in Waits :
           k = call'[c] => (k = call[c] /\ k.at # l) \/ Waiting(k)'
  PROVE  Coordinator'
<1>1. LaneT' = LaneT /\ Waits' = Waits /\ now' = now /\ None \notin Lanes
   BY DEF LaneT, Waits, now
<1>2. entry' \in Lanes \cup {None}
   BY DEF Coordinator
<1>3. \A m \in Lanes : m # entry' /\ lane'[m].round = "off" => lane'[m] = Idle
   BY <1>1 DEF Coordinator
<1>4. \A m \in Lanes : m = entry' /\ lane'[m].round = "probing" => authority' <= lane'[m].since
   BY <1>1 DEF Coordinator
<1>6. ASSUME NEW c \in Callers, NEW k \in Waits, k = call'[c]
      PROVE  Waiting(k)'
  <2>1. CASE k = call[c] /\ k.at # l
    <3>1. Waiting(k) /\ k.at \in Lanes
      <4>1. k # NoCall
         BY <1>1 DEF Waits, NoCall
      <4> QED BY <2>1, <4>1 DEF Coordinator, Waits
    <3>2. lane'[k.at] = lane[k.at] /\ (entry' = k.at => entry = k.at)
       BY <1>1, <2>1, <3>1
    <3> QED BY <3>1, <3>2 DEF Waiting
  <2> QED BY <1>6, <2>1
<1>7. \A c \in Callers : call'[c] # NoCall => \E k \in Waits : k = call'[c]
   OBVIOUS
<1>8. (\A c \in Callers : call[c] # NoCall => Waiting(call[c]))'
  <2> SUFFICES ASSUME NEW c \in Callers, call'[c] # NoCall
               PROVE  Waiting(call[c])'
     BY DEF Waiting
  <2>1. PICK k \in Waits : k = call'[c]
     BY <1>7
  <2> QED BY <1>6, <2>1 DEF Waiting
<1> QED BY <1>1, <1>2, <1>3, <1>4, <1>8 DEF Coordinator

\* Nothing moves but the present: the pairs of the team.
LEMMA CoordinatorKept ==
  ASSUME Coordinator, Host, UNCHANGED coordinator, now' \in Nat, now' >= now
  PROVE  Coordinator'
<1>1. UNCHANGED <<entry, lane, call, authority>> /\ now \in Nat
   BY DEF coordinator, Host
<1>2. lane' \in [Lanes -> LaneT']
   BY <1>1 DEF Coordinator, LaneT
<1>3. call' \in [Callers -> Waits' \cup {NoCall}]
   BY <1>1 DEF Coordinator, Waits
<1> QED BY <1>1, <1>2, <1>3 DEF Coordinator, Waiting

LEMMA ViewSteps ==
  ASSUME Coordinator, Host, Attach \/ Detach
  PROVE  Coordinator'
<1>1. UNCHANGED <<history, call, authority>> /\ None \notin Lanes
   BY DEF Attach, Detach
<1>2. Idle \in LaneT /\ Idle.round = "off"
   BY DEF Idle, LaneT, Host
<1>3. CASE Attach /\ entry # None
  <2>1. entry' = entry /\ lane' = [lane EXCEPT ![entry].attached = TRUE]
     BY <1>3 DEF Attach
  <2>2. PICK l \in Lanes : l = entry
     BY <1>3 DEF Coordinator
  <2>3. lane[l] \in LaneT
     BY DEF Coordinator
  <2>4. /\ lane' \in [Lanes -> LaneT] /\ \A m \in Lanes \ {l} : lane'[m] = lane[m]
        /\ lane'[l].round = lane[l].round /\ lane'[l].since = lane[l].since
        /\ lane'[l].dirty = lane[l].dirty
     BY <2>1, <2>2, <2>3 DEF Coordinator, LaneT
  <2>5. \A c \in Callers, k \in Waits : k = call'[c] => Waiting(k)'
    <3>1. \A k \in Waits : Waiting(k) => Waiting(k)'
       BY <2>1, <2>2, <2>4 DEF Waiting, Waits
    <3>2. \A k \in Waits : k # NoCall
       BY <1>1 DEF Waits, NoCall
    <3> QED BY <1>1, <3>1, <3>2 DEF Coordinator
  <2>6. /\ entry' = l /\ entry = l /\ history' = history /\ authority' \in 0..now /\ authority' = authority
        /\ lane'[l].round = "probing" => authority' <= lane'[l].since
        /\ call' \in [Callers -> Waits \cup {NoCall}]
     BY <1>1, <2>1, <2>2, <2>4 DEF Coordinator
  <2> QED BY <2>4, <2>5, <2>6, ScopeStep
<1>4. CASE Attach /\ entry = None
  <2>1. PICK l \in Lanes : /\ Free(l) /\ entry' = l
                           /\ lane' = [lane EXCEPT ![l] = [Idle EXCEPT !.attached = TRUE]]
     BY <1>4 DEF Attach
  <2>2. /\ [Idle EXCEPT !.attached = TRUE] \in LaneT
        /\ [Idle EXCEPT !.attached = TRUE].round = "off"
     BY <1>2 DEF Idle, LaneT
  <2>3. /\ lane' \in [Lanes -> LaneT] /\ lane'[l].round = "off"
        /\ \A m \in Lanes \ {l} : lane'[m] = lane[m]
     BY <2>1, <2>2 DEF Coordinator
  <2>4. \A c \in Callers, k \in Waits : k = call'[c] => k = call[c] /\ k.at # l
    <3>1. \A k \in Waits : k # NoCall /\ (Waiting(k) => k.at # l)
       BY <1>1, <2>1 DEF Waits, NoCall, Waiting, Free
    <3> QED BY <1>1, <3>1 DEF Coordinator
  <2>5. /\ entry = None /\ entry' = l /\ history' = history /\ authority' \in 0..now /\ authority' = authority
        /\ call' \in [Callers -> Waits \cup {NoCall}]
     BY <1>1, <1>4, <2>1 DEF Coordinator
  <2> QED BY <2>3, <2>4, <2>5, ScopeStep
<1>5. CASE Detach
  <2>1. PICK l \in Lanes : l = entry
     BY <1>5 DEF Detach, Coordinator
  <2>2. entry' = None /\ l # None /\ entry = l
     BY <1>1, <1>5, <2>1 DEF Detach
  <2>3. lane' = [lane EXCEPT ![l] = IF lane[l].round = "off" THEN Idle
                   ELSE [lane[l] EXCEPT !.dirty = FALSE, !.attached = FALSE]]
     BY <1>5, <2>1 DEF Detach
  <2>4. lane[l] \in LaneT /\ [lane[l] EXCEPT !.dirty = FALSE, !.attached = FALSE] \in LaneT
     BY DEF Coordinator, LaneT
  <2>5. /\ lane' \in [Lanes -> LaneT] /\ \A m \in Lanes \ {l} : lane'[m] = lane[m]
        /\ lane'[l].round = "off" => lane'[l] = Idle
        /\ lane[l].round # "off" => lane'[l].round # "off" /\ lane'[l].since = lane[l].since
     BY <1>2, <2>3, <2>4 DEF Coordinator, LaneT
  <2>6. \A c \in Callers, k \in Waits : k = call'[c] => Waiting(k)'
    <3>1. \A k \in Waits : Waiting(k) => Waiting(k)'
       BY <1>1, <2>2, <2>5 DEF Waiting, Waits
    <3>2. \A k \in Waits : k # NoCall
       BY <1>1 DEF Waits, NoCall
    <3> QED BY <1>1, <3>1, <3>2 DEF Coordinator
  <2> QED BY <1>1, <2>2, <2>5, <2>6, ScopeStep DEF Coordinator
<1> QED BY <1>3, <1>4, <1>5

\* A caller that waits is a waiter.
LEMMA WaitFacts ==
  ASSUME Coordinator, NEW c \in Callers, NEW k \in Waits, k = call[c]
  PROVE  Waiting(k) /\ k.at \in Lanes /\ k.waits \in {"round", "followup"} /\ k.asked \in 1..now
<1>1. k # NoCall
   BY DEF Waits, NoCall
<1> QED BY <1>1 DEF Coordinator, Waits

LEMMA TriggerSteps ==
  ASSUME Coordinator, Host, NEW b \in Callers, TriggerCoalesces(b) \/ TriggerStarts(b)
  PROVE  Coordinator'
<1>1. /\ history' = history /\ authority' = authority /\ authority' \in 0..now /\ None \notin Lanes
      /\ now \in 1..now /\ lane \in [Lanes -> LaneT] /\ call \in [Callers -> Waits \cup {NoCall}]
      /\ now' = now
   BY DEF TriggerCoalesces, TriggerStarts, Coordinator, Host, now
<1>2. CASE TriggerCoalesces(b)
  <2>1. PICK l \in Lanes : l = entry
     BY <1>2 DEF TriggerCoalesces, Coordinator
  <2>2. PICK w \in Waits : w = [at |-> l, waits |-> "followup", asked |-> now]
     BY <1>1 DEF Waits
  <2>3. /\ entry = l /\ entry' = l /\ lane[l].round # "off" /\ lane' = Dirty(l, lane)
        /\ call' = [call EXCEPT ![b] = w]
     BY <1>2, <2>1, <2>2 DEF TriggerCoalesces
  <2>4. /\ lane' \in [Lanes -> LaneT] /\ lane'[l].round = lane[l].round /\ lane'[l].dirty
        /\ lane'[l].since = lane[l].since /\ \A m \in Lanes \ {l} : lane'[m] = lane[m]
     BY <1>1, <2>3, DirtyFacts
  <2>5. ASSUME NEW c \in Callers, NEW k \in Waits, k = call'[c] PROVE Waiting(k)'
    <3>1. CASE c = b
      <4>1. k = w
         BY <1>1, <2>3, <2>5, <3>1
      <4>2. k.at = l /\ k.waits = "followup"
         BY <2>2, <4>1
      <4> QED BY <2>3, <2>4, <4>2 DEF Waiting
    <3>2. CASE c # b
      <4>1. Waiting(k) /\ k.at \in Lanes
         BY <1>1, <2>3, <2>5, <3>2, WaitFacts
      <4> QED BY <2>3, <2>4, <4>1 DEF Waiting
    <3> QED BY <3>1, <3>2
  <2>6. /\ lane'[l].round = "probing" => authority' <= lane'[l].since
        /\ call' \in [Callers -> Waits \cup {NoCall}]
     BY <1>1, <2>3, <2>4 DEF Coordinator
  <2> QED BY <1>1, <2>3, <2>4, <2>5, <2>6, ScopeStep
<1>3. CASE TriggerStarts(b)
  <2>1. PICK l \in Lanes :
          /\ l = entry \/ entry = None
          /\ lane[l].round = "off" /\ entry' = l
          /\ lane' = Probing(l, IF l = entry THEN lane ELSE [lane EXCEPT ![l] = Idle])
          /\ call' = [call EXCEPT ![b] = [at |-> l, waits |-> "round", asked |-> now]]
     BY <1>3 DEF TriggerStarts
  <2>2. PICK w \in Waits : w = [at |-> l, waits |-> "round", asked |-> now]
     BY <1>1 DEF Waits
  <2>3. PICK lanes \in [Lanes -> LaneT] :
          /\ lanes = IF l = entry THEN lane ELSE [lane EXCEPT ![l] = Idle]
          /\ \A m \in Lanes \ {l} : lanes[m] = lane[m]
    <3>1. Idle \in LaneT
       BY DEF Idle, LaneT, Host
    <3> QED BY <1>1, <3>1
  <2>4. lane' = Probing(l, lanes)
     BY <2>1, <2>3
  <2>5. /\ lane' \in [Lanes -> LaneT] /\ lane'[l].round = "probing" /\ lane'[l].since = now
        /\ \A m \in Lanes \ {l} : lane'[m] = lane[m]
    <3>1. \A m \in Lanes \ {l} : lanes[m] = lane[m]
       BY <2>3
    <3>2. /\ Probing(l, lanes) \in [Lanes -> LaneT]
          /\ Probing(l, lanes)[l].round = "probing" /\ Probing(l, lanes)[l].since = now
          /\ \A m \in Lanes \ {l} : Probing(l, lanes)[m] = lanes[m]
       BY ProbingFacts
    <3> QED BY <2>4, <3>1, <3>2
  <2>6. call' = [call EXCEPT ![b] = w] /\ entry' = l /\ (entry # None => entry = l) /\ lane[l].round = "off"
     BY <2>1, <2>2
  <2>7. ASSUME NEW c \in Callers, NEW k \in Waits, k = call'[c]
        PROVE  (k = call[c] /\ k.at # l) \/ Waiting(k)'
    <3>1. CASE c = b
      <4>1. k = w
         BY <1>1, <2>6, <2>7, <3>1
      <4>2. k.at = l /\ k.waits = "round" /\ k.asked = now
         BY <2>2, <4>1
      <4> QED BY <1>1, <2>5, <4>2 DEF Waiting
    <3>2. CASE c # b
      <4>1. k = call[c]
         BY <1>1, <2>6, <2>7, <3>2
      <4>2. Waiting(k)
         BY <4>1, WaitFacts
      <4> QED BY <2>6, <4>1, <4>2 DEF Waiting
    <3> QED BY <3>1, <3>2
  <2>8. authority' <= lane'[l].since /\ call' \in [Callers -> Waits \cup {NoCall}]
     BY <1>1, <2>5, <2>6
  <2> QED BY <1>1, <2>5, <2>6, <2>7, <2>8, ScopeStep
<1> QED BY <1>2, <1>3

LEMMA PokedStep ==
  ASSUME Coordinator, Host, Poked, UNCHANGED <<history, entry, call, authority>>
  PROVE  Coordinator'
<1>1. /\ history' = history /\ authority' = authority /\ authority' \in 0..now
      /\ lane \in [Lanes -> LaneT] /\ call' \in [Callers -> Waits \cup {NoCall}]
      /\ call' = call /\ entry' = entry /\ now' = now /\ now \in Nat
   BY DEF Coordinator, Host, now
<1>2. CASE ~Attached
  <2>1. UNCHANGED coordinator
     BY <1>1, <1>2 DEF Poked, coordinator
  <2> QED BY <1>1, <2>1, CoordinatorKept
<1>3. CASE Attached
  <2>1. PICK l \in Lanes : l = entry
     BY <1>3 DEF Attached, Coordinator
  <2>2. CASE lane[l].round = "off"
    <3>1. lane' = Probing(l, lane)
       BY <1>3, <2>1, <2>2 DEF Poked
    <3>2. /\ lane' \in [Lanes -> LaneT] /\ lane'[l].round = "probing" /\ lane'[l].since = now
          /\ \A m \in Lanes \ {l} : lane'[m] = lane[m]
       BY <1>1, <3>1, ProbingFacts
    <3>3. \A c \in Callers, k \in Waits : k = call'[c] => k = call[c] /\ k.at # l
       BY <1>1, <2>2, WaitFacts DEF Waiting
    <3>4. entry' = l /\ entry = l /\ authority' <= lane'[l].since
       BY <1>1, <2>1, <3>2
    <3> QED BY <1>1, <3>2, <3>3, <3>4, ScopeStep
  <2>3. CASE lane[l].round # "off"
    <3>1. lane' = Dirty(l, lane)
       BY <1>3, <2>1, <2>3 DEF Poked
    <3>2. /\ lane' \in [Lanes -> LaneT] /\ lane'[l].round = lane[l].round /\ lane'[l].dirty
          /\ lane'[l].since = lane[l].since /\ \A m \in Lanes \ {l} : lane'[m] = lane[m]
       BY <1>1, <3>1, DirtyFacts
    <3>3. ASSUME NEW c \in Callers, NEW k \in Waits, k = call'[c] PROVE Waiting(k)'
      <4>1. Waiting(k) /\ k.at \in Lanes
         BY <1>1, <3>3, WaitFacts
      <4> QED BY <1>1, <3>2, <4>1 DEF Waiting
    <3>4. /\ entry' = l /\ entry = l
          /\ lane'[l].round = "probing" => authority' <= lane'[l].since
       BY <1>1, <2>1, <3>2 DEF Coordinator
    <3> QED BY <1>1, <2>3, <3>2, <3>3, <3>4, ScopeStep
  <2> QED BY <2>2, <2>3
<1> QED BY <1>2, <1>3

\* A round ends: its callers have their result, those of the next one wait for it.
LEMMA RoundEndsStep ==
  ASSUME Coordinator, Host, NEW l \in Lanes, lane[l].round # "off", RoundEnds(l), history' = history,
         authority' \in 0..now, authority' # authority => entry = l
  PROVE  /\ Coordinator'
         /\ lane'[l].round \in {"off", "probing"} /\ \A m \in Lanes \ {l} : lane'[m] = lane[m]
<1>1. /\ lane \in [Lanes -> LaneT] /\ call \in [Callers -> Waits \cup {NoCall}] /\ now' = now
      /\ lane[l] \in LaneT /\ now \in Nat /\ None \notin Lanes
   BY DEF Coordinator, Host, now
<1>2. CASE lane[l].dirty /\ entry = l
  <2>1. /\ lane' = Probing(l, lane) /\ entry' = entry
        /\ call' = [c \in Callers |->
                     IF c \in Served(l, "round") THEN NoCall
                     ELSE IF c \in Served(l, "followup") THEN [call[c] EXCEPT !.waits = "round"]
                     ELSE call[c]]
     BY <1>2 DEF RoundEnds
  <2>2. /\ lane' \in [Lanes -> LaneT] /\ lane'[l].round = "probing" /\ lane'[l].since = now
        /\ \A m \in Lanes \ {l} : lane'[m] = lane[m]
     BY <1>1, <2>1, ProbingFacts
  <2>3. ASSUME NEW c \in Callers
        PROVE  /\ call'[c] \in Waits \cup {NoCall}
               /\ \A k \in Waits : k = call'[c] => (k = call[c] /\ k.at # l) \/ Waiting(k)'
    <3>1. CASE call[c] = NoCall
      <4>1. c \notin Served(l, "round") /\ c \notin Served(l, "followup")
         BY <1>1, <3>1 DEF Served, NoCall
      <4> QED BY <2>1, <3>1, <4>1 DEF Waits, NoCall
    <3>2. CASE call[c] # NoCall
      <4>1. PICK w \in Waits : w = call[c]
         BY <1>1, <3>2
      <4>2. w.waits \in {"round", "followup"} /\ w.asked \in 1..now
         BY DEF Waits
      <4>3. CASE w.at # l
         BY <2>1, <4>1, <4>3 DEF Served
      <4>4. CASE w.at = l /\ w.waits = "round"
         BY <1>1, <2>1, <4>1, <4>4 DEF Served, Waits, NoCall
      <4>5. CASE w.at = l /\ w.waits = "followup"
        <5>1. call'[c] = [w EXCEPT !.waits = "round"]
           BY <2>1, <4>1, <4>5 DEF Served
        <5>2. PICK v \in Waits : v = [w EXCEPT !.waits = "round"]
           BY DEF Waits
        <5>3. v.at = l /\ v.waits = "round" /\ v.asked \in 1..now
           BY <4>2, <4>5, <5>2 DEF Waits
        <5>4. Waiting(v)'
           BY <1>1, <2>2, <5>3 DEF Waiting
        <5> QED BY <5>1, <5>2, <5>4
      <4> QED BY <4>2, <4>3, <4>4, <4>5
    <3> QED BY <3>1, <3>2
  <2>4. call' \in [Callers -> Waits \cup {NoCall}]
     BY <2>1, <2>3
  <2>5. entry' = l /\ entry = l /\ authority' <= lane'[l].since
     BY <1>1, <1>2, <2>1, <2>2
  <2> QED BY <2>2, <2>3, <2>4, <2>5, ScopeStep
<1>3. CASE ~(lane[l].dirty /\ entry = l)
  <2>1. /\ call' = [c \in Callers |->
                     IF c \in Served(l, "round") \cup Served(l, "followup") THEN NoCall ELSE call[c]]
        /\ entry' = IF entry = l /\ ~lane[l].attached THEN None ELSE entry
        /\ lane' = [lane EXCEPT ![l] =
                     IF entry' = l THEN [lane[l] EXCEPT !.round = "off", !.since = 0] ELSE Idle]
     BY <1>3 DEF RoundEnds
  <2>2. /\ [lane[l] EXCEPT !.round = "off", !.since = 0] \in LaneT /\ Idle \in LaneT
        /\ [lane[l] EXCEPT !.round = "off", !.since = 0].round = "off" /\ Idle.round = "off"
    <3>1. Idle \in LaneT /\ Idle.round = "off"
       BY <1>1 DEF LaneT, Idle
    <3>2. /\ [lane[l] EXCEPT !.round = "off", !.since = 0] \in LaneT
          /\ [lane[l] EXCEPT !.round = "off", !.since = 0].round = "off"
      <4>1. PICK x \in LaneT : x = lane[l]
         BY <1>1
      <4>2. 0 \in 0..now
         BY <1>1
      <4>3. [x EXCEPT !.round = "off", !.since = 0].round = "off"
         BY DEF LaneT
      <4>4. [x EXCEPT !.round = "off", !.since = 0] \in LaneT
         BY <4>2 DEF LaneT
      <4> QED BY <4>1, <4>3, <4>4
    <3> QED BY <3>1, <3>2
  <2>3. /\ lane' \in [Lanes -> LaneT] /\ lane'[l].round = "off"
        /\ (l # entry' => lane'[l] = Idle)
        /\ \A m \in Lanes \ {l} : lane'[m] = lane[m]
     BY <1>1, <2>1, <2>2
  <2>4. /\ call' \in [Callers -> Waits \cup {NoCall}]
        /\ \A c \in Callers, k \in Waits : k = call'[c] => k = call[c] /\ k.at # l
    <3>1. ASSUME NEW c \in Callers, NEW k \in Waits, k = call'[c] PROVE k = call[c] /\ k.at # l
      <4>1. k # NoCall
         BY <1>1 DEF Waits, NoCall
      <4>2. k = call[c] /\ c \notin Served(l, "round") /\ c \notin Served(l, "followup")
         BY <2>1, <3>1, <4>1
      <4> QED BY <4>2 DEF Served, Waits
    <3>2. call' \in [Callers -> Waits \cup {NoCall}]
       BY <1>1, <2>1
    <3> QED BY <3>1, <3>2
  <2>5. entry' \in {entry, None} /\ (entry' # entry => entry = l)
     BY <2>1
  <2> QED BY <2>3, <2>4, <2>5, ScopeStep
<1> QED BY <1>2, <1>3

-------------------------------------------------------------------------------
(* The projection store *)

LEMMA StoreKept ==
  ASSUME Store, Host, Flying' = Flying, now' \in Nat, now' >= now,
         \A v \in 1..now : history'[v] = history[v],
         UNCHANGED <<view, since, earlier, superseded, floor>>, behind' \subseteq Flying,
         status' \in {"idle", "loading", "ready", "reconnecting", "error"},
         retry' \in {"none", "pending", "pulling"}
  PROVE  Store'
<1>1. /\ now \in Nat /\ floor \in 0..now /\ since \in [Pulls -> 0..now]
   BY DEF Store, Host
<1>2. since' \in [Pulls -> 0..now'] /\ floor' \in 0..now'
   BY <1>1
<1>3. ViewNeverStale'
  <2> SUFFICES ASSUME floor > 0 PROVE \E v \in floor..now' : history'[v] = view
     BY DEF ViewNeverStale
  <2>1. PICK v \in floor..now : history[v] = view
     BY DEF Store, ViewNeverStale
  <2> QED BY <1>1, <2>1
<1>4. Shown'
  <2> SUFFICES ASSUME view # None PROVE \E v \in 1..now' : v >= floor /\ history'[v] = view
     BY DEF Shown
  <2>1. PICK v \in 1..now : v >= floor /\ history[v] = view
     BY DEF Store, Shown
  <2> QED BY <1>1, <2>1
<1>5. Ordered'
   BY DEF Store, Ordered
<1> QED BY <1>2, <1>3, <1>4, <1>5 DEF Store

LEMMA RequestStep ==
  ASSUME Store, Host, NEW p \in Pulls, p \notin Flying, Flying' = Flying \cup {p}, Request(p),
         history' = history, behind' = behind, retry' \in {"none", "pending", "pulling"}
  PROVE  Store'
<1>1. /\ now \in Nat /\ now \in 1..now /\ now' = now /\ Flying \subseteq Pulls
      /\ floor \in 0..now /\ since \in [Pulls -> 0..now] /\ earlier \in [Pulls -> SUBSET Flying]
   BY DEF Store, Host, now, Flying, Pulls
<1>2. /\ since' = [since EXCEPT ![p] = now] /\ earlier' = [earlier EXCEPT ![p] = Flying]
      /\ UNCHANGED <<view, superseded, floor>>
      /\ status' \in {"idle", "loading", "ready", "reconnecting", "error"}
   BY DEF Request, Store
<1>3. /\ since' \in [Pulls -> 0..now] /\ earlier' \in [Pulls -> SUBSET (Flying')]
      /\ since'[p] = now /\ earlier'[p] = Flying
      /\ \A q \in Pulls \ {p} : since'[q] = since[q] /\ earlier'[q] = earlier[q]
   BY <1>1, <1>2
<1>4. ViewNeverStale' /\ Shown'
   BY <1>1, <1>2 DEF Store, ViewNeverStale, Shown
<1>5. Ordered'
  <2>1. \A q \in Flying' : q = p \/ q \in Flying \ {p}
     OBVIOUS
  <2>2. \A q \in Flying' : since'[q] >= 1 /\ since'[q] <= now
     BY <1>1, <1>3, <2>1 DEF Store, Ordered
  <2>3. ASSUME NEW a \in Flying', NEW b \in Flying', since'[a] < since'[b]
        PROVE  a \in earlier'[b]
    <3>1. a # p
       BY <1>1, <1>3, <2>2, <2>3
    <3>2. CASE b = p
       BY <1>3, <2>1, <3>1, <3>2
    <3>3. CASE b # p
       BY <1>1, <1>3, <2>1, <2>3, <3>1, <3>3 DEF Store, Ordered
    <3> QED BY <3>2, <3>3
  <2>4. \A a \in Flying' : a \notin superseded' => floor' <= since'[a]
     BY <1>1, <1>2, <1>3, <2>1 DEF Store, Ordered
  <2> QED BY <2>2, <2>3, <2>4 DEF Ordered
<1> QED BY <1>1, <1>2, <1>3, <1>4, <1>5 DEF Store

\* What an answer in or out of order makes of the view.
LEMMA AnswerStep ==
  ASSUME Store, Host, NEW p \in Flying, PullAnswered(p), history' = history
  PROVE  /\ ViewNeverStale' /\ Shown' /\ view' \in Pairs \cup {None}
         /\ floor' = IF p \in superseded \/ since[p] < floor THEN floor ELSE since[p]
<1>1. /\ now \in Nat /\ now' = now /\ p \in Pulls /\ floor \in 0..now /\ since[p] \in 1..now
      /\ p \notin superseded => floor <= since[p]
      /\ view \in Pairs \cup {None} /\ None \notin Pairs
  <2>1. p \in Pulls
     BY DEF Flying, Pulls
  <2>2. now \in Nat /\ now' = now /\ None \notin Pairs
     BY DEF Host, now, Pairs
  <2> QED BY <2>1, <2>2 DEF Store, Ordered
<1>2. \A v \in 1..now : history[v] \in Pairs
   BY DEF Host, now
<1>3. \A a \in Pairs : a.gen \in Nat
   BY DEF Pairs
<1>4. \A u, v \in 1..now : history[v].gen > history[u].gen => v > u
  <2> SUFFICES ASSUME NEW u \in 1..now, NEW v \in 1..now, v <= u
               PROVE  ~(history[v].gen > history[u].gen)
     BY <1>1
  <2>1. history[v].gen <= history[u].gen
     BY DEF Host, Grows
  <2> QED BY <1>2, <1>3, <2>1
<1>5. PICK v \in since[p]..now :
        view' = IF Applies(history[v]) /\ ~Dropped(p, history[v]) THEN history[v] ELSE view
   BY DEF PullAnswered
<1>6. v \in 1..now /\ history[v] \in Pairs
   BY <1>1, <1>2, <1>5
<1>7. floor' = IF p \in superseded \/ since[p] < floor THEN floor ELSE since[p]
   BY DEF PullAnswered
<1>8. view # None => \E u \in 1..now : u >= floor /\ history[u] = view
   BY DEF Store, Shown
<1>9. view = None => floor = 0
  <2>1. floor > 0 => \E u \in 1..now : history[u] = view
     BY <1>1 DEF Store, ViewNeverStale
  <2> QED BY <1>1, <1>2, <2>1
<1>10. (floor' > 0 \/ view' # None) => \E w \in 1..now : w >= floor' /\ history[w] = view'
  <2>1. CASE p \notin superseded
    <3>1. floor' = since[p] /\ v >= since[p]
       BY <1>1, <1>5, <1>7, <2>1
    <3>2. ~Dropped(p, history[v])
       BY <2>1 DEF Dropped
    <3>3. CASE Applies(history[v])
      <4>1. view' = history[v]
         BY <1>5, <3>2, <3>3
      <4> QED BY <1>6, <3>1, <4>1
    <3>4. CASE ~Applies(history[v])
      <4>1. /\ view' = view /\ view \in Pairs
            /\ ~(history[v].gen > view.gen) /\ ~(history[v].gen = view.gen /\ history[v].live # view.live)
         BY <1>1, <1>5, <3>4 DEF Applies
      <4>2. CASE history[v] = view
         BY <1>6, <3>1, <4>1, <4>2
      <4>3. CASE history[v] # view
        <5>1. history[v].gen # view.gen
           BY <1>6, <4>1, <4>3 DEF Pairs
        <5>2. view.gen > history[v].gen
           BY <1>3, <1>6, <4>1, <5>1
        <5>3. PICK u \in 1..now : u >= floor /\ history[u] = view
           BY <1>1, <1>8, <4>1
        <5>4. u > v
           BY <1>4, <1>6, <5>2, <5>3
        <5> QED BY <1>1, <1>6, <3>1, <4>1, <5>3, <5>4
      <4> QED BY <4>2, <4>3
    <3> QED BY <3>3, <3>4
  <2>2. CASE p \in superseded
    <3>1. floor' = floor
       BY <1>7, <2>2
    <3>2. CASE view' = view
       BY <1>1, <1>8, <1>9, <3>1, <3>2
    <3>3. CASE view' # view
      <4>1. view' = history[v] /\ ~Dropped(p, history[v])
         BY <1>5, <3>3
      <4>2. CASE view = None
         BY <1>1, <1>6, <1>9, <3>1, <4>1, <4>2
      <4>3. CASE view # None
        <5>1. PICK u \in 1..now : u >= floor /\ history[u] = view
           BY <1>8, <4>3
        <5>2. ~(history[v].gen <= view.gen)
           BY <2>2, <4>1, <4>3 DEF Dropped
        <5>3. history[v].gen > history[u].gen
           BY <1>2, <1>3, <1>6, <5>1, <5>2
        <5>4. v > u
           BY <1>4, <1>6, <5>1, <5>3
        <5> QED BY <1>1, <1>6, <3>1, <4>1, <5>1, <5>4
      <4> QED BY <4>2, <4>3
    <3> QED BY <3>2, <3>3
  <2> QED BY <2>1, <2>2
<1>11. floor' \in Nat /\ view' \in Pairs \cup {None}
   BY <1>1, <1>5, <1>6, <1>7
<1>12. ViewNeverStale' /\ Shown'
   BY <1>1, <1>10, <1>11 DEF ViewNeverStale, Shown
<1> QED BY <1>7, <1>11, <1>12

\* What is known of a pull that is over is dropped, and those requested before one that was
\* answered in order are superseded: the order of the others is kept.
LEMMA LandedStep ==
  ASSUME Store, Host, NEW p \in Flying, Landed(p), Flying' = Flying \ {p}, now' = now,
         superseded' \subseteq Flying', superseded \ {p} \subseteq superseded',
         floor' = floor \/ (floor' = since[p] /\ earlier[p] \ {p} \subseteq superseded')
  PROVE  /\ since' \in [Pulls -> 0..now'] /\ earlier' \in [Pulls -> SUBSET (Flying')]
         /\ floor' \in 0..now' /\ Ordered'
<1>1. /\ now \in Nat /\ p \in Pulls /\ Flying \subseteq Pulls /\ floor \in 0..now
      /\ since \in [Pulls -> 0..now] /\ earlier \in [Pulls -> SUBSET Flying]
   BY DEF Store, Host, Flying, Pulls
<1>2. /\ since' = [since EXCEPT ![p] = 0]
      /\ earlier' = [q \in Pulls |-> IF q = p THEN {} ELSE earlier[q] \ {p}]
   BY DEF Landed
<1>3. since' \in [Pulls -> 0..now] /\ \A q \in Flying' : q \in Flying /\ since'[q] = since[q]
   BY <1>1, <1>2
<1>4. \A q \in Pulls : earlier'[q] \in SUBSET (Flying')
   BY <1>1, <1>2
<1>5. earlier' \in [Pulls -> SUBSET (Flying')]
   BY <1>2, <1>4
<1>6. \A a, b \in Flying' : since'[a] < since'[b] => a \in earlier'[b]
  <2> SUFFICES ASSUME NEW a \in Flying', NEW b \in Flying', since'[a] < since'[b]
               PROVE  a \in earlier'[b]
     OBVIOUS
  <2>1. a \in earlier[b] /\ a # p /\ b # p
     BY <1>3 DEF Store, Ordered
  <2> QED BY <1>1, <1>2, <2>1
<1>7. ASSUME NEW a \in Flying', a \notin superseded' PROVE floor' <= since'[a]
  <2>1. a \in Flying /\ a # p /\ a \notin superseded /\ since'[a] = since[a]
     BY <1>3, <1>7
  <2>2. floor <= since[a]
     BY <2>1 DEF Store, Ordered
  <2>3. CASE floor' = since[p] /\ earlier[p] \ {p} \subseteq superseded'
    <3>1. ~(since[a] < since[p])
       BY <1>7, <2>1, <2>3 DEF Store, Ordered
    <3> QED BY <1>1, <2>1, <2>3, <3>1
  <2> QED BY <2>1, <2>2, <2>3
<1>8. \A a \in Flying' : since'[a] >= 1
   BY <1>3 DEF Store, Ordered
<1> QED BY <1>1, <1>3, <1>5, <1>6, <1>7, <1>8 DEF Ordered

\* A pull that is over is answered, refused or lost.
LEMMA PullEndsStep ==
  ASSUME Store, Host, NEW p \in Flying, PullEnds(p), Flying' = Flying \ {p}, history' = history
  PROVE  Store'
<1>1. /\ earlier[p] \subseteq Flying /\ superseded \subseteq Flying /\ behind \subseteq Flying
      /\ status \in {"idle", "loading", "ready", "reconnecting", "error"}
      /\ retry \in {"none", "pending", "pulling"} /\ now' = now /\ floor \in 0..now /\ now \in Nat
      /\ p \notin superseded => floor <= since[p]
      /\ Flying \subseteq Pulls /\ since[p] \in 0..now
  <2>1. Flying \subseteq Pulls /\ p \in Pulls
     BY DEF Flying, Pulls
  <2> QED BY <2>1 DEF Store, Host, Ordered, now
<1>2. /\ status' \in {"idle", "loading", "ready", "reconnecting", "error"}
      /\ retry' \in {"none", "pending", "pulling"}
   BY <1>1 DEF PullEnds, PullAnswered, PullRefused, PullLost, RoundTrip
<1>3. /\ Landed(p) /\ superseded' \subseteq Flying' /\ superseded \ {p} \subseteq superseded'
      /\ behind' \subseteq Flying'
   BY <1>1 DEF PullEnds, PullAnswered, PullRefused, PullLost, RoundTrip
<1>4. CASE PullAnswered(p)
  <2>1. /\ ViewNeverStale' /\ Shown' /\ view' \in Pairs \cup {None}
        /\ floor' = IF p \in superseded \/ since[p] < floor THEN floor ELSE since[p]
     BY <1>4, AnswerStep
  <2>2. earlier[p] \ {p} \subseteq superseded'
     BY <1>4 DEF PullAnswered, RoundTrip
  <2>3. floor' = floor \/ (floor' = since[p] /\ earlier[p] \ {p} \subseteq superseded')
     BY <2>1, <2>2
  <2>4. /\ since' \in [Pulls -> 0..now'] /\ earlier' \in [Pulls -> SUBSET (Flying')]
        /\ floor' \in 0..now' /\ Ordered'
     BY <1>1, <1>3, <2>3, LandedStep
  <2> QED BY <1>2, <1>3, <2>1, <2>4 DEF Store
<1>5. CASE PullRefused(p) \/ PullLost(p)
  <2>1. UNCHANGED <<view, floor>>
     BY <1>5 DEF PullRefused, PullLost
  <2>2. /\ since' \in [Pulls -> 0..now'] /\ earlier' \in [Pulls -> SUBSET (Flying')]
        /\ floor' \in 0..now' /\ Ordered'
     BY <1>1, <1>3, <2>1, LandedStep
  <2>3. ViewNeverStale' /\ Shown' /\ view' \in Pairs \cup {None}
     BY <1>1, <2>1 DEF Store, ViewNeverStale, Shown
  <2> QED BY <1>2, <1>3, <2>2, <2>3 DEF Store
<1> QED BY <1>4, <1>5 DEF PullEnds

-------------------------------------------------------------------------------
(* The pulls in flight *)

LEMMA FlyingFacts ==
  /\ Flying \subseteq Pulls
  /\ \A l \in Lanes : l \in Flying <=> lane[l].round = "pulling"
  /\ Retry \in Flying <=> retry = "pulling"
BY DEF Flying, Pulls

LEMMA FlyingFactsNext ==
  /\ Flying' \subseteq Pulls
  /\ \A l \in Lanes : l \in Flying' <=> lane'[l].round = "pulling"
  /\ Retry \in Flying' <=> retry' = "pulling"
BY DEF Flying, Pulls

LEMMA FlyingKept ==
  ASSUME \A l \in Lanes : lane'[l].round = "pulling" <=> lane[l].round = "pulling",
         retry' = "pulling" <=> retry = "pulling"
  PROVE  Flying' = Flying
BY DEF Flying

\* No view, no trigger and no tick touches a pull.
LEMMA RoundsKept ==
  ASSUME Coordinator, Host,
         Attach \/ Detach \/ Poked \/ \E c \in Callers : TriggerCoalesces(c) \/ TriggerStarts(c)
  PROVE  \A l \in Lanes : lane'[l].round = "pulling" <=> lane[l].round = "pulling"
<1> DEFINE Rounds(m, n) == \A l \in Lanes : m[l].round = "pulling" <=> n[l].round = "pulling"
<1>1. /\ lane \in [Lanes -> LaneT] /\ None \notin Lanes /\ entry \in Lanes \cup {None}
      /\ Idle \in LaneT /\ Idle.round = "off"
   BY DEF Coordinator, Host, Idle, LaneT
<1>2. ASSUME NEW l \in Lanes, NEW r \in LaneT, lane' = [lane EXCEPT ![l] = r],
             r.round = "pulling" <=> lane[l].round = "pulling"
      PROVE  Rounds(lane', lane)
   BY <1>1, <1>2
<1>3. ASSUME NEW l \in Lanes, NEW lanes \in [Lanes -> LaneT], lanes[l].round = "off", Rounds(lanes, lane),
             lane' = Probing(l, lanes)
      PROVE  Rounds(lane', lane)
  <2>1. /\ Probing(l, lanes)[l].round = "probing"
        /\ \A m \in Lanes \ {l} : Probing(l, lanes)[m] = lanes[m]
     BY ProbingFacts
  <2> QED BY <1>3, <2>1
<1>4. ASSUME NEW l \in Lanes, lane' = Dirty(l, lane) PROVE Rounds(lane', lane)
   BY <1>1, <1>4, DirtyFacts
<1>5. CASE Attach /\ entry # None
  <2>1. PICK l \in Lanes : l = entry
     BY <1>1, <1>5
  <2>2. lane' = [lane EXCEPT ![l] = [lane[l] EXCEPT !.attached = TRUE]]
     BY <1>5, <2>1 DEF Attach
  <2>3. /\ lane[l] \in LaneT /\ [lane[l] EXCEPT !.attached = TRUE] \in LaneT
        /\ [lane[l] EXCEPT !.attached = TRUE].round = lane[l].round
     BY <1>1 DEF LaneT
  <2> QED BY <1>2, <2>2, <2>3
<1>6. CASE Attach /\ entry = None
  <2>1. PICK l \in Lanes : /\ lane[l].round = "off"
                           /\ lane' = [lane EXCEPT ![l] = [Idle EXCEPT !.attached = TRUE]]
     BY <1>6 DEF Attach, Free
  <2>2. /\ [Idle EXCEPT !.attached = TRUE] \in LaneT
        /\ [Idle EXCEPT !.attached = TRUE].round = "off"
     BY <1>1 DEF Idle, LaneT
  <2> QED BY <1>2, <2>1, <2>2
<1>7. CASE Detach
  <2>1. PICK l \in Lanes : l = entry
     BY <1>1, <1>7 DEF Detach
  <2>2. lane' = [lane EXCEPT ![l] = IF lane[l].round = "off" THEN Idle
                   ELSE [lane[l] EXCEPT !.dirty = FALSE, !.attached = FALSE]]
     BY <1>7, <2>1 DEF Detach
  <2>3. /\ lane[l] \in LaneT /\ [lane[l] EXCEPT !.dirty = FALSE, !.attached = FALSE] \in LaneT
        /\ [lane[l] EXCEPT !.dirty = FALSE, !.attached = FALSE].round = lane[l].round
     BY <1>1 DEF LaneT
  <2> QED BY <1>1, <1>2, <2>2, <2>3
<1>8. CASE Poked
  <2>1. CASE ~Attached
     BY <1>8, <2>1 DEF Poked
  <2>2. CASE Attached
    <3>1. PICK l \in Lanes : l = entry
       BY <1>1, <2>2 DEF Attached
    <3>2. IF lane[l].round = "off" THEN lane' = Probing(l, lane) ELSE lane' = Dirty(l, lane)
       BY <1>8, <2>2, <3>1 DEF Poked
    <3> QED BY <1>1, <1>3, <1>4, <3>2
  <2> QED BY <2>1, <2>2
<1>9. CASE \E c \in Callers : TriggerCoalesces(c)
  <2>1. PICK l \in Lanes : lane' = Dirty(l, lane)
     BY <1>1, <1>9 DEF TriggerCoalesces
  <2> QED BY <1>4, <2>1
<1>10. CASE \E c \in Callers : TriggerStarts(c)
  <2>1. PICK l \in Lanes : /\ lane[l].round = "off"
                           /\ lane' = Probing(l, IF l = entry THEN lane ELSE [lane EXCEPT ![l] = Idle])
     BY <1>10 DEF TriggerStarts
  <2>2. PICK lanes \in [Lanes -> LaneT] :
          /\ lanes = IF l = entry THEN lane ELSE [lane EXCEPT ![l] = Idle]
          /\ lanes[l].round = "off" /\ Rounds(lanes, lane)
    <3>1. /\ [lane EXCEPT ![l] = Idle] \in [Lanes -> LaneT] /\ [lane EXCEPT ![l] = Idle][l] = Idle
          /\ \A m \in Lanes \ {l} : [lane EXCEPT ![l] = Idle][m] = lane[m]
       BY <1>1
    <3>2. Rounds([lane EXCEPT ![l] = Idle], lane)
       BY <1>1, <2>1, <3>1
    <3> QED BY <1>1, <2>1, <3>1, <3>2
  <2>3. lane' = Probing(l, lanes)
     BY <2>1, <2>2
  <2> QED BY <1>3, <2>2, <2>3
<1> QED BY <1>5, <1>6, <1>7, <1>8, <1>9, <1>10

-------------------------------------------------------------------------------
(* The steps *)

LEMMA HostKept ==
  ASSUME Host, history' = history, lost' \in BOOLEAN, failures' \in 0..MaxFailures
  PROVE  Host'
BY DEF Host, Grows, now

\* The store is left alone by a step that neither sends nor settles a pull.
LEMMA StoreUnchanged ==
  ASSUME Store, Host, history' = history, UNCHANGED store,
         \A l \in Lanes : lane'[l].round = "pulling" <=> lane[l].round = "pulling"
  PROVE  Store'
<1>1. /\ UNCHANGED <<view, status, retry, since, earlier, superseded, behind, floor>>
      /\ now' = now /\ now \in Nat
   BY DEF store, Host, now
<1>2. Flying' = Flying
   BY <1>1, FlyingKept
<1>3. /\ behind' \subseteq Flying /\ retry' \in {"none", "pending", "pulling"}
      /\ status' \in {"idle", "loading", "ready", "reconnecting", "error"}
   BY <1>1 DEF Store
<1> QED BY <1>1, <1>2, <1>3, StoreKept

LEMMA TeamChangesStep ==
  ASSUME Host, Coordinator, Store, TeamChanges
  PROVE  Host' /\ Coordinator' /\ Store'
<1>1. PICK p \in Pairs : /\ p.gen = history[now].gen + 1 \/ p.gen = history[now].gen
                         /\ history' = Append(history, p)
   BY DEF TeamChanges
<1>2. /\ UNCHANGED <<coordinator, store, failures, lost>> /\ now <= MaxChanges
      /\ history \in Seq(Pairs) /\ now \in 1..(MaxChanges + 1)
   BY DEF TeamChanges, bounds, Host
<1>3. /\ history' \in Seq(Pairs) /\ now' = now + 1 /\ history'[now + 1] = p
      /\ \A v \in 1..now : history'[v] = history[v]
   BY <1>1, <1>2 DEF now
<1>4. \A v \in 1..now : history[v].gen \in Nat /\ history[v].gen <= history[now].gen
  <2> SUFFICES ASSUME NEW v \in 1..now PROVE history[v].gen \in Nat /\ history[v].gen <= history[now].gen
     OBVIOUS
  <2>1. history[v] \in Pairs
     BY <1>2 DEF now
  <2>2. history[v].gen <= history[now].gen
     BY <1>2 DEF Host, Grows
  <2> QED BY <2>1, <2>2 DEF Pairs
<1>5. history[now].gen \in Nat /\ history[now].gen <= p.gen /\ p.gen \in Nat
   BY <1>1, <1>2, <1>4 DEF Pairs
<1>6. Host'
  <2>1. Grows'
    <3> SUFFICES ASSUME NEW i \in 1..now', NEW j \in 1..now', i <= j
                 PROVE  history'[i].gen <= history'[j].gen
       BY DEF Grows
    <3>1. CASE j \in 1..now
      <4>1. i \in 1..now /\ history'[i] = history[i] /\ history'[j] = history[j]
         BY <1>2, <1>3, <3>1
      <4>2. history[i].gen <= history[j].gen
         BY <3>1, <4>1 DEF Host, Grows
      <4> QED BY <4>1, <4>2
    <3>2. CASE j = now + 1 /\ i \in 1..now
       BY <1>3, <1>4, <1>5, <3>2
    <3>3. CASE j = now + 1 /\ i = now + 1
       BY <1>3, <1>5, <3>3
    <3> QED BY <1>2, <1>3, <3>1, <3>2, <3>3
  <2>2. now' \in 1..(MaxChanges + 1)
     BY <1>2, <1>3
  <2> QED BY <1>2, <1>3, <2>1, <2>2 DEF Host
<1>7. Coordinator'
   BY <1>2, <1>3, CoordinatorKept
<1>8. Store'
  <2>1. /\ UNCHANGED <<view, status, retry, since, earlier, superseded, behind, floor>>
        /\ lane' = lane
     BY <1>2 DEF store, coordinator
  <2>2. Flying' = Flying
     BY <2>1, FlyingKept
  <2>3. /\ behind' \subseteq Flying /\ retry' \in {"none", "pending", "pulling"}
        /\ status' \in {"idle", "loading", "ready", "reconnecting", "error"}
     BY <2>1 DEF Store
  <2> QED BY <1>2, <1>3, <2>1, <2>2, <2>3, StoreKept
<1> QED BY <1>6, <1>7, <1>8

LEMMA ViewsAndTriggersStep ==
  ASSUME Host, Coordinator, Store,
         Attach \/ Detach \/ Tick \/ \E c \in Callers : TriggerCoalesces(c) \/ TriggerStarts(c)
  PROVE  Host' /\ Coordinator' /\ Store'
<1>1. /\ history' = history /\ UNCHANGED store /\ lost' = lost /\ failures' = failures
      /\ lost \in BOOLEAN /\ failures \in 0..MaxFailures
   BY DEF Attach, Detach, Tick, TriggerCoalesces, TriggerStarts, bounds, Host
<1>2. \A l \in Lanes : lane'[l].round = "pulling" <=> lane[l].round = "pulling"
   BY RoundsKept DEF Tick
<1>3. Coordinator'
  <2>1. CASE Tick
     BY <2>1, PokedStep DEF Tick
  <2> QED BY <2>1, ViewSteps, TriggerSteps
<1> QED BY <1>1, <1>2, <1>3, HostKept, StoreUnchanged

\* A request that fails is within the bound.
LEMMA FailureFacts ==
  ASSUME Host, Failure
  PROVE  failures' \in 0..MaxFailures /\ lost' = lost
BY DEF Failure, Host

LEMMA ProbeEndsStep ==
  ASSUME Host, Coordinator, Store, NEW l \in Lanes,
         ProbeSuperseded(l) \/ ProbeFails(l) \/ ProbeUnchanged(l)
  PROVE  Host' /\ Coordinator' /\ Store'
<1>1. /\ history' = history /\ UNCHANGED store /\ lane[l].round = "probing" /\ RoundEnds(l)
      /\ lost \in BOOLEAN /\ failures \in 0..MaxFailures
   BY DEF ProbeSuperseded, ProbeFails, ProbeUnchanged, Host
<1>2. lost' = lost /\ failures' \in 0..MaxFailures
   BY <1>1, FailureFacts DEF ProbeSuperseded, ProbeFails, ProbeUnchanged, bounds
<1>3. authority' \in 0..now /\ (authority' # authority => entry = l)
  <2>1. authority \in 0..now /\ lane[l].since \in 0..now /\ now \in Nat
     BY DEF Coordinator, LaneT, Host
  <2> QED BY <2>1 DEF ProbeSuperseded, ProbeFails, ProbeUnchanged, Current
<1>4. /\ Coordinator'
      /\ lane'[l].round \in {"off", "probing"} /\ \A m \in Lanes \ {l} : lane'[m] = lane[m]
   BY <1>1, <1>3, RoundEndsStep
<1>5. \A m \in Lanes : lane'[m].round = "pulling" <=> lane[m].round = "pulling"
   BY <1>1, <1>4
<1> QED BY <1>1, <1>2, <1>4, <1>5, HostKept, StoreUnchanged

\* The probe of the scope in the map differs from the view: its round pulls.
LEMMA ProbeChangedStep ==
  ASSUME Host, Coordinator, Store, NEW l \in Lanes, ProbeChanged(l)
  PROVE  Host' /\ Coordinator' /\ Store'
<1>1. /\ history' = history /\ UNCHANGED <<entry, call, failures, lost>> /\ entry = l
      /\ lane[l].round = "probing" /\ lane' = [lane EXCEPT ![l].round = "pulling"]
      /\ Request(l) /\ retry' = IF retry = "pending" THEN "none" ELSE retry
      /\ lost \in BOOLEAN /\ failures \in 0..MaxFailures /\ now \in Nat /\ now' = now
   BY DEF ProbeChanged, Current, bounds, Host, now
<1>2. /\ lane \in [Lanes -> LaneT] /\ call' \in [Callers -> Waits \cup {NoCall}]
      /\ retry \in {"none", "pending", "pulling"}
   BY <1>1 DEF Coordinator, Store
<1>3. lane[l] \in LaneT
   BY <1>2
<1>4. /\ lane' \in [Lanes -> LaneT] /\ lane'[l].round = "pulling"
      /\ lane'[l].since = lane[l].since /\ lane'[l].dirty = lane[l].dirty
      /\ \A m \in Lanes \ {l} : lane'[m] = lane[m]
   BY <1>1, <1>2, <1>3 DEF LaneT
<1>5. authority' \in 0..now
  <2>1. lane[l].since \in 0..now
     BY <1>3 DEF LaneT
  <2> QED BY <1>1, <2>1 DEF ProbeChanged
<1>6. ASSUME NEW c \in Callers, NEW k \in Waits, k = call'[c] PROVE Waiting(k)'
  <2>1. Waiting(k) /\ k.at \in Lanes
     BY <1>1, <1>6, WaitFacts
  <2> QED BY <1>1, <1>4, <2>1 DEF Waiting
<1>7. Coordinator'
   BY <1>1, <1>2, <1>4, <1>5, <1>6, ScopeStep
<1>8. Flying' = Flying \cup {l}
  <2>1. l \in Pulls /\ Retry \notin Lanes /\ (retry' = "pulling" <=> retry = "pulling")
     BY <1>1, <1>2 DEF Pulls
  <2>2. \A m \in Lanes : lane'[m].round = "pulling" <=> m = l \/ lane[m].round = "pulling"
     BY <1>4
  <2> QED BY <2>1, <2>2 DEF Flying
<1>9. Store'
  <2>1. l \notin Flying /\ l \in Pulls
     BY <1>1, FlyingFacts DEF Pulls
  <2>2. behind' = behind /\ retry' \in {"none", "pending", "pulling"}
     BY <1>1, <1>2 DEF Request
  <2> QED BY <1>1, <1>8, <2>1, <2>2, RequestStep
<1> QED BY <1>1, <1>7, <1>9, HostKept

LEMMA RetryFiresStep ==
  ASSUME Host, Coordinator, Store, RetryFires
  PROVE  Host' /\ Coordinator' /\ Store'
<1>1. /\ history' = history /\ UNCHANGED coordinator /\ UNCHANGED <<failures, lost, lane>>
      /\ retry = "pending" /\ retry' = "pulling" /\ Request(Retry)
      /\ lost \in BOOLEAN /\ failures \in 0..MaxFailures /\ now \in Nat /\ now' = now
   BY DEF RetryFires, bounds, coordinator, Host, now
<1>2. Flying' = Flying \cup {Retry}
   BY <1>1 DEF Flying
<1>3. Retry \in Pulls /\ Retry \notin Flying
   BY <1>1, FlyingFacts DEF Pulls
<1>4. Store'
   BY <1>1, <1>2, <1>3, RequestStep DEF Request
<1>5. Coordinator'
   BY <1>1, CoordinatorKept
<1> QED BY <1>1, <1>4, <1>5, HostKept

\* Only the pull of the retry ends the retry that is pulling.
LEMMA PullEndsFacts ==
  ASSUME Host, Store, NEW p \in Pulls, PullEnds(p)
  PROVE  /\ p \in Flying /\ lost' = lost /\ failures' \in 0..MaxFailures
         /\ IF p = Retry THEN retry' # "pulling" ELSE retry' = "pulling" <=> retry = "pulling"
<1>1. failures \in 0..MaxFailures /\ (Failure => failures' \in 0..MaxFailures /\ lost' = lost)
   BY FailureFacts DEF Host
<1> QED BY <1>1 DEF PullEnds, PullAnswered, PullRefused, PullLost, RoundTrip, Rescheduled, bounds

LEMMA PulledStep ==
  ASSUME Host, Coordinator, Store, RetryEnds \/ \E l \in Lanes : RoundPulled(l)
  PROVE  Host' /\ Coordinator' /\ Store'
<1>1. lost \in BOOLEAN /\ now \in Nat /\ authority \in 0..now
   BY DEF Host, Coordinator
<1>2. CASE RetryEnds
  <2>1. /\ PullEnds(Retry) /\ history' = history /\ UNCHANGED coordinator /\ lane' = lane
        /\ now' = now /\ Retry \in Pulls
     BY <1>2 DEF RetryEnds, coordinator, now, Pulls
  <2>2. Retry \in Flying /\ lost' = lost /\ failures' \in 0..MaxFailures /\ retry' # "pulling"
     BY <2>1, PullEndsFacts
  <2>3. Flying' = Flying \ {Retry}
     BY <2>1, <2>2 DEF Flying
  <2>4. Store'
     BY <2>1, <2>2, <2>3, PullEndsStep
  <2> QED BY <1>1, <2>1, <2>2, <2>4, HostKept, CoordinatorKept
<1>3. ASSUME NEW l \in Lanes, RoundPulled(l) PROVE Host' /\ Coordinator' /\ Store'
  <2>1. /\ PullEnds(l) /\ RoundEnds(l) /\ history' = history /\ authority' = authority
        /\ l \in Pulls /\ l # Retry
     BY <1>3 DEF RoundPulled, Pulls
  <2>2. /\ l \in Flying /\ lost' = lost /\ failures' \in 0..MaxFailures
        /\ retry' = "pulling" <=> retry = "pulling"
     BY <2>1, PullEndsFacts
  <2>3. lane[l].round = "pulling"
     BY <2>2, FlyingFacts
  <2>4. /\ Coordinator'
        /\ lane'[l].round \in {"off", "probing"} /\ \A m \in Lanes \ {l} : lane'[m] = lane[m]
     BY <1>1, <2>1, <2>3, RoundEndsStep
  <2>5. Flying' = Flying \ {l}
    <3>1. \A m \in Lanes : lane'[m].round = "pulling" <=> m # l /\ lane[m].round = "pulling"
       BY <2>4
    <3> QED BY <2>1, <2>2, <3>1 DEF Flying
  <2>6. Store'
     BY <2>1, <2>2, <2>5, PullEndsStep
  <2> QED BY <1>1, <2>1, <2>2, <2>4, <2>6, HostKept
<1> QED BY <1>2, <1>3

LEMMA ConnectionStep ==
  ASSUME Host, Coordinator, Store, ConnectionLost \/ ConnectionRestored
  PROVE  Host' /\ Coordinator' /\ Store'
<1>1. /\ history' = history /\ now' = now /\ now \in Nat /\ history \in Seq(Pairs)
      /\ failures \in 0..MaxFailures
      /\ UNCHANGED <<view, since, earlier, superseded, floor>>
   BY DEF ConnectionLost, ConnectionRestored, Host, now
<1>2. lost' \in BOOLEAN /\ failures' \in 0..MaxFailures
  <2>1. lost' = TRUE \/ lost' = FALSE
     BY DEF ConnectionLost, ConnectionRestored
  <2>2. failures' \in 0..MaxFailures
     BY <1>1 DEF ConnectionLost, ConnectionRestored
  <2> QED BY <2>1, <2>2
<1>3. /\ behind' \subseteq Flying /\ retry' \in {"none", "pending", "pulling"}
      /\ status' \in {"idle", "loading", "ready", "reconnecting", "error"}
      /\ retry' = "pulling" <=> retry = "pulling"
   BY DEF ConnectionLost, ConnectionRestored, Store
<1>4. CASE ConnectionLost
  <2>1. UNCHANGED coordinator /\ lane' = lane
     BY <1>4 DEF ConnectionLost, coordinator
  <2>2. Flying' = Flying
     BY <1>3, <2>1, FlyingKept
  <2> QED BY <1>1, <1>2, <1>3, <2>1, <2>2, HostKept, CoordinatorKept, StoreKept
<1>5. CASE ConnectionRestored
  <2>1. Poked /\ UNCHANGED <<history, entry, call, authority>>
     BY <1>5 DEF ConnectionRestored
  <2>2. Flying' = Flying
     BY <1>3, <2>1, FlyingKept, RoundsKept
  <2> QED BY <1>1, <1>2, <1>3, <2>1, <2>2, HostKept, PokedStep, StoreKept
<1> QED BY <1>4, <1>5

-------------------------------------------------------------------------------
(* The theorems *)

LEMMA InitInvariant == Init => IInv
<1> SUFFICES ASSUME Init PROVE Host /\ Coordinator /\ Store
   BY Parts
<1>1. \E t \in LiveTokens : TRUE
   OBVIOUS
<1>2. PICK p \in Pairs : history = <<p>>
   BY <1>1 DEF Init, Pairs
<1>3. now = 1 /\ history \in Seq(Pairs)
   BY <1>2 DEF now
<1>4. Host
  <2>1. p.gen \in Nat
     BY DEF Pairs
  <2>2. \A i \in 1..now : history[i] = p
     BY <1>2, <1>3
  <2>3. Grows
     BY <2>1, <2>2 DEF Grows
  <2>4. lost = FALSE /\ failures = 0 /\ now \in 1..(MaxChanges + 1)
     BY <1>3 DEF Init
  <2>5. lost \in BOOLEAN
     BY <2>4, Zenon
  <2>6. failures \in 0..MaxFailures
     BY <2>4
  <2> QED BY <1>3, <2>3, <2>4, <2>5, <2>6 DEF Host
<1>5. Coordinator
   BY <1>3 DEF Init, Coordinator, Idle, LaneT
<1>6. Store
  <2>1. Flying = {}
     BY DEF Init, Flying, Idle
  <2> QED BY <1>3, <2>1 DEF Init, Store, ViewNeverStale, Shown, Ordered
<1> QED BY <1>4, <1>5, <1>6

LEMMA NextInvariant == IInv /\ [Next]_vars => IInv'
<1> SUFFICES ASSUME Host, Coordinator, Store, [Next]_vars PROVE Host' /\ Coordinator' /\ Store'
   BY Parts, PartsNext
<1>1. CASE UNCHANGED vars
  <2>1. /\ history' = history /\ UNCHANGED coordinator /\ UNCHANGED store /\ lane' = lane
        /\ lost' = lost /\ failures' = failures /\ now' = now
     BY <1>1 DEF vars, coordinator, bounds, now
  <2>2. lost' \in BOOLEAN /\ failures' \in 0..MaxFailures /\ now \in Nat
     BY <2>1 DEF Host
  <2> QED BY <2>1, <2>2, HostKept, CoordinatorKept, StoreUnchanged
<1>2. CASE TeamChanges
   BY <1>2, TeamChangesStep
<1>3. CASE Attach \/ Detach \/ Tick \/ \E c \in Callers : TriggerCoalesces(c) \/ TriggerStarts(c)
   BY <1>3, ViewsAndTriggersStep
<1>4. CASE \E l \in Lanes : ProbeSuperseded(l) \/ ProbeFails(l) \/ ProbeUnchanged(l)
   BY <1>4, ProbeEndsStep
<1>5. CASE \E l \in Lanes : ProbeChanged(l)
   BY <1>5, ProbeChangedStep
<1>6. CASE RetryEnds \/ \E l \in Lanes : RoundPulled(l)
   BY <1>6, PulledStep
<1>7. CASE RetryFires
   BY <1>7, RetryFiresStep
<1>8. CASE ConnectionLost \/ ConnectionRestored
   BY <1>8, ConnectionStep
<1> QED BY <1>1, <1>2, <1>3, <1>4, <1>5, <1>6, <1>7, <1>8 DEF Next, Round

\* The invariant: the coordinator and the store of team-refresh-coordinator.ts and
\* team-projection-store.ts stay consistent whatever overlaps and whatever fails.
THEOREM RefreshInvariant == Spec => []IInv
<1> QED BY InitInvariant, NextInvariant, PTL DEF Spec

\* The parts of the state fit: what is known of pulls is known of those in flight, and a
\* caller waits for a round in flight only (startRound of team-refresh-coordinator.ts).
THEOREM RefreshTypes == Spec => []TypeOK
<1>1. IInv => TypeOK
   BY DEF IInv
<1> QED BY <1>1, RefreshInvariant, PTL

\* A late answer never rolls the view back behind the request of a pull that was answered
\* in order (the assessment and the stale-apply guard of team-projection-store.ts).
THEOREM ViewIsNeverStale == Spec => []ViewNeverStale
<1>1. IInv => ViewNeverStale
   BY DEF IInv
<1> QED BY <1>1, RefreshInvariant, PTL

\* The end of a round serves those whose probe it was, and those of the next one only if
\* the scope has left the map.
LEMMA RoundEndsFresh ==
  ASSUME Coordinator, Host, NEW l \in Lanes, RoundEnds(l)
  PROVE  TriggerIsFresh
<1> SUFFICES ASSUME NEW c \in Callers, call[c] # NoCall, call'[c] = NoCall, entry = call[c].at
             PROVE  lane[entry].since >= call[c].asked
   BY DEF TriggerIsFresh
<1>1. PICK k \in Waits : k = call[c]
   BY DEF Coordinator
<1>2. /\ Waiting(k) /\ k.at = entry /\ k.at \in Lanes /\ k.waits \in {"round", "followup"}
      /\ k.asked \in Nat
   BY <1>1, WaitFacts
<1>3. lane[entry].since \in Nat
  <2>1. lane[entry] \in LaneT /\ now \in Nat
     BY <1>2 DEF Coordinator, Host
  <2> QED BY <2>1 DEF LaneT
<1>4. k.waits = "round"
  <2>1. SUFFICES ASSUME k.waits = "followup" PROVE FALSE
     BY <1>2
  <2>2. lane[entry].dirty
     BY <1>2, <2>1 DEF Waiting
  <2>3. CASE lane[l].dirty /\ entry = l
    <3>1. c \in Served(l, "followup") /\ c \notin Served(l, "round")
       BY <1>1, <1>2, <2>1, <2>3 DEF Served
    <3>2. call'[c] = [call[c] EXCEPT !.waits = "round"]
       BY <2>3, <3>1 DEF RoundEnds
    <3>3. [k EXCEPT !.waits = "round"].at = k.at /\ NoCall.at = None /\ None \notin Lanes
       BY DEF Waits, NoCall
    <3> QED BY <1>1, <1>2, <3>2, <3>3
  <2>4. CASE ~(lane[l].dirty /\ entry = l)
    <3>1. entry # l
       BY <2>2, <2>4
    <3>2. c \notin Served(l, "round") \cup Served(l, "followup")
       BY <1>1, <1>2, <3>1 DEF Served
    <3>3. call'[c] = call[c]
       BY <2>4, <3>2 DEF RoundEnds
    <3> QED BY <3>3
  <2> QED BY <2>3, <2>4
<1> QED BY <1>1, <1>2, <1>3, <1>4 DEF Waiting

\* No caller has its result from a step that ends no round.
LEMMA NobodyServed ==
  ASSUME \A c \in Callers : call[c] = NoCall \/ call'[c] = call[c]
  PROVE  TriggerIsFresh
BY DEF TriggerIsFresh

\* A step that leaves the read state alone does not take it back.
LEMMA AuthorityKept ==
  ASSUME Host, Coordinator, authority' = authority
  PROVE  AuthorityNeverBack
BY DEF Host, Coordinator, AuthorityNeverBack

\* A probe of the scope in the map was sent after what is published was read.
LEMMA ProbedForward ==
  ASSUME Host, Coordinator, NEW l \in Lanes, lane[l].round = "probing", Current(l),
         NEW v \in lane[l].since..now, authority' = v
  PROVE  AuthorityNeverBack
<1>1. /\ lane[l] \in LaneT /\ now \in Nat /\ authority \in 0..now
      /\ authority <= lane[l].since
   BY DEF Coordinator, Host, Current
<1> QED BY <1>1 DEF LaneT, AuthorityNeverBack

\* No caller of trigger has the result of a probe that was sent before it asked (the
\* coalescing of startRound), and the read state published never goes back to an older
\* one (isCurrent of runRound), for any number of scopes, callers and failures.
THEOREM ProbesStayFresh == Spec => ProbesAreFresh
<1>1. IInv /\ [Next]_vars => [TriggerIsFresh /\ AuthorityNeverBack]_vars
  <2> SUFFICES ASSUME Host, Coordinator, Store, Next PROVE TriggerIsFresh /\ AuthorityNeverBack
     BY Parts
  <2>1. CASE TeamChanges \/ RetryFires \/ RetryEnds \/ ConnectionLost
    <3>1. call' = call /\ authority' = authority
       BY <2>1 DEF TeamChanges, RetryFires, RetryEnds, ConnectionLost, coordinator
    <3> QED BY <3>1, NobodyServed, AuthorityKept
  <2>2. CASE Attach \/ Detach \/ Tick \/ ConnectionRestored
    <3>1. call' = call /\ authority' = authority
       BY <2>2 DEF Attach, Detach, Tick, ConnectionRestored
    <3> QED BY <3>1, NobodyServed, AuthorityKept
  <2>3. CASE \E c \in Callers : TriggerCoalesces(c) \/ TriggerStarts(c)
    <3>1. PICK b \in Callers : /\ call[b] = NoCall /\ authority' = authority
                               /\ \E k : call' = [call EXCEPT ![b] = k]
       BY <2>3 DEF TriggerCoalesces, TriggerStarts
    <3>2. \A c \in Callers : call[c] = NoCall \/ call'[c] = call[c]
       BY <3>1 DEF Coordinator
    <3> QED BY <3>1, <3>2, NobodyServed, AuthorityKept
  <2>4. ASSUME NEW l \in Lanes, ProbeSuperseded(l) PROVE TriggerIsFresh /\ AuthorityNeverBack
     BY <2>4, RoundEndsFresh, AuthorityKept DEF ProbeSuperseded
  <2>5. ASSUME NEW l \in Lanes, ProbeFails(l) \/ ProbeUnchanged(l)
        PROVE  TriggerIsFresh /\ AuthorityNeverBack
    <3>1. PICK v \in lane[l].since..now : authority' = v
       BY <2>5 DEF ProbeFails, ProbeUnchanged
    <3>2. lane[l].round = "probing" /\ Current(l) /\ RoundEnds(l)
       BY <2>5 DEF ProbeFails, ProbeUnchanged
    <3> QED BY <3>1, <3>2, ProbedForward, RoundEndsFresh
  <2>6. ASSUME NEW l \in Lanes, ProbeChanged(l) PROVE TriggerIsFresh /\ AuthorityNeverBack
    <3>1. PICK v \in lane[l].since..now : authority' = v
       BY <2>6 DEF ProbeChanged
    <3>2. lane[l].round = "probing" /\ Current(l) /\ call' = call
       BY <2>6 DEF ProbeChanged
    <3> QED BY <3>1, <3>2, ProbedForward, NobodyServed
  <2>7. ASSUME NEW l \in Lanes, RoundPulled(l) PROVE TriggerIsFresh /\ AuthorityNeverBack
     BY <2>7, RoundEndsFresh, AuthorityKept DEF RoundPulled
  <2> QED BY <2>1, <2>2, <2>3, <2>4, <2>5, <2>6, <2>7 DEF Next, Round
<1> QED BY <1>1, RefreshInvariant, PTL DEF Spec, ProbesAreFresh

===============================================================================
