----------------------- MODULE WorkspaceStream_proofs -----------------------
(***************************************************************************)
(* When a stream ends by itself the page shows the Run as the backend has  *)
(* it: a theorem about Workspace, for any number of requests, of           *)
(* conversations, of Runs and of troubles. Without a local event the page  *)
(* shows the beginning of one log, and its status is that of the last      *)
(* event of it that has one, or the log has more to come.                  *)
(***************************************************************************)
EXTENDS WorkspaceView_proofs

-----------------------------------------------------------------------------
(***************************************************************************)
(* More about the database: how a log ends, and how long it gets.          *)
(***************************************************************************)
Decided(r) == card[r] \in {"claimed", "decided"}

RunMore(r) ==
  /\ Decided(r) => row[r] \in {"running", "completed", "cancelled"}
  /\ Decided(r) /\ row[r] \in RunTerminal => log[r][Len(log[r])] = row[r]
  /\ Len(log[r]) <= 5
  /\ row[r] = "running" => Len(log[r]) <= 4
  /\ row[r] = "running" /\ card[r] = "none" => Len(log[r]) <= 1
  /\ row[r] = "running" /\ card[r] = "claimed" => Len(log[r]) <= 3
  /\ row[r] = "waiting" => Len(log[r]) <= 2
  /\ card[r] = "pending" => Len(log[r]) <= 3
  /\ card[r] = "claimed" => Len(log[r]) <= 4

LogsEnd == \A r \in Runs : RunMore(r)

LEMMA MoreKept ==
  ASSUME NEW r \in Runs, RunMore(r), log'[r] = log[r], row'[r] = row[r], card'[r] = card[r]
  PROVE  RunMore(r)'
BY DEF RunMore, Decided

\* One more event, under rows that agree with it.
LEMMA MoreEvents ==
  ASSUME ServerInv, NEW r \in Runs, RunMore(r), home' = home,
         NEW type \in LogTypes, log' = [log EXCEPT ![r] = Append(@, type)],
         \/ /\ row[r] = "running" /\ card[r] = "none" /\ card'[r] = "pending" /\ row'[r] = "waiting"
         \/ /\ row[r] = "running" /\ card[r] = "claimed" /\ card'[r] = "decided"
            /\ row'[r] = "running"
         \/ /\ row[r] = "running" /\ card[r] # "claimed" /\ card'[r] = card[r] /\ row'[r] = type
            /\ type \in RunTerminal
         \/ /\ row[r] \in {"running", "waiting"} /\ card'[r] = card[r] /\ row'[r] = "cancelled"
            /\ type = "cancelled"
  PROVE  RunMore(r)'
<1>1. /\ DOMAIN log[r] = 1..Len(log[r]) /\ DOMAIN log'[r] = 1..(Len(log[r]) + 1)
      /\ log'[r][Len(log[r]) + 1] = type /\ Len(log[r]) \in Nat
  BY OneMore DEF ServerInv
<1>2. log'[r] \in Seq(LogTypes)
  BY OneMore DEF ServerInv
<1>3. Len(log'[r]) = Len(log[r]) + 1
  BY <1>1, <1>2
<1>4. card[r] = "pending" => row[r] \in {"waiting", "cancelled"}
  BY DEF ServerInv, RunOK
<1> QED BY <1>1, <1>3, <1>4 DEF RunMore, Decided, RunTerminal

LEMMA LogsEndInit == Init => LogsEnd
<1> SUFFICES ASSUME Init, NEW r \in Runs PROVE RunMore(r)
  BY DEF LogsEnd
<1>1. \/ row[r] = "none" /\ card[r] = "none" /\ log[r] = <<>>
      \/ row[r] = "waiting" /\ card[r] = "pending" /\ log[r] = <<"started", "required">>
  BY DEF Init
<1>2. CASE row[r] = "none" /\ card[r] = "none" /\ log[r] = <<>>
  <2>1. Len(log[r]) = 0
    BY <1>2
  <2> QED BY <1>2, <2>1 DEF RunMore, Decided
<1>3. CASE row[r] = "waiting" /\ card[r] = "pending" /\ log[r] = <<"started", "required">>
  <2>1. Len(log[r]) = 2
    BY <1>3
  <2> QED BY <1>3, <2>1 DEF RunMore, Decided
<1> QED BY <1>1, <1>2, <1>3

LEMMA LogsEndNext ==
  ASSUME TypeInv, LogsEnd, [Next]_vars
  PROVE  LogsEnd'
<1> SUFFICES ASSUME NEW q \in Runs PROVE RunMore(q)'
  BY DEF LogsEnd
<1>1. /\ ServerInv /\ RunMore(q) /\ RunOK(q) /\ row \in [Runs -> Rows] /\ card \in [Runs -> Cards]
      /\ log \in [Runs -> Seq(LogTypes)] /\ home \in [Runs -> Conversations \cup {None}]
  BY DEF TypeInv, ServerInv, ServerTypeOK, LogsEnd
<1>2. CASE UNCHANGED server
  BY <1>1, <1>2, MoreKept DEF server
<1>3. ASSUME NEW r \in Runs, RunPauses(r) \/ RunResumes(r) \/ RunEnds(r) PROVE RunMore(q)'
  <2>1. CASE q # r
    BY <1>1, <1>3, <2>1, MoreKept DEF RunPauses, RunResumes, RunEnds
  <2>2. CASE q = r
    <3>1. PICK type \in LogTypes : log' = [log EXCEPT ![q] = Append(@, type)]
                                   /\ (RunEnds(r) => type = "completed")
      BY <1>3, <2>2 DEF RunPauses, RunResumes, RunEnds, LogTypes
    <3>2. home' = home
      BY <1>3 DEF RunPauses, RunResumes, RunEnds
    <3>3. CASE RunPauses(r)
      BY <1>1, <2>2, <3>1, <3>2, <3>3, MoreEvents DEF RunPauses
    <3>4. CASE RunResumes(r)
      BY <1>1, <2>2, <3>1, <3>2, <3>4, MoreEvents DEF RunResumes
    <3>5. CASE RunEnds(r)
      BY <1>1, <2>2, <3>1, <3>2, <3>5, MoreEvents DEF RunEnds, RunTerminal
    <3> QED BY <1>3, <3>3, <3>4, <3>5
  <2> QED BY <2>1, <2>2
<1>4. ASSUME NEW s \in Slots, Claims(s) PROVE RunMore(q)'
  <2> DEFINE r == job[s].run
  <2>1. r \in Runs
    BY <1>4 DEF TypeInv, JobsInv, JobIs, Claims
  <2>2. /\ log' = log
        /\ IF card[r] = "pending"
           THEN card' = [card EXCEPT ![r] = "claimed"] /\ row' = [row EXCEPT ![r] = "running"]
           ELSE UNCHANGED <<card, row>>
    BY <1>4 DEF Claims
  <2> HIDE DEF r
  <2>3. CASE card[r] = "pending" /\ q = r
    BY <1>1, <2>2, <2>3 DEF RunMore, Decided, RunTerminal, ServerInv, ServerTypeOK
  <2>4. CASE card[r] # "pending" \/ q # r
    BY <1>1, <2>2, <2>4, MoreKept
  <2> QED BY <2>3, <2>4
<1>5. ASSUME NEW s \in Slots, Cancels(s) PROVE RunMore(q)'
  <2> DEFINE r == job[s].run
  <2>1. /\ r \in Runs /\ home[r] \in alive /\ UNCHANGED <<home, card>>
        /\ IF row[r] \in RunTerminal THEN UNCHANGED <<row, log>>
           ELSE /\ row' = [row EXCEPT ![r] = "cancelled"]
                /\ log' = [log EXCEPT ![r] = Append(@, "cancelled")]
    BY <1>5 DEF Cancels
  <2> HIDE DEF r
  <2>2. CASE row[r] \in RunTerminal \/ q # r
    BY <1>1, <2>1, <2>2, MoreKept
  <2>3. CASE row[r] \notin RunTerminal /\ q = r
    <3>1. row[q] \in {"running", "waiting"} /\ row'[q] = "cancelled" /\ card'[q] = card[q]
      BY <1>1, <2>1, <2>3 DEF RunOK, Rows, RunTerminal
    <3>2. "cancelled" \in LogTypes /\ log' = [log EXCEPT ![q] = Append(@, "cancelled")] /\ home' = home
      BY <2>1, <2>3 DEF LogTypes
    <3> QED BY <1>1, <3>1, <3>2, MoreEvents
  <2> QED BY <2>2, <2>3
<1>6. ASSUME NEW s \in Slots, Deletes(s) PROVE RunMore(q)'
  <2>1. /\ log' = log
        /\ \/ row'[q] = row[q] /\ card'[q] = card[q]
           \/ row'[q] = "none" /\ card'[q] = "none"
    BY <1>6 DEF Deletes
  <2> QED BY <1>1, <2>1, MoreKept DEF RunMore, Decided, RunTerminal
<1>7. ASSUME NEW s \in Slots, NEW c \in Conversations, SendStarts(s, c) PROVE RunMore(q)'
  <2> DEFINE r == NewRun
  <2>1. /\ r \in Runs /\ home[r] = None /\ log' = [log EXCEPT ![r] = <<"started">>]
        /\ row' = [p \in Runs |-> IF p = r THEN "running"
                                  ELSE IF home[p] = c /\ card[p] = "pending" THEN "cancelled"
                                  ELSE row[p]]
        /\ card' = [p \in Runs |-> IF home[p] = c /\ card[p] = "pending" THEN "superseded"
                                   ELSE card[p]]
    BY <1>7, NewRunIsNew DEF SendStarts, NewRun
  <2> HIDE DEF r
  <2>2. CASE q = r
    <3>1. card[q] = "none" /\ home[q] # c
      BY <1>1, <2>1, <2>2, ConversationsOK DEF RunOK, TypeInv, ServerInv, ServerTypeOK
    <3>2. log'[q] = <<"started">> /\ row'[q] = "running" /\ card'[q] = "none"
      BY <1>1, <2>1, <2>2, <3>1
    <3> QED BY <3>2 DEF RunMore, Decided, RunTerminal
  <2>3. CASE q # r /\ home[q] = c /\ card[q] = "pending"
    <3>1. log'[q] = log[q] /\ row'[q] = "cancelled" /\ card'[q] = "superseded"
      BY <1>1, <2>1, <2>3
    <3> QED BY <1>1, <3>1 DEF RunMore, Decided, RunTerminal
  <2>4. CASE q # r /\ ~(home[q] = c /\ card[q] = "pending")
    BY <1>1, <2>1, <2>4, MoreKept
  <2> QED BY <2>2, <2>3, <2>4
<1> QED BY <1>2, <1>3, <1>4, <1>5, <1>6, <1>7, OnlyAtServer DEF AtServer

-----------------------------------------------------------------------------
(***************************************************************************)
(* A view of the beginning of one log.                                     *)
(***************************************************************************)
StatusOf(type) ==
  IF type = "started" THEN "running" ELSE IF type = "required" THEN "waiting" ELSE type

\* The view shows Run r with the first m events of its log.
Shows(v, r, m) ==
  /\ v.run = r /\ v.seen = EventsOf(r, 0, m) /\ m \in 0..Len(log[r])
  /\ \A q \in Runs \ {r} : v.card[q] = "none"

\* Its status is that of the last of them that has one.
InStep(v, r, m) ==
  \E k \in 1..m : /\ log[r][k] # "decided" /\ v.status = StatusOf(log[r][k])
                  /\ \A i \in (k + 1)..m : log[r][i] = "decided"

\* What comes after them ends the Run.
Owed(r, m) == row[r] = "running" \/ \E i \in (m + 1)..Len(log[r]) : log[r][i] \in RunTerminal

Settles(v, r, m) == InStep(v, r, m) \/ Owed(r, m)

\* The events of one log, one by one.
LEMMA EventsOfIs ==
  ASSUME NEW r \in Runs, NEW m \in Nat
  PROVE  /\ Local \notin EventsOf(r, 0, m)
         /\ \A i \in Nat : <<r, i>> \in EventsOf(r, 0, m) <=> 1 <= i /\ i <= m
         /\ EventsOf(r, 0, m) \cup {<<r, m + 1>>} = EventsOf(r, 0, m + 1)
         /\ \A e \in EventsOf(r, 0, m) : e[1] = r /\ e[2] \in 1..m /\ e = <<r, e[2]>>
<1>1. r # 0
  BY ConversationsOK DEF Runs
<1>2. 1..(m + 1) = (1..m) \cup {m + 1}
  OBVIOUS
<1>3. EventsOf(r, 0, m) = {<<r, i>> : i \in 1..m} /\ EventsOf(r, 0, m + 1) = {<<r, i>> : i \in 1..(m + 1)}
  BY DEF EventsOf
<1>4. EventsOf(r, 0, m) \cup {<<r, m + 1>>} = EventsOf(r, 0, m + 1)
  BY <1>2, <1>3
<1> QED BY <1>1, <1>3, <1>4 DEF Local

\* A view shows a Run up to one place.
LEMMA ShowsOnce ==
  ASSUME NEW v, NEW r \in Runs, NEW q \in Runs, NEW m, NEW n, ServerInv,
         Shows(v, r, m), Shows(v, q, n)
  PROVE  q = r /\ m = n
<1>1. q = r /\ v.seen = EventsOf(r, 0, m) /\ v.seen = EventsOf(r, 0, n) /\ m \in Nat /\ n \in Nat
  BY DEF Shows, ServerInv, ServerTypeOK
<1>2. \A i \in Nat : (1 <= i /\ i <= m) <=> (1 <= i /\ i <= n)
  <2>1. /\ \A i \in Nat : <<r, i>> \in EventsOf(r, 0, m) <=> 1 <= i /\ i <= m
        /\ \A i \in Nat : <<r, i>> \in EventsOf(r, 0, n) <=> 1 <= i /\ i <= n
    BY <1>1, EventsOfIs
  <2> QED BY <1>1, <2>1
<1>3. m <= n /\ n <= m
  BY <1>1, <1>2
<1> QED BY <1>1, <1>3

\* The cursor of a view that shows a Run up to there.
LEMMA CursorShows ==
  ASSUME ServerInv, NEW r \in Runs, NEW m, Shows(view, r, m)
  PROVE  Local \notin view.seen /\ Cursor = m
<1> DEFINE at == {e[2] : e \in view.seen}
<1>1. m \in Nat /\ view.seen = EventsOf(r, 0, m)
  BY DEF Shows, ServerInv, ServerTypeOK
<1>2. Local \notin view.seen
  BY <1>1, EventsOfIs
<1>3. at = 1..m
  <2>1. \A n \in 1..m : <<r, n>> \in view.seen /\ <<r, n>>[2] = n
    BY <1>1, EventsOfIs
  <2>2. \A e \in view.seen : e[2] \in 1..m
    BY <1>1, EventsOfIs
  <2> QED BY <2>1, <2>2
<1>4. Cursor = IF at = {} THEN 0 ELSE CHOOSE n \in at : \A k \in at : k <= n
  BY <1>2 DEF Cursor
<1> HIDE DEF at
<1>5. CASE m = 0
  <2>1. at = {}
    BY <1>3, <1>5
  <2> QED BY <1>2, <1>4, <1>5, <2>1
<1>6. CASE m # 0
  <2>1. m \in at /\ \A k \in at : k <= m
    BY <1>1, <1>3, <1>6
  <2>2. \A n \in at : (\A k \in at : k <= n) => n = m
    BY <1>1, <1>3, <1>6
  <2>3. (CHOOSE n \in at : \A k \in at : k <= n) = m
    BY <2>1, <2>2
  <2>4. Cursor = CHOOSE n \in at : \A k \in at : k <= n
    BY <1>4, <2>1
  <2> QED BY <1>2, <2>3, <2>4
<1> QED BY <1>2, <1>5, <1>6

\* The next event of its log.
LEMMA SeeNext ==
  ASSUME ServerInv, NEW v \in ViewTypes, NEW r \in Runs, NEW m, Shows(v, r, m), m < Len(log[r])
  PROVE  LET w == See(v, <<r, m + 1>>)
             type == log[r][m + 1]
         IN /\ w \in ViewTypes /\ Shows(w, r, m + 1)
            /\ type # "decided" => InStep(w, r, m + 1)
            /\ InStep(v, r, m) => InStep(w, r, m + 1)
            /\ type = "required" => w.card[r] = "pending"
            /\ type # "required" /\ w.card[r] = "pending" => v.card[r] = "pending"
<1> DEFINE e == <<r, m + 1>>
           w == See(v, <<r, m + 1>>)
           type == log[r][m + 1]
<1>1. /\ m \in Nat /\ DOMAIN log[r] = 1..Len(log[r]) /\ Len(log[r]) \in Nat /\ v.run = r
      /\ v.seen = EventsOf(r, 0, m) /\ \A q \in Runs \ {r} : v.card[q] = "none"
  BY DEF Shows, ServerInv, ServerTypeOK
<1>2. e \in Happened /\ e \notin v.seen /\ e[1] = r /\ e[2] = m + 1
  <2>1. m + 1 \in DOMAIN log[r]
    BY <1>1
  <2> QED BY <1>1, <2>1, EventsOfIs DEF Happened
<1>3. type \in LogTypes
  BY <1>2, EventIs
<1>4. /\ w \in ViewTypes /\ w.run = r /\ w.seen = v.seen \cup {e}
      /\ \A q \in Runs \ {r} : w.card[q] = v.card[q]
      /\ type = "decided" => w.status = v.status
      /\ type # "decided" => w.status = StatusOf(type)
      /\ type = "required" => w.card[r] = "pending"
      /\ type # "required" /\ w.card[r] = "pending" => v.card[r] = "pending"
  <2>1. w \in ViewTypes
    BY <1>2, SeeIs
  <2>2. CASE type = "started"
    BY <1>1, <1>2, <2>1, <2>2, SeeIs DEF StatusOf
  <2>3. CASE type = "required"
    BY <1>1, <1>2, <2>1, <2>3, SeeIs DEF StatusOf
  <2>4. CASE type = "decided"
    BY <1>1, <1>2, <2>1, <2>4, SeeIs
  <2>5. CASE type \in {"completed", "cancelled"}
    BY <1>1, <1>2, <2>1, <2>5, SeeIs DEF StatusOf
  <2> HIDE DEF w, type, e
  <2> QED BY <1>3, <2>2, <2>3, <2>4, <2>5 DEF LogTypes
<1> HIDE DEF w
<1>5. Shows(w, r, m + 1)
  <2>1. w.seen = EventsOf(r, 0, m + 1)
    <3>1. w.seen = EventsOf(r, 0, m) \cup {<<r, m + 1>>}
      BY <1>1, <1>4 DEF e
    <3>2. EventsOf(r, 0, m) \cup {<<r, m + 1>>} = EventsOf(r, 0, m + 1)
      BY <1>1, EventsOfIs
    <3> QED BY <3>1, <3>2
  <2>2. m + 1 \in 0..Len(log[r]) /\ \A q \in Runs \ {r} : w.card[q] = "none"
    BY <1>1, <1>4
  <2> QED BY <1>4, <2>1, <2>2 DEF Shows
<1>6. type # "decided" => InStep(w, r, m + 1)
  BY <1>1, <1>4 DEF InStep
<1>7. ASSUME InStep(v, r, m), type = "decided" PROVE InStep(w, r, m + 1)
  <2>1. PICK k \in 1..m : /\ log[r][k] # "decided" /\ v.status = StatusOf(log[r][k])
                          /\ \A i \in (k + 1)..m : log[r][i] = "decided"
    BY <1>7 DEF InStep
  <2>2. k \in 1..(m + 1) /\ w.status = StatusOf(log[r][k])
    BY <1>1, <1>4, <1>7, <2>1
  <2>3. \A i \in (k + 1)..(m + 1) : i \in (k + 1)..m \/ i = m + 1
    BY <1>1
  <2>4. \A i \in (k + 1)..(m + 1) : log[r][i] = "decided"
    BY <1>7, <2>1, <2>3
  <2> QED BY <2>1, <2>2, <2>4 DEF InStep
<1> QED BY <1>4, <1>5, <1>6, <1>7 DEF w

\* The first event of a Run that was not shown.
LEMMA SeeFirst ==
  ASSUME ServerInv, NEW v \in ViewTypes, NEW r \in Runs, v.run # r, <<r, 1>> \notin v.seen,
         log[r] # <<>>
  PROVE  LET w == See(v, <<r, 1>>)
         IN w \in ViewTypes /\ Shows(w, r, 1) /\ InStep(w, r, 1)
<1> DEFINE e == <<r, 1>>
           w == See(v, <<r, 1>>)
<1>1. DOMAIN log[r] = 1..Len(log[r]) /\ Len(log[r]) \in Nat /\ Len(log[r]) >= 1
  BY DEF ServerInv, ServerTypeOK
<1>2. 1 \in DOMAIN log[r] /\ log[r][1] = "started"
  BY <1>1 DEF ServerInv, RunOK
<1>3. e \in Happened /\ e[1] = r /\ e[2] = 1
  BY <1>2 DEF Happened
<1>4. /\ w \in ViewTypes /\ w.run = r /\ w.status = "running" /\ w.seen = {e}
      /\ w.card = EmptyView.card
  BY <1>2, <1>3, SeeIs
<1>5. {e} = EventsOf(r, 0, 1)
  BY DEF EventsOf
<1> HIDE DEF w
<1>6. Shows(w, r, 1)
  BY <1>1, <1>4, <1>5, EmptyIsView DEF Shows
<1>7. InStep(w, r, 1)
  BY <1>2, <1>4 DEF InStep, StatusOf
<1> QED BY <1>4, <1>6, <1>7 DEF w

\* The next events of its log, up to n.
LEMMA SeeAllNext ==
  ASSUME ServerInv, NEW v \in ViewTypes, NEW r \in Runs, NEW m \in Nat, Shows(v, r, m),
         NEW n \in Nat, m <= n, n <= Len(log[r])
  PROVE  LET w == SeeAll(v, r, m, n)
         IN /\ Shows(w, r, n)
            /\ InStep(v, r, m) => InStep(w, r, n)
            /\ \/ InStep(w, r, n)
               \/ /\ \A i \in (m + 1)..n : log[r][i] = "decided"
                  /\ w.card[r] = "pending" => v.card[r] = "pending"
<1> DEFINE After(w, k) ==
             /\ Shows(w, r, k)
             /\ InStep(v, r, m) => InStep(w, r, k)
             /\ \/ InStep(w, r, k)
                \/ /\ \A i \in (m + 1)..k : log[r][i] = "decided"
                   /\ w.card[r] = "pending" => v.card[r] = "pending"
           Q == [k \in m..n |-> {w \in ViewTypes : After(w, k)}]
<1>1. After(v, m)
  BY DEF Shows
<1>2. v \in Q[m]
  BY <1>1
<1>3. ASSUME NEW k \in m..(n - 1), NEW w \in ViewTypes, After(w, k)
      PROVE  See(w, <<r, k + 1>>) \in ViewTypes /\ After(See(w, <<r, k + 1>>), k + 1)
  <2> DEFINE x == See(w, <<r, k + 1>>)
             type == log[r][k + 1]
  <2>1. Len(log[r]) \in Nat /\ k \in Nat /\ k < Len(log[r])
    BY DEF ServerInv, ServerTypeOK
  <2>2. Shows(w, r, k)
    BY <1>3
  <2>3. /\ x \in ViewTypes /\ Shows(x, r, k + 1)
        /\ type # "decided" => InStep(x, r, k + 1)
        /\ InStep(w, r, k) => InStep(x, r, k + 1)
        /\ type # "required" /\ x.card[r] = "pending" => w.card[r] = "pending"
    BY <2>1, <2>2, SeeNext
  <2> HIDE DEF x
  <2>4. InStep(v, r, m) => InStep(x, r, k + 1)
    BY <1>3, <2>3
  <2>5. ASSUME ~InStep(x, r, k + 1)
        PROVE  /\ \A i \in (m + 1)..(k + 1) : log[r][i] = "decided"
               /\ x.card[r] = "pending" => v.card[r] = "pending"
    <3>1. type = "decided" /\ ~InStep(w, r, k)
      BY <2>3, <2>5
    <3>2. /\ \A i \in (m + 1)..k : log[r][i] = "decided"
          /\ w.card[r] = "pending" => v.card[r] = "pending"
      BY <1>3, <3>1
    <3>3. \A i \in (m + 1)..(k + 1) : i \in (m + 1)..k \/ i = k + 1
      BY <2>1
    <3> QED BY <2>3, <3>1, <3>2, <3>3
  <2>6. After(x, k + 1)
    BY <2>3, <2>4, <2>5
  <2> QED BY <2>3, <2>6 DEF x
<1>4. \A k \in m..(n - 1) : \A w \in Q[k] : See(w, <<r, k + 1>>) \in Q[k + 1]
  <2> SUFFICES ASSUME NEW k \in m..(n - 1), NEW w \in Q[k] PROVE See(w, <<r, k + 1>>) \in Q[k + 1]
    OBVIOUS
  <2>1. k \in m..n /\ k + 1 \in m..n
    OBVIOUS
  <2>2. Q[k] = {x \in ViewTypes : After(x, k)} /\ Q[k + 1] = {x \in ViewTypes : After(x, k + 1)}
    BY <2>1
  <2> HIDE DEF Q, After
  <2> QED BY <1>3, <2>2
<1>5. n \in m..n
  OBVIOUS
<1>6. Q[n] = {w \in ViewTypes : After(w, n)}
  BY <1>5
<1> HIDE DEF Q
<1>7. SeeAll(v, r, m, n) \in Q[n]
  BY <1>2, <1>4, SeeAllPasses
<1> QED BY <1>6, <1>7

\* The first events of a Run, over an empty view.
LEMMA ReplayShows ==
  ASSUME ServerInv, NEW r \in Runs, home[r] # None, NEW n \in Nat, 1 <= n, n <= Len(log[r])
  PROVE  Shows(SeeAll(EmptyView, r, 0, n), r, n)
<1> DEFINE Q == [k \in 0..n |-> IF k = 0 THEN {EmptyView} ELSE {w \in ViewTypes : Shows(w, r, k)}]
<1>1. EmptyView \in Q[0] /\ Q[n] = {w \in ViewTypes : Shows(w, r, n)}
  OBVIOUS
<1>2. \A k \in 0..(n - 1) : \A w \in Q[k] : See(w, <<r, k + 1>>) \in Q[k + 1]
  <2> SUFFICES ASSUME NEW k \in 0..(n - 1), NEW w \in Q[k] PROVE See(w, <<r, k + 1>>) \in Q[k + 1]
    OBVIOUS
  <2>1. /\ k \in 0..n /\ k + 1 \in 0..n /\ k + 1 # 0 /\ k \in Nat
        /\ Len(log[r]) \in Nat /\ k < Len(log[r])
    BY DEF ServerInv, ServerTypeOK
  <2>2. Q[k + 1] = {x \in ViewTypes : Shows(x, r, k + 1)}
    BY <2>1
  <2>3. CASE k = 0
    <3>1. w = EmptyView /\ EmptyView.run # r /\ <<r, 1>> \notin EmptyView.seen /\ log[r] # <<>>
      BY <2>3, EmptyIsView, ConversationsOK DEF Runs, NoRun, ServerInv, RunOK
    <3>2. See(w, <<r, 1>>) \in ViewTypes /\ Shows(See(w, <<r, 1>>), r, 1)
      BY <3>1, EmptyIsView, SeeFirst
    <3> QED BY <2>2, <2>3, <3>2
  <2>4. CASE k # 0
    <3>1. w \in ViewTypes /\ Shows(w, r, k)
      BY <2>1, <2>4
    <3> HIDE DEF Q
    <3> QED BY <2>1, <2>2, <3>1, SeeNext
  <2> QED BY <2>3, <2>4
<1> HIDE DEF Q
<1>3. SeeAll(EmptyView, r, 0, n) \in Q[n]
  BY <1>1, <1>2, SeeAllPasses
<1> QED BY <1>1, <1>3

\* Events of the Run that is shown leave a local event where it is.
LEMMA SeeAllLocal ==
  ASSUME ServerInv, NEW v \in ViewTypes, NEW r \in Runs, NEW from \in Nat, NEW upto \in Nat,
         upto <= Len(log[r]), Local \in v.seen, v.run = r
  PROVE  Local \in SeeAll(v, r, from, upto).seen /\ SeeAll(v, r, from, upto).run = r
<1> DEFINE V == {w \in ViewTypes : Local \in w.seen /\ w.run = r}
<1>1. v \in V
  OBVIOUS
<1>2. ASSUME NEW w \in V, NEW e \in EventsOf(r, from, upto) PROVE See(w, e) \in V
  <2> DEFINE x == See(w, e)
  <2>1. e \in Happened /\ e[1] = r /\ log[e[1]][e[2]] \in LogTypes
    <3>1. PICK i \in (from + 1)..upto : e = <<r, i>>
      BY DEF EventsOf
    <3>2. e \in Happened
      BY ListedHappened
    <3>3. e[1] = r
      BY <3>1
    <3> QED BY <3>2, <3>3, EventIs
  <2>2. x \in ViewTypes /\ x.run = r /\ w.seen \subseteq x.seen
    <3> DEFINE type == log[e[1]][e[2]]
    <3>1. CASE e \in w.seen
      BY <2>1, <3>1, SeeIs
    <3>2. CASE e \notin w.seen /\ type = "started"
      BY <2>1, <3>2, SeeIs
    <3>3. CASE e \notin w.seen /\ type = "required"
      BY <2>1, <3>3, SeeIs
    <3>4. CASE e \notin w.seen /\ type = "decided"
      BY <2>1, <3>4, SeeIs
    <3>5. CASE e \notin w.seen /\ type \in {"completed", "cancelled"}
      BY <2>1, <3>5, SeeIs
    <3> HIDE DEF x
    <3> QED BY <2>1, <3>1, <3>2, <3>3, <3>4, <3>5 DEF LogTypes
  <2> HIDE DEF x
  <2>3. x \in V
    BY <2>2
  <2> QED BY <2>3 DEF x
<1>3. SeeAll(v, r, from, upto) \in V
  <2> HIDE DEF V
  <2> QED BY <1>1, <1>2, SeeAllStays
<1> QED BY <1>3

-----------------------------------------------------------------------------
(***************************************************************************)
(* What a view shows when Runs go on.                                      *)
(***************************************************************************)
LEMMA ShowsGrows ==
  ASSUME ServerInv, Grows, ServerInv', NEW v, NEW r \in Runs, NEW m, Shows(v, r, m)
  PROVE  /\ Shows(v, r, m)' /\ m \in Nat /\ m <= Len(log[r])
         /\ InStep(v, r, m) => InStep(v, r, m)'
<1>1. /\ Len(log[r]) \in Nat /\ Len(log'[r]) \in Nat /\ Len(log[r]) <= Len(log'[r])
      /\ DOMAIN log[r] = 1..Len(log[r]) /\ \A i \in DOMAIN log[r] : log'[r][i] = log[r][i]
      /\ m \in 0..Len(log[r])
  BY DEF ServerInv, ServerTypeOK, Grows, Shows
<1>2. Shows(v, r, m)'
  BY <1>1 DEF Shows, EventsOf, Runs
<1>3. \A i \in 1..m : log'[r][i] = log[r][i]
  BY <1>1
<1>4. ASSUME InStep(v, r, m) PROVE InStep(v, r, m)'
  <2>1. PICK k \in 1..m : /\ log[r][k] # "decided" /\ v.status = StatusOf(log[r][k])
                          /\ \A i \in (k + 1)..m : log[r][i] = "decided"
    BY <1>4 DEF InStep
  <2>2. \A i \in (k + 1)..m : i \in 1..m
    BY <1>1
  <2> QED BY <1>3, <2>1, <2>2 DEF InStep, StatusOf
<1> QED BY <1>1, <1>2, <1>4

-----------------------------------------------------------------------------
(***************************************************************************)
(* What a user who waits for answers is told.                              *)
(***************************************************************************)
\* The view shows Run r up to m, and does not offer what is decided unless it
\* will see the end.
Holds(v, r, m) ==
  Shows(v, r, m) /\ (Decided(r) /\ v.card[r] = "pending" => Settles(v, r, m))

Nothing(v) == v.run = NoRun /\ v.seen = {} /\ \A r \in Runs : v.card[r] = "none"

\* Without a local event, the view is the beginning of one log, or nothing.
Whole(v) ==
  Local \notin v.seen => Nothing(v) \/ \E r \in Runs : \E m \in Nat : Holds(v, r, m)

\* A follow goes on where the view ends, or is beyond all; what is left of one may
\* come into the view of a Run that was cancelled.
Reaches(v, j) ==
  IF Local \notin v.seen THEN Shows(v, j.run, j.upto)
  ELSE j.upto = Far \/ (Late(j) /\ v.run = j.run)

\* It will end with the status of the Run.
WillSettle(v, j) ==
  /\ home[j.run] \in alive /\ Decided(j.run)
  /\ Local \notin v.seen => Settles(v, j.run, j.upto)

RestoreTells(j) ==
  j.run # NoRun => home[j.run] \in alive /\ (j.card \in {"pending", "none"} => ~Decided(j.run))

\* The log of the Run of a send, until that closes.
SendLog(r) ==
  \/ row[r] = "running" /\ card[r] = "none" /\ log[r] = <<"started">>
  \/ row[r] = "waiting" /\ card[r] = "pending" /\ log[r] = <<"started", "required">>
  \/ row[r] = "completed" /\ card[r] = "none" /\ log[r] = <<"started", "completed">>

SendTells(v, j) ==
  /\ home[j.run] \in alive /\ SendLog(j.run)
  /\ IF j.upto = 0 THEN v.run # j.run /\ \A e \in v.seen : e[1] # j.run
     ELSE /\ Local \notin v.seen /\ Shows(v, j.run, j.upto) /\ InStep(v, j.run, j.upto)
          /\ j.upto >= 2 /\ card[j.run] = "pending" => v.card[j.run] = "pending"

\* What a request will tell goes with what the view shows.
JobTells(v, j) ==
  /\ j.kind \in {"decide", "follow", "poll"} => Reaches(v, j)
  /\ j.kind = "decide" /\ j.at = "asked" => v.card[j.run] = "pending"
  /\ j.kind = "decide" /\ j.at = "answered" => WillSettle(v, j)
  /\ j.kind = "follow" /\ j.at # "late" => WillSettle(v, j)
  /\ j.kind = "restore" => RestoreTells(j)
  /\ j.kind = "send" /\ j.at = "open" => SendTells(v, j)
  /\ j.kind = "cancel" => j.run = v.run

Told == Whole(view) /\ \A s \in Slots : JobTells(view, job[s])

ToldInv == hasty = 0 => Told

\* What the page does leaves the database.
LEMMA ToldFrom ==
  ASSUME UNCHANGED <<home, row, log, card, alive>>, Whole(view'),
         \A t \in Slots : JobTells(view', job'[t])
  PROVE  Told'
<1>1. Whole(view)'
  BY DEF Whole, Nothing, Holds, Shows, Decided, Settles, InStep, Owed
<1>2. ASSUME NEW t \in Slots PROVE JobTells(view, job[t])'
  <2>1. JobTells(view', job'[t])
    OBVIOUS
  <2> QED BY <2>1 DEF JobTells, Reaches, WillSettle, RestoreTells, SendTells, SendLog, Shows,
                      Decided, Settles, InStep, Owed, Late
<1> QED BY <1>1, <1>2 DEF Told

\* Nothing is on its way but what tells nothing.
LEMMA NoneTells ==
  ASSUME NEW v, NEW j, j.kind \in {"none", "delete"} \/ (j.kind = "send" /\ j.at # "open")
  PROVE  JobTells(v, j)
BY DEF JobTells

LEMMA EmptyIsWhole ==
  ASSUME NEW v, v = EmptyView
  PROVE  Whole(v)
BY EmptyIsView DEF Whole, Nothing

\* The Run that a view without a local event shows.
LEMMA WholeIs ==
  ASSUME ServerInv, NEW v, Whole(v), Local \notin v.seen, NEW r \in Runs, NEW m, Shows(v, r, m)
  PROVE  Holds(v, r, m)
<1>1. v.run = r /\ r # NoRun
  BY ConversationsOK DEF Shows, Runs, NoRun
<1>2. PICK q \in Runs : \E n \in Nat : Holds(v, q, n)
  BY <1>1 DEF Whole, Nothing
<1>3. PICK n \in Nat : Holds(v, q, n)
  BY <1>2
<1>4. q = r /\ n = m
  BY <1>3, ShowsOnce DEF Holds
<1> QED BY <1>3, <1>4

-----------------------------------------------------------------------------
(***************************************************************************)
(* What the database does to it.                                           *)
(***************************************************************************)

\* How a Run whose decision is taken goes on.
LEMMA DecidedGoesOn ==
  ASSUME TypeInv, AtServer, NEW r \in Runs, Decided(r)'
  PROVE  \/ Decided(r) /\ row'[r] = row[r]
         \/ row'[r] = "running"
         \/ /\ Decided(r) /\ home' = home
            /\ \E type \in RunTerminal : log' = [log EXCEPT ![r] = Append(@, type)]
<1>1. row \in [Runs -> Rows] /\ card \in [Runs -> Cards] /\ ServerInv
  BY DEF TypeInv, ServerInv, ServerTypeOK
<1>2. ASSUME NEW q \in Runs, RunPauses(q)
      PROVE  Decided(r) /\ row'[r] = row[r]
  BY <1>1, <1>2 DEF RunPauses, Decided
<1>3. ASSUME NEW q \in Runs, RunResumes(q)
      PROVE  Decided(r) /\ row'[r] = row[r]
  BY <1>1, <1>3 DEF RunResumes, Decided
<1>4. ASSUME NEW q \in Runs, RunEnds(q)
      PROVE  /\ Decided(r)
             /\ \/ row'[r] = row[r]
                \/ home' = home /\ log' = [log EXCEPT ![r] = Append(@, "completed")]
  BY <1>1, <1>4 DEF RunEnds, Decided
<1>5. ASSUME NEW s \in Slots, Claims(s)
      PROVE  row'[r] = "running" \/ (Decided(r) /\ row'[r] = row[r])
  <2> DEFINE q == job[s].run
  <2>1. q \in Runs
    BY <1>5 DEF TypeInv, JobsInv, JobIs, Claims
  <2>2. IF card[q] = "pending"
        THEN card' = [card EXCEPT ![q] = "claimed"] /\ row' = [row EXCEPT ![q] = "running"]
        ELSE UNCHANGED <<card, row>>
    BY <1>5 DEF Claims
  <2> HIDE DEF q
  <2> QED BY <1>1, <2>1, <2>2 DEF Decided
<1>6. ASSUME NEW s \in Slots, Cancels(s)
      PROVE  /\ Decided(r)
             /\ \/ row'[r] = row[r]
                \/ home' = home /\ log' = [log EXCEPT ![r] = Append(@, "cancelled")]
  <2> DEFINE q == job[s].run
  <2>1. /\ q \in Runs /\ UNCHANGED <<home, card>>
        /\ IF row[q] \in RunTerminal THEN UNCHANGED <<row, log>>
           ELSE /\ row' = [row EXCEPT ![q] = "cancelled"]
                /\ log' = [log EXCEPT ![q] = Append(@, "cancelled")]
    BY <1>6 DEF Cancels
  <2> HIDE DEF q
  <2>2. CASE q = r
    BY <1>1, <2>1, <2>2 DEF Decided
  <2>3. CASE q # r
    BY <1>1, <2>1, <2>3 DEF Decided
  <2> QED BY <2>2, <2>3
<1>7. ASSUME NEW s \in Slots, Deletes(s)
      PROVE  Decided(r) /\ row'[r] = row[r]
  BY <1>7 DEF Deletes, Decided
<1>8. ASSUME NEW s \in Slots, NEW c \in Conversations, SendStarts(s, c)
      PROVE  Decided(r) /\ row'[r] = row[r]
  <2> DEFINE q == NewRun
  <2>1. /\ q \in Runs /\ home[q] = None
        /\ row' = [p \in Runs |-> IF p = q THEN "running"
                                  ELSE IF home[p] = c /\ card[p] = "pending" THEN "cancelled"
                                  ELSE row[p]]
        /\ card' = [p \in Runs |-> IF home[p] = c /\ card[p] = "pending" THEN "superseded"
                                   ELSE card[p]]
    BY <1>8, NewRunIsNew DEF SendStarts, NewRun
  <2> HIDE DEF q
  <2>2. card[q] = "none"
    BY <1>1, <2>1, ConversationsOK DEF RunOK, ServerInv, ServerTypeOK
  <2> QED BY <1>1, <2>1, <2>2 DEF Decided
<1> QED BY <1>2, <1>3, <1>4, <1>5, <1>6, <1>7, <1>8 DEF AtServer, RunTerminal

\* A Run that had to settle, or whose decision is taken now, still has to.
LEMMA SettlesGrows ==
  ASSUME TypeInv, AtServer, NEW v, NEW r \in Runs, NEW m, Shows(v, r, m),
         Decided(r)', Decided(r) => Settles(v, r, m)
  PROVE  Settles(v, r, m)'
<1>1. ServerInv /\ ServerInv' /\ Grows
  BY ServerKeepsTypes DEF TypeInv
<1>2. Shows(v, r, m)' /\ m \in Nat /\ m <= Len(log[r]) /\ (InStep(v, r, m) => InStep(v, r, m)')
  BY <1>1, ShowsGrows
<1>3. /\ Len(log[r]) \in Nat /\ Len(log'[r]) \in Nat /\ Len(log[r]) <= Len(log'[r])
      /\ \A i \in 1..Len(log[r]) : log'[r][i] = log[r][i]
  BY <1>1 DEF ServerInv, ServerTypeOK, Grows
<1>4. CASE row'[r] = "running" \/ InStep(v, r, m)
  BY <1>2, <1>4 DEF Settles, Owed
<1>5. CASE \E i \in (m + 1)..Len(log[r]) : log[r][i] \in RunTerminal
  <2>1. PICK i \in (m + 1)..Len(log[r]) : log[r][i] \in RunTerminal
    BY <1>5
  <2>2. i \in (m + 1)..Len(log'[r]) /\ log'[r][i] = log[r][i]
    BY <1>2, <1>3
  <2> QED BY <2>1, <2>2 DEF Settles, Owed
<1>6. CASE Decided(r) /\ row'[r] = row[r]
  BY <1>4, <1>5, <1>6 DEF Settles, Owed
<1>7. CASE home' = home /\ \E type \in RunTerminal : log' = [log EXCEPT ![r] = Append(@, type)]
  <2>1. PICK type \in RunTerminal : log' = [log EXCEPT ![r] = Append(@, type)]
    BY <1>7
  <2>2. type \in LogTypes
    BY DEF LogTypes, RunTerminal
  <2>3. /\ DOMAIN log'[r] = 1..(Len(log[r]) + 1) /\ log'[r][Len(log[r]) + 1] = type
    BY <1>1, <1>7, <2>1, <2>2, OneMore DEF ServerInv
  <2>4. Len(log'[r]) = Len(log[r]) + 1
    <3>1. log'[r] \in Seq(LogTypes)
      BY <1>1 DEF ServerInv, ServerTypeOK
    <3> QED BY <1>3, <2>3, <3>1
  <2>5. Len(log[r]) + 1 \in (m + 1)..Len(log'[r])
    BY <1>2, <1>3, <2>4
  <2> QED BY <2>3, <2>5 DEF Settles, Owed
<1> QED BY <1>4, <1>6, <1>7, DecidedGoesOn

\* The view stays whole.
LEMMA WholeGrows ==
  ASSUME TypeInv, AtServer, Whole(view), view' = view
  PROVE  Whole(view)'
<1>1. ServerInv /\ ServerInv' /\ Grows
  BY ServerKeepsTypes DEF TypeInv
<1> SUFFICES ASSUME Local \notin view.seen, ~Nothing(view)
             PROVE  \E r \in Runs : \E m \in Nat : Holds(view, r, m)'
  BY DEF Whole, Nothing, Runs
<1>2. PICK r \in Runs, m \in Nat : Holds(view, r, m)
  BY DEF Whole
<1> PICK v : v = view
  OBVIOUS
<1>3. Shows(v, r, m)'
  BY <1>1, <1>2, ShowsGrows DEF Holds
<1>4. ASSUME Decided(r)', v.card[r] = "pending" PROVE Settles(v, r, m)'
  BY <1>2, <1>4, SettlesGrows DEF Holds
<1>5. Holds(view, r, m)'
  BY <1>3, <1>4 DEF Holds, Shows, Settles, InStep
<1> QED BY <1>5

-----------------------------------------------------------------------------
(***************************************************************************)
(* What the user does.                                                     *)
(***************************************************************************)

\* What is left of a follow goes on where it was.
LEMMA RemainsTells ==
  ASSUME NEW v, NEW j, NEW k, JobTells(v, j), Remains(j, k), j.kind \in {"follow", "none"}
  PROVE  JobTells(v, k)
<1>1. CASE k = j \/ k = Idle
  BY <1>1, IdleIs, NoneTells
<1>2. CASE /\ j.kind = "follow" /\ k.run = j.run /\ k.upto = j.upto /\ k.at = "late"
           /\ k.kind \in {"follow", "poll"}
  <2>1. Reaches(v, j) /\ Late(k)
    BY <1>2 DEF JobTells, Late
  <2>2. Reaches(v, k)
    BY <1>2, <2>1 DEF Reaches
  <2> QED BY <1>2, <2>2 DEF JobTells
<1> QED BY <1>1, <1>2 DEF Remains

LEMMA UserKeepsTold ==
  ASSUME TypeInv, OneInv, ToldInv, UserActs, hasty' = 0
  PROVE  Told'
<1>1. /\ PageInv /\ RefOK /\ JobsOK /\ ServerInv /\ hasty \in Nat /\ view \in Views
      /\ UNCHANGED <<home, row, log, card, alive>>
  BY DEF TypeInv, PageInv, FieldsOK, UserActs, Select, New, Send, Decide, Stop, Delete, Reload,
         server
<1>2. CASE Reload
  <2>1. PICK first \in Slots :
          job' = [s \in Slots |-> IF url # None /\ s = first THEN Restoring(url) ELSE Idle]
    BY <1>2 DEF Reload
  <2>2. \A t \in Slots : job'[t] = Idle \/ IsRestoring(job'[t], url)
    BY <2>1, IdleIs
  <2>3. \A t \in Slots : JobTells(view', job'[t])
    BY <2>2, IdleIs, NoneTells DEF IsRestoring, JobTells, RestoreTells
  <2>4. Whole(view')
    BY <1>2, EmptyIsWhole DEF Reload
  <2> QED BY <1>1, <2>3, <2>4, ToldFrom
<1>3. ASSUME view' = view, hasty = 0, NEW s \in Slots, Others(s), JobTells(view, job'[s])
      PROVE  Told'
  <2>1. \A t \in Slots : JobTells(view', job'[t])
    BY <1>3 DEF Others, ToldInv, Told
  <2> QED BY <1>1, <1>3, <2>1, ToldFrom DEF ToldInv, Told
<1>4. CASE \E c \in Conversations : Select(c)
  <2>1. PICK c \in Conversations : Select(c)
    BY <1>4
  <2>2. PICK s \in Slots : Others(s) /\ IsRestoring(job'[s], c)
    BY <1>1, <2>1, SelectDoes
  <2>3. JobTells(view, job'[s])
    BY <2>2 DEF IsRestoring, JobTells, RestoreTells
  <2>4. hasty = 0 /\ view' = view
    BY <1>1, <2>1, HasteIs DEF Select
  <2> QED BY <1>3, <2>2, <2>3, <2>4
<1>5. CASE \E late \in BOOLEAN : New(late)
  <2>1. PICK late \in BOOLEAN : New(late)
    BY <1>5
  <2>2. hasty = 0 /\ \A t \in Slots : job[t].kind \in {"send", "none"}
    BY <1>1, <2>1, HasteIs DEF New
  <2>3. job' = Cut(job, late) /\ view' = EmptyView
    BY <2>1 DEF New, Fresh
  <2>4. \A t \in Slots : job'[t].kind = "none"
    <3> SUFFICES ASSUME NEW t \in Slots PROVE job'[t].kind = "none"
      OBVIOUS
    <3>1. CASE t = ref
      <4>1. job[ref].kind = "send"
        BY <1>1, <2>2, <3>1, NoRefOK DEF RefOK
      <4> QED BY <1>1, <2>3, <3>1, <4>1, CutDoes, IdleIs, NoRefOK DEF JobsOK
    <3>2. CASE t # ref
      <4>1. job'[t] = job[t]
        BY <1>1, <2>3, <3>2, CutDoes DEF JobsOK
      <4> QED BY <2>2, <3>2, <4>1 DEF OneInv, Alone, Held
    <3> QED BY <3>1, <3>2
  <2>5. \A t \in Slots : JobTells(view', job'[t])
    BY <2>4, NoneTells
  <2> QED BY <1>1, <2>3, <2>5, EmptyIsWhole, ToldFrom
<1>6. CASE Send
  <2>1. PICK s \in Slots : Others(s) /\ job'[s].kind = "send" /\ job'[s].at = "posted"
    BY <1>1, <1>6, SendDoes
  <2>2. JobTells(view, job'[s])
    BY <2>1, NoneTells
  <2>3. hasty = 0 /\ view' = view
    BY <1>1, <1>6, HasteIs DEF Send
  <2> QED BY <1>3, <2>1, <2>2, <2>3
<1>7. CASE \E r \in Runs : Decide(r)
  <2>1. PICK r \in Runs : Decide(r)
    BY <1>7
  <2>2. PICK s \in Slots : /\ Others(s) /\ job'[s].kind = "decide" /\ job'[s].at = "asked"
                           /\ job'[s].run = r /\ job'[s].upto = Cursor
    BY <1>1, <2>1, DecideDoes
  <2>3. hasty = 0 /\ view' = view /\ view.card[r] = "pending"
    BY <1>1, <2>1, HasteIs DEF Decide, page
  <2>4. Reaches(view, job'[s])
    <3>1. CASE Local \in view.seen
      BY <2>2, <3>1 DEF Reaches, Cursor
    <3>2. CASE Local \notin view.seen
      <4>1. PICK q \in Runs, m \in Nat : Holds(view, q, m)
        BY <2>3, <3>2 DEF ToldInv, Told, Whole, Nothing
      <4>2. q = r
        BY <2>3, <4>1 DEF Holds, Shows
      <4>3. Cursor = m
        BY <1>1, <4>1, CursorShows DEF Holds
      <4> QED BY <2>2, <3>2, <4>1, <4>2, <4>3 DEF Reaches, Holds
    <3> QED BY <3>1, <3>2
  <2>5. JobTells(view, job'[s])
    BY <2>2, <2>3, <2>4 DEF JobTells
  <2> QED BY <1>3, <2>2, <2>3, <2>5
<1>8. CASE \E c \in Conversations : Delete(c)
  <2>1. PICK c \in Conversations : Delete(c)
    BY <1>8
  <2>2. PICK s \in Slots : Others(s) /\ job'[s].kind = "delete"
    BY <1>1, <2>1, DeleteDoes
  <2>3. hasty = 0 /\ view' = view
    BY <1>1, <2>1, HasteIs DEF Delete, page
  <2> QED BY <1>3, <2>2, <2>3, NoneTells
<1>9. CASE \E late \in BOOLEAN : Stop(late)
  <2>1. PICK late \in BOOLEAN : Stop(late)
    BY <1>9
  <2>2. hasty = 0 /\ \A t \in Slots : job[t].kind \in {"send", "follow", "none"}
    BY <1>1, <2>1, HasteIs DEF Stop
  <2>3. view' = view /\ Alone /\ Told
    BY <2>1, <2>2 DEF Stop, OneInv, ToldInv
  <2>4. ASSUME NEW t \in Slots PROVE JobTells(view', Cut(job, late)[t])
    <3>1. JobTells(view', job[t]) /\ Remains(job[t], Cut(job, late)[t])
      BY <1>1, <2>3, CutDoes DEF Told, JobsOK
    <3>2. CASE job[t].kind = "send"
      <4>1. t = ref
        BY <2>3, <3>2 DEF Alone, Held
      <4>2. Cut(job, late)[t] = Idle
        BY <1>1, <3>2, <4>1, CutDoes, NoRefOK DEF JobsOK
      <4> QED BY <4>2, IdleIs, NoneTells
    <3>3. CASE job[t].kind # "send"
      BY <2>2, <3>1, <3>3, RemainsTells
    <3> QED BY <3>2, <3>3
  <2>5. \A t \in Slots : JobTells(view', job'[t])
    <3>1. CASE job' = Cut(job, late)
      BY <2>4, <3>1
    <3>2. CASE \E s \in Slots : /\ \A u \in Slots \ {s} : job'[u] = Cut(job, late)[u]
                                /\ job'[s].kind = "cancel" /\ job'[s].run = view.run
      <4>1. PICK s \in Slots : /\ \A u \in Slots \ {s} : job'[u] = Cut(job, late)[u]
                               /\ job'[s].kind = "cancel" /\ job'[s].run = view.run
        BY <3>2
      <4>2. JobTells(view', job'[s])
        BY <2>3, <4>1 DEF JobTells
      <4> QED BY <2>4, <4>1, <4>2
    <3> QED BY <1>1, <2>1, <3>1, <3>2, StopDoes
  <2> QED BY <1>1, <2>3, <2>5, ToldFrom DEF Told
<1> QED BY <1>2, <1>4, <1>5, <1>6, <1>7, <1>8, <1>9 DEF UserActs

-----------------------------------------------------------------------------
(***************************************************************************)
(* What is answered.                                                       *)
(***************************************************************************)

\* What is answered of a restore: nothing else is on its way.
LEMMA RestoreKeepsTold ==
  ASSUME TypeInv, Alone, Told, NEW s \in Slots,
         \/ RestoreLists(s) \/ RestoreReadsCard(s) \/ RestoreApplies(s) \/ RestoreFails(s)
         \/ \E fails \in BOOLEAN : RestoreReadsEvents(s, fails)
  PROVE  Told'
<1> DEFINE j == job[s]
<1>1. PageInv /\ ServerInv /\ JobIs(j)
  BY DEF TypeInv, JobsInv
<1>2. j.kind = "restore" /\ UNCHANGED <<home, row, log, card, alive>>
  BY DEF RestoreLists, RestoreReadsCard, RestoreApplies, RestoreFails, RestoreReadsEvents, server
<1>3. /\ \A t \in Slots \ {s} : job[t].kind = "none"
      /\ RestoreTells(j) /\ RestoreOK(j)
  BY <1>1, <1>2, AloneIs DEF Free, Told, JobTells, JobIs, Late
<1>4. Others(s) /\ job'[s].kind \in {"none", "restore"}
  BY <1>1, ListsDoes, ReadsCardDoes, ReadsEventsDoes, EndsDoes, IdleIs
     DEF RestoreApplies, RestoreFails
<1>5. ASSUME Whole(view'), job'[s].kind = "restore" => RestoreTells(job'[s]) PROVE Told'
  <2>1. \A t \in Slots \ {s} : JobTells(view', job'[t])
    BY <1>3, <1>4, NoneTells DEF Others
  <2>2. JobTells(view', job'[s])
    BY <1>4, <1>5, NoneTells DEF JobTells
  <2>3. \A t \in Slots : JobTells(view', job'[t])
    BY <2>1, <2>2
  <2> QED BY <1>2, <1>5, <2>3, ToldFrom
<1>6. Whole(view)
  BY DEF Told
<1>7. CASE RestoreLists(s)
  <2>1. /\ j.at = "asked" /\ j.conv \in alive /\ job'[s].card = j.card
        /\ job'[s].run = LatestRun(j.conv) /\ view' = view
    BY <1>1, <1>7, ListsDoes DEF RestoreLists, page
  <2>2. job'[s].card = "unread"
    BY <1>3, <2>1 DEF RestoreOK
  <2>3. job'[s].run # NoRun => home[job'[s].run] \in alive
    BY <2>1, LatestIsOne
  <2>4. RestoreTells(job'[s])
    BY <2>2, <2>3 DEF RestoreTells
  <2> QED BY <1>5, <1>6, <2>1, <2>4
<1>8. CASE \E fails \in BOOLEAN : RestoreReadsEvents(s, fails)
  <2>1. PICK fails \in BOOLEAN : RestoreReadsEvents(s, fails)
    BY <1>8
  <2>2. job'[s].card = j.card /\ job'[s].run = j.run /\ view' = view
    BY <1>1, <2>1, ReadsEventsDoes DEF RestoreReadsEvents, page
  <2>3. RestoreTells(job'[s])
    BY <1>3, <2>2 DEF RestoreTells
  <2> QED BY <1>5, <1>6, <2>2, <2>3
<1>9. CASE RestoreReadsCard(s)
  <2>1. /\ job'[s].card = card[j.run] /\ job'[s].run = j.run
        /\ home[j.run] \in alive /\ view' = view
    BY <1>1, <1>9, ReadsCardDoes DEF RestoreReadsCard, page
  <2>2. RestoreTells(job'[s])
    BY <2>1 DEF RestoreTells, Decided
  <2> QED BY <1>5, <1>6, <2>1, <2>2
<1>10. CASE RestoreFails(s)
  <2>1. job'[s] = Idle /\ view' = view
    BY <1>1, <1>10, EndsDoes DEF RestoreFails
  <2> QED BY <1>5, <1>6, <2>1, IdleIs
<1>11. CASE RestoreApplies(s)
  <2>1. job'[s].kind = "none"
    BY <1>1, <1>11, EndsDoes, IdleIs DEF RestoreApplies
  <2>2. /\ view' = Restored(j.run, j.row, j.card, j.upto) /\ j.at = "listed"
        /\ j.run # NoRun => j.upto # Far /\ j.card # "unread"
    BY <1>11 DEF RestoreApplies
  <2>3. CASE j.run = NoRun
    <3>1. view' = EmptyView
      BY <2>2, <2>3 DEF Restored
    <3> QED BY <1>5, <2>1, <3>1, EmptyIsWhole
  <2>4. CASE j.run # NoRun
    <3>1. PICK r \in Runs : r = j.run
      BY <1>3, <2>4 DEF RestoreOK
    <3>2. PICK n \in Nat : n = j.upto
      BY <1>3 DEF RestoreOK
    <3>3. /\ n <= Len(log[r]) /\ home[r] # None /\ j.row \in Rows /\ j.card \in Cards
          /\ j.card \in {"pending", "none"} => ~Decided(r)
      BY <1>3, <2>2, <2>4, <3>1, <3>2, ConversationsOK DEF RestoreOK, RestoreTells
    <3> DEFINE all == SeeAll(EmptyView, r, 0, n)
               w == Restored(r, j.row, j.card, n)
    <3>4. /\ w.run = r /\ w.seen = all.seen /\ \A q \in Runs \ {r} : w.card[q] = all.card[q]
          /\ w.card[r] = CASE j.card = "none" -> all.card[r]
                           [] j.card = "pending" -> "pending"
                           [] OTHER -> "decided"
      BY <1>1, <3>3, RestoredIs
    <3>5. /\ all.seen = EventsOf(r, 0, n) /\ \A q \in Runs \ {r} : all.card[q] = "none"
      <4>1. CASE n = 0
        <5>1. all = EmptyView
          BY <4>1, SeeNone
        <5>2. EventsOf(r, 0, n) = {}
          BY <4>1 DEF EventsOf
        <5> QED BY <5>1, <5>2, EmptyIsView
      <4>2. CASE n # 0
        BY <1>1, <3>3, <4>2, ReplayShows DEF Shows
      <4> QED BY <4>1, <4>2
    <3> HIDE DEF all
    <3>6. w = view'
      BY <2>2, <3>1, <3>2
    <3> HIDE DEF w
    <3>7. Shows(w, r, n)
      <4>1. Len(log[r]) \in Nat
        BY <1>1 DEF ServerInv, ServerTypeOK
      <4> QED BY <3>3, <3>4, <3>5, <4>1 DEF Shows
    <3>8. Decided(r) => w.card[r] = "decided"
      BY <3>3, <3>4
    <3>9. Whole(w)
      BY <3>7, <3>8 DEF Whole, Holds
    <3> QED BY <1>5, <2>1, <3>6, <3>9
  <2> QED BY <2>3, <2>4
<1> QED BY <1>7, <1>8, <1>9, <1>10, <1>11

\* What a send is sent, exactly.
LEMMA SentIs ==
  ASSUME NEW j, j.kind = "send", SendLog(j.run)
  PROVE  /\ Sendable(j) = Len(log[j.run])
         /\ row[j.run] = "running" => Len(log[j.run]) = 1
         /\ row[j.run] # "running" => /\ Len(log[j.run]) = 2 /\ row[j.run] = StatusOf(log[j.run][2])
                                      /\ log[j.run][2] # "decided"
<1> DEFINE r == j.run
           own == {i \in DOMAIN log[r] : log[r][i] \in {"started", "required"}}
<1>1. Sendable(j) = Cardinality(own) + IF card[r] = "none" /\ row[r] = "completed" THEN 1 ELSE 0
  BY DEF Sendable
<1>2. Cardinality({1}) = 1 /\ Cardinality({1, 2}) = 2
  <2>1. Cardinality({1}) = 1 /\ IsFiniteSet({1})
    BY FS_Singleton
  <2>2. {1, 2} = {1} \cup {2} /\ 2 \notin {1}
    OBVIOUS
  <2> QED BY <2>1, <2>2, FS_AddElement
<1>3. CASE row[r] = "running" /\ card[r] = "none" /\ log[r] = <<"started">>
  <2>1. own = {1} /\ Len(log[r]) = 1
    BY <1>3
  <2> HIDE DEF own, r
  <2> QED BY <1>1, <1>2, <1>3, <2>1 DEF r
<1>4. CASE row[r] = "waiting" /\ card[r] = "pending" /\ log[r] = <<"started", "required">>
  <2>1. own = {1, 2} /\ Len(log[r]) = 2 /\ log[r][2] = "required"
    BY <1>4
  <2> HIDE DEF own, r
  <2> QED BY <1>1, <1>2, <1>4, <2>1 DEF r, StatusOf
<1>5. CASE row[r] = "completed" /\ card[r] = "none" /\ log[r] = <<"started", "completed">>
  <2>1. own = {1} /\ Len(log[r]) = 2 /\ log[r][2] = "completed"
    BY <1>5
  <2> HIDE DEF own, r
  <2> QED BY <1>1, <1>2, <1>5, <2>1 DEF r, StatusOf
<1> QED BY <1>3, <1>4, <1>5 DEF SendLog

\* The events that are next leave what had to settle to settle.
LEMMA SettlesOn ==
  ASSUME ServerInv, NEW v \in ViewTypes, NEW r \in Runs, NEW m \in Nat, Shows(v, r, m),
         NEW n \in Nat, m <= n, n <= Len(log[r]), Settles(v, r, m)
  PROVE  Settles(SeeAll(v, r, m, n), r, n)
<1> DEFINE w == SeeAll(v, r, m, n)
<1>1. /\ InStep(v, r, m) => InStep(w, r, n)
      /\ InStep(w, r, n) \/ \A i \in (m + 1)..n : log[r][i] = "decided"
  BY SeeAllNext
<1> HIDE DEF w
<1>2. Len(log[r]) \in Nat
  BY DEF ServerInv, ServerTypeOK
<1>3. ASSUME NEW i \in (m + 1)..Len(log[r]), log[r][i] \in RunTerminal
      PROVE  Settles(w, r, n)
  <2>1. CASE i <= n
    <3>1. i \in (m + 1)..n /\ log[r][i] # "decided"
      BY <1>3, <2>1 DEF RunTerminal
    <3> QED BY <1>1, <3>1 DEF Settles
  <2>2. CASE i > n
    BY <1>2, <1>3, <2>2 DEF Settles, Owed
  <2> QED BY <2>1, <2>2
<1> QED BY <1>1, <1>3 DEF Settles, Owed, w

LEMMA HoldsOn ==
  ASSUME ServerInv, NEW v \in ViewTypes, NEW r \in Runs, NEW m \in Nat, Holds(v, r, m),
         NEW n \in Nat, m <= n, n <= Len(log[r])
  PROVE  Holds(SeeAll(v, r, m, n), r, n)
<1> DEFINE w == SeeAll(v, r, m, n)
<1>1. Shows(v, r, m)
  BY DEF Holds
<1>2. /\ Shows(w, r, n)
      /\ InStep(w, r, n) \/ (w.card[r] = "pending" => v.card[r] = "pending")
  BY <1>1, SeeAllNext
<1>3. Settles(v, r, m) => Settles(w, r, n)
  BY <1>1, SettlesOn
<1> HIDE DEF w
<1> QED BY <1>2, <1>3 DEF Holds, Settles, w

\* One event, as a list of one.
LEMMA OneIsAll ==
  ASSUME ServerInv, NEW v \in ViewTypes, NEW r \in Runs, NEW m \in Nat, Shows(v, r, m), m < Len(log[r])
  PROVE  SeeAll(v, r, m, m + 1) = See(v, <<r, m + 1>>)
<1> DEFINE Q == [k \in m..(m + 1) |-> IF k = m THEN {v} ELSE {See(v, <<r, m + 1>>)}]
<1>1. v \in Q[m] /\ Q[m + 1] = {See(v, <<r, m + 1>>)}
  OBVIOUS
<1>2. \A k \in m..((m + 1) - 1) : \A w \in Q[k] : See(w, <<r, k + 1>>) \in Q[k + 1]
  <2> SUFFICES ASSUME NEW k \in m..((m + 1) - 1), NEW w \in Q[k]
               PROVE  See(w, <<r, k + 1>>) \in Q[k + 1]
    OBVIOUS
  <2>1. k = m
    OBVIOUS
  <2>2. w = v
    BY <2>1
  <2> QED BY <1>1, <2>1, <2>2
<1> HIDE DEF Q
<1>3. m + 1 \in Nat /\ m <= m + 1
  OBVIOUS
<1>4. SeeAll(v, r, m, m + 1) \in Q[m + 1]
  BY <1>2, <1>1, <1>3, SeeAllPasses
<1> QED BY <1>1, <1>4

\* A stream is delivered an event, or ends: nothing else is on its way.
LEMMA DeliverKeepsTold ==
  ASSUME TypeInv, LogsEnd, Alone, Told, NEW s \in Slots, Deliver(s)
  PROVE  Told'
<1> DEFINE j == job[s]
           k == job'[s]
<1>1. PageInv /\ ServerInv /\ JobIs(j) /\ view \in ViewTypes
  BY DEF TypeInv, JobsInv, Views
<1>2. /\ UNCHANGED <<home, row, log, card, alive>> /\ j.kind \in {"send", "follow"} /\ j.at = "open"
      /\ home[j.run] \in alive /\ j.upto < Sendable(j) /\ view' = See(view, <<j.run, j.upto + 1>>)
  BY DEF Deliver, Streams, server
<1>3. \A t \in Slots \ {s} : job[t].kind = "none"
  BY <1>2, AloneIs DEF Free, Late
<1>4. /\ Others(s) /\ k.kind = j.kind /\ k.at = "open" /\ k.run = j.run /\ k.upto = j.upto + 1
  BY <1>1, <1>2, DeliverDoes DEF Fields
<1>5. PICK r \in Runs : r = j.run
  BY <1>1, <1>2 DEF JobIs, SendOK
<1>6. PICK m \in Nat : m = j.upto
  BY <1>1, <1>2 DEF JobIs, SendOK
<1>7. ASSUME Whole(view'), JobTells(view', k) PROVE Told'
  <2>1. \A t \in Slots \ {s} : JobTells(view', job'[t])
    BY <1>3, <1>4, NoneTells DEF Others
  <2> QED BY <1>2, <1>7, <2>1, ToldFrom
<1>8. JobTells(view, j) /\ Len(log[r]) \in Nat /\ RunMore(r)
  BY <1>1 DEF Told, ServerInv, ServerTypeOK, LogsEnd
<1>9. CASE j.kind = "send"
  <2>1. SendTells(view, j) /\ SendLog(r)
    BY <1>2, <1>5, <1>8, <1>9 DEF JobTells, SendTells
  <2>2. m < Len(log[r]) /\ ~Decided(r)
    BY <1>2, <1>5, <1>6, <1>9, <2>1, SentIs DEF SendLog, Decided
  <2> PICK w : w = view'
    OBVIOUS
  <2>3. /\ Shows(w, r, m + 1) /\ InStep(w, r, m + 1)
        /\ m + 1 >= 2 /\ card[r] = "pending" => w.card[r] = "pending"
    <3>1. CASE m = 0
      <4>1. view.run # r /\ <<r, 1>> \notin view.seen /\ log[r] # <<>>
        BY <1>5, <1>6, <2>1, <2>2, <3>1 DEF SendTells
      <4> QED BY <1>1, <1>2, <1>5, <1>6, <3>1, <4>1, SeeFirst
    <3>2. CASE m # 0
      <4>1. Shows(view, r, m) /\ InStep(view, r, m)
        BY <1>5, <1>6, <2>1, <3>2 DEF SendTells
      <4>2. /\ Shows(w, r, m + 1) /\ InStep(w, r, m + 1)
            /\ log[r][m + 1] = "required" => w.card[r] = "pending"
        <5>1. w = See(view, <<r, m + 1>>)
          BY <1>2, <1>5, <1>6
        <5>2. ServerInv /\ view \in ViewTypes
          BY <1>1
        <5>3. Shows(view, r, m) /\ m < Len(log[r]) /\ InStep(view, r, m)
          BY <2>2, <4>1
        <5>4. Shows(See(view, <<r, m + 1>>), r, m + 1)
          BY <5>2, <5>3, SeeNext
        <5>5. InStep(See(view, <<r, m + 1>>), r, m + 1)
          BY <5>2, <5>3, SeeNext
        <5>6. log[r][m + 1] = "required" => See(view, <<r, m + 1>>).card[r] = "pending"
          BY <5>2, <5>3, SeeNext
        <5> QED BY <5>1, <5>4, <5>5, <5>6
      <4>3. card[r] = "pending" => log[r] = <<"started", "required">>
        BY <2>1 DEF SendLog
      <4>4. card[r] = "pending" => m + 1 = 2 /\ log[r][2] = "required"
        <5> SUFFICES ASSUME card[r] = "pending" PROVE m + 1 = 2 /\ log[r][2] = "required"
          OBVIOUS
        <5>1. Len(log[r]) = 2 /\ log[r][2] = "required"
          BY <4>3
        <5> QED BY <2>2, <3>2, <5>1
      <4> QED BY <4>2, <4>4
    <3> QED BY <3>1, <3>2
  <2>4. Local \notin w.seen
    <3>1. w.seen = EventsOf(r, 0, m + 1) /\ m + 1 \in Nat
      BY <2>3 DEF Shows
    <3> QED BY <3>1, EventsOfIs
  <2>5. Whole(w)
    <3>1. Holds(w, r, m + 1) /\ m + 1 \in Nat
      BY <2>2, <2>3 DEF Holds
    <3> QED BY <3>1 DEF Whole
  <2>6. SendTells(w, k)
    BY <1>2, <1>4, <1>5, <1>6, <2>1, <2>3, <2>4 DEF SendTells
  <2>7. JobTells(w, k)
    BY <1>4, <1>9, <2>6 DEF JobTells
  <2> QED BY <1>7, <2>5, <2>7
<1>10. CASE j.kind = "follow"
  <2>1. Reaches(view, j) /\ WillSettle(view, j) /\ ~Late(j)
    BY <1>2, <1>8, <1>10 DEF JobTells, Late
  <2>2. m < Len(log[r])
    BY <1>2, <1>5, <1>6, <1>10 DEF Sendable
  <2>3. Local \notin view.seen /\ Shows(view, r, m)
    <3>1. m # Far
      BY <1>8, <2>2 DEF RunMore, Far
    <3> QED BY <1>5, <1>6, <2>1, <3>1 DEF Reaches
  <2> PICK w : w = view'
    OBVIOUS
  <2>4. w = SeeAll(view, r, m, m + 1) /\ m + 1 \in Nat /\ m <= m + 1 /\ m + 1 <= Len(log[r])
    BY <1>1, <1>2, <1>5, <1>6, <1>8, <2>2, <2>3, OneIsAll
  <2>5. Holds(w, r, m + 1) /\ Shows(w, r, m + 1)
    <3>1. Holds(view, r, m)
      BY <1>1, <2>3, WholeIs DEF Told
    <3>2. Holds(w, r, m + 1)
      BY <1>1, <2>4, <3>1, HoldsOn
    <3> QED BY <3>2 DEF Holds
  <2>6. Settles(w, r, m + 1)
    <3>1. Settles(view, r, m)
      BY <1>5, <1>6, <2>1, <2>3 DEF WillSettle
    <3> QED BY <1>1, <2>3, <2>4, <3>1, SettlesOn
  <2>7. Local \notin w.seen
    <3>1. w.seen = EventsOf(r, 0, m + 1)
      BY <2>5 DEF Shows
    <3> QED BY <2>4, <3>1, EventsOfIs
  <2>8. Whole(w)
    BY <2>4, <2>5 DEF Whole
  <2>9. Reaches(w, k) /\ WillSettle(w, k)
    BY <1>4, <1>5, <1>6, <2>1, <2>5, <2>6, <2>7 DEF Reaches, WillSettle
  <2>10. JobTells(w, k)
    BY <1>4, <1>10, <2>9 DEF JobTells
  <2> QED BY <1>7, <2>8, <2>10
<1> QED BY <1>2, <1>9, <1>10

\* A stream ends, or breaks.
LEMMA EndKeepsTold ==
  ASSUME TypeInv, Alone, Told, NEW s \in Slots, End(s) \/ Break(s)
  PROVE  Told'
<1> DEFINE j == job[s]
<1>1. PageInv /\ ServerInv /\ JobIs(j) /\ view \in ViewTypes
  BY DEF TypeInv, JobsInv, Views
<1>2. /\ UNCHANGED <<home, row, log, card, alive>> /\ j.kind \in {"send", "follow"}
      /\ Others(s) /\ job'[s] = Idle
  BY <1>1, EndsDoes DEF End, Break, Streams, Settled, server
<1>3. CASE view' = view
  <2>1. \A t \in Slots : JobTells(view', job'[t])
    BY <1>2, <1>3, IdleIs, NoneTells DEF Others, Told
  <2> QED BY <1>2, <1>3, <2>1, ToldFrom DEF Told
<1>4. CASE view' # view
  <2>1. j.kind = "send"
    BY <1>4 DEF End, Break
  <2>2. \A t \in Slots \ {s} : job[t].kind = "none"
    BY <2>1, AloneIs DEF Free, Late
  <2>3. \A t \in Slots : JobTells(view', job'[t])
    BY <1>2, <2>2, IdleIs, NoneTells DEF Others
  <2>4. Local \in view'.seen
    <3>1. view' = [view EXCEPT !.run = IF j.old = NoRun THEN Pending ELSE j.old,
                               !.status = "interrupted", !.seen = @ \cup {Local}]
      BY <1>4 DEF End, Break
    <3> QED BY <1>1, <3>1 DEF ViewTypes
  <2> QED BY <1>2, <2>3, <2>4, ToldFrom DEF Whole
<1> QED BY <1>3, <1>4

\* What the events that a follow asked for leave of the view.
LEMMA PollTells ==
  ASSUME TypeInv, LogsEnd, Told, NEW j, JobIs(j), JobTells(view, j), j.kind \in {"follow", "poll"}
  PROVE  LET w == SeeAll(view, j.run, j.upto, Stored(j.run))
             n == IF j.upto > Stored(j.run) THEN j.upto ELSE Stored(j.run)
         IN /\ Whole(w) /\ w.run = view.run /\ (Local \in view.seen <=> Local \in w.seen)
            /\ Local \notin view.seen => Shows(w, j.run, n)
            /\ Local \notin view.seen /\ Settles(view, j.run, j.upto) => Settles(w, j.run, n)
            /\ Local \in view.seen /\ j.upto = Far => w = view /\ n = j.upto
<1>1. ServerInv /\ view \in ViewTypes /\ Whole(view) /\ Reaches(view, j)
  BY DEF TypeInv, Views, Told, JobTells
<1>2. PICK r \in Runs : r = j.run
  BY DEF JobIs
<1>3. PICK m \in Nat : m = j.upto
  BY DEF JobIs
<1>4. PICK d \in Nat : d = Stored(r) /\ d <= Len(log[r])
  BY <1>1, StoredIs
<1> DEFINE w == SeeAll(view, r, m, d)
           n == IF m > d THEN m ELSE d
<1>5. Len(log[r]) \in Nat /\ Len(log[r]) <= 5
  BY <1>1 DEF ServerInv, ServerTypeOK, LogsEnd, RunMore
<1>6. CASE Local \notin view.seen
  <2>1. Shows(view, r, m)
    BY <1>1, <1>2, <1>3, <1>6 DEF Reaches
  <2>2. Holds(view, r, m) /\ m <= Len(log[r])
    BY <1>1, <1>5, <1>6, <2>1, WholeIs DEF Shows
  <2>3. n \in Nat /\ n <= Len(log[r]) /\ m <= n
    BY <1>4, <1>5, <2>2
  <2>4. w = SeeAll(view, r, m, n)
    <3>1. CASE m > d
      BY <1>4, <3>1, SeeNone
    <3>2. CASE ~(m > d)
      BY <3>2
    <3> QED BY <3>1, <3>2
  <2> HIDE DEF n, w
  <2>5. Holds(w, r, n)
    BY <1>1, <2>2, <2>3, <2>4, HoldsOn
  <2>6. Settles(view, r, m) => Settles(w, r, n)
    BY <1>1, <2>1, <2>3, <2>4, SettlesOn
  <2>7. Shows(w, r, n) /\ w.run = r /\ view.run = r /\ w.seen = EventsOf(r, 0, n)
    BY <2>1, <2>5 DEF Holds, Shows
  <2>8. Local \notin w.seen
    BY <2>3, <2>7, EventsOfIs
  <2>9. Whole(w)
    BY <2>3, <2>5 DEF Whole
  <2> QED BY <1>2, <1>3, <1>4, <1>6, <2>6, <2>7, <2>8, <2>9 DEF n, w
<1>7. CASE Local \in view.seen
  <2>1. m = Far \/ view.run = r
    BY <1>1, <1>2, <1>3, <1>7 DEF Reaches
  <2>2. CASE m = Far
    <3>1. d <= m /\ n = m
      BY <1>4, <1>5, <2>2 DEF Far
    <3>2. w = view
      BY <3>1, SeeNone
    <3> HIDE DEF n, w
    <3> QED BY <1>1, <1>2, <1>3, <1>4, <1>7, <3>1, <3>2 DEF n, w
  <2>3. CASE m # Far
    <3>1. Local \in w.seen /\ w.run = r /\ view.run = r
      BY <1>1, <1>4, <1>7, <2>1, <2>3, SeeAllLocal
    <3>2. Whole(w)
      BY <3>1 DEF Whole
    <3> HIDE DEF n, w
    <3> QED BY <1>2, <1>3, <1>4, <1>7, <2>3, <3>1, <3>2 DEF n, w
  <2> QED BY <2>2, <2>3
<1> QED BY <1>6, <1>7

\* A request of a follow is answered.
LEMMA PollKeepsTold ==
  ASSUME TypeInv, LogsEnd, Alone, Told, NEW s \in Slots, FirstPoll(s) \/ LatePoll(s)
  PROVE  Told'
<1> DEFINE j == job[s]
           n == IF j.upto > Stored(j.run) THEN j.upto ELSE Stored(j.run)
<1>1. PageInv /\ ServerInv /\ JobIs(j) /\ JobTells(view, j)
  BY DEF TypeInv, JobsInv, Told
<1>2. /\ UNCHANGED <<home, row, log, card, alive>> /\ j.kind \in {"follow", "poll"}
      /\ view' = SeeAll(view, j.run, j.upto, Stored(j.run))
  BY DEF FirstPoll, LatePoll, server
<1>3. /\ Whole(view') /\ view'.run = view.run /\ (Local \in view.seen <=> Local \in view'.seen)
      /\ Local \notin view.seen => Shows(view', j.run, n)
      /\ Local \notin view.seen /\ Settles(view, j.run, j.upto) => Settles(view', j.run, n)
      /\ Local \in view.seen /\ j.upto = Far => view' = view /\ n = j.upto
  BY <1>1, <1>2, PollTells
<1>4. CASE ~Late(j)
  <2>1. j.kind = "follow" /\ j.at = "first" /\ FirstPoll(s)
    BY <1>2, <1>4 DEF FirstPoll, LatePoll, Late
  <2>2. \A t \in Slots \ {s} : job[t].kind = "none"
    BY <1>4, <2>1, AloneIs DEF Free
  <2> DEFINE k == job'[s]
  <2>3. Others(s) /\ k.kind = "follow" /\ k.at = "open" /\ k.run = j.run /\ k.upto = n
    BY <1>1, <2>1, FirstPollDoes
  <2>4. Reaches(view, j) /\ WillSettle(view, j)
    BY <1>1, <2>1 DEF JobTells
  <2> HIDE DEF n, k
  <2>5. Reaches(view', k)
    BY <1>3, <1>4, <2>3, <2>4 DEF Reaches
  <2>6. WillSettle(view', k)
    BY <1>3, <2>3, <2>4 DEF WillSettle
  <2>7. JobTells(view', k)
    BY <2>3, <2>5, <2>6 DEF JobTells
  <2>8. \A t \in Slots : JobTells(view', job'[t])
    BY <2>2, <2>3, <2>7, NoneTells DEF Others, k
  <2> QED BY <1>2, <1>3, <2>8, ToldFrom
<1>5. CASE Late(j)
  <2>1. Others(s) /\ job'[s] = Idle
    <3>1. CASE FirstPoll(s)
      BY <1>1, <1>5, <3>1, FirstPollDoes DEF Late
    <3>2. CASE LatePoll(s)
      BY <1>1, <3>2, EndsDoes DEF LatePoll
    <3> QED BY <3>1, <3>2
  <2>2. ASSUME NEW t \in Slots \ {s} PROVE JobTells(view', job'[t])
    <3>1. job'[t].kind = "none" \/ job'[t].kind = "cancel"
      BY <1>2, <1>5, <2>1 DEF Alone, Free, Others, Late
    <3>2. JobTells(view, job'[t])
      BY <2>1 DEF Told, Others
    <3> QED BY <1>3, <3>1, <3>2 DEF JobTells
  <2>3. \A t \in Slots : JobTells(view', job'[t])
    BY <2>1, <2>2, IdleIs, NoneTells
  <2> QED BY <1>2, <1>3, <2>3, ToldFrom
<1> QED BY <1>4, <1>5

\* The other requests are answered.
LEMMA RequestKeepsTold ==
  ASSUME TypeInv, Alone, Told, NEW s \in Slots,
         \/ Cancelled(s) \/ NoAnswer(s)
         \/ \E late \in BOOLEAN : Follow(s, late) \/ Deleted(s, late)
  PROVE  Told'
<1> DEFINE j == job[s]
<1>1. /\ PageInv /\ RefOK /\ JobsOK /\ ServerInv /\ JobIs(j) /\ JobTells(view, j) /\ view \in ViewTypes
      /\ UNCHANGED <<home, row, log, card, alive>> /\ Whole(view)
  BY DEF TypeInv, PageInv, JobsInv, Views, Told, Cancelled, NoAnswer, Follow, Deleted, server
<1>2. CASE NoAnswer(s)
  <2>1. Others(s) /\ job'[s] = Idle /\ view' = view
    BY <1>1, <1>2, EndsDoes DEF NoAnswer, page
  <2>2. \A t \in Slots : JobTells(view', job'[t])
    BY <2>1, IdleIs, NoneTells DEF Others, Told
  <2> QED BY <1>1, <2>1, <2>2, ToldFrom
<1>3. CASE Cancelled(s)
  <2>1. /\ Others(s) /\ job'[s] = Idle /\ j.kind = "cancel" /\ j.run = view.run
        /\ view' = [view EXCEPT !.run = j.run, !.status = "cancelled", !.seen = @ \cup {Local}]
    BY <1>1, <1>3, EndsDoes DEF Cancelled, JobTells
  <2>2. view'.run = view.run /\ Local \in view'.seen
    BY <1>1, <2>1 DEF ViewTypes
  <2>3. ASSUME NEW t \in Slots \ {s} PROVE JobTells(view', job'[t])
    <3>1. job'[t] = job[t] /\ JobTells(view, job[t]) /\ (job[t].kind = "none" \/ Late(job[t]))
      BY <2>1 DEF Others, Told, Alone, Free, Late
    <3>2. CASE job[t].kind = "none"
      BY <3>1, <3>2, NoneTells
    <3>3. CASE job[t].kind # "none"
      <4>1. Late(job[t]) /\ Reaches(view, job[t])
        BY <3>1, <3>3 DEF Late, JobTells
      <4>2. Reaches(view', job[t])
        BY <2>2, <4>1 DEF Reaches, Shows
      <4> QED BY <3>1, <4>1, <4>2 DEF JobTells, Late
    <3> QED BY <3>2, <3>3
  <2>4. \A t \in Slots : JobTells(view', job'[t])
    BY <2>1, <2>3, IdleIs, NoneTells
  <2> QED BY <1>1, <2>2, <2>4, ToldFrom DEF Whole
<1>4. ASSUME NEW late \in BOOLEAN, Follow(s, late) PROVE Told'
  <2> DEFINE k == job'[s]
  <2>1. /\ j.kind = "decide" /\ j.at = "answered" /\ j.run \in Runs
        /\ k.kind = "follow" /\ k.at = "first" /\ k.run = j.run /\ k.upto = j.upto
        /\ \A t \in Slots \ {s} : job'[t] = Cut(job, late)[t]
    BY <1>1, <1>4, FollowDoes DEF JobIs
  <2>2. \A t \in Slots \ {s} : job[t].kind = "none"
    BY <2>1, AloneIs DEF Free, Late
  <2>3. ref = NoRef
    BY <1>1, <2>1, <2>2 DEF RefOK
  <2>4. \A t \in Slots \ {s} : job'[t].kind = "none"
    BY <2>1, <2>2, <2>3 DEF Cut
  <2> PICK r \in Runs : r = j.run
    BY <2>1
  <2>5. /\ view'.run = view.run /\ view'.seen = view.seen /\ view'.status = view.status
        /\ view'.card[r] # "pending" /\ \A q \in Runs \ {r} : view'.card[q] = view.card[q]
    <3>1. view' = Mark(r)
      BY <1>4 DEF Follow
    <3>2. CASE view.card[r] = "none"
      BY <3>1, <3>2 DEF Mark
    <3>3. CASE view.card[r] # "none"
      <4>1. view' = [view EXCEPT !.card[r] = "executing"]
        BY <3>1, <3>3 DEF Mark
      <4> QED BY <1>1, <3>3, <4>1 DEF ViewTypes
    <3> QED BY <3>2, <3>3
  <2> PICK w : w = view'
    OBVIOUS
  <2>6. /\ \A m : Shows(view, r, m) => Shows(w, r, m)
        /\ \A m : Settles(view, r, m) => Settles(w, r, m)
    BY <2>5 DEF Shows, Settles, InStep
  <2>7. Reaches(view, j) /\ WillSettle(view, j)
    BY <1>1, <2>1 DEF JobTells
  <2> HIDE DEF k
  <2>8. Reaches(w, k) /\ WillSettle(w, k)
    BY <2>1, <2>5, <2>6, <2>7 DEF Reaches, WillSettle, Late
  <2>9. JobTells(w, k)
    BY <2>1, <2>8 DEF JobTells
  <2>10. Whole(w)
    <3> SUFFICES ASSUME Local \notin w.seen PROVE \E q \in Runs : \E m \in Nat : Holds(w, q, m)
      BY DEF Whole
    <3>1. Shows(w, r, j.upto) /\ j.upto \in Nat
      BY <1>1, <2>1, <2>5, <2>6, <2>7 DEF Reaches, JobIs
    <3>2. Holds(w, r, j.upto)
      BY <2>5, <3>1 DEF Holds
    <3> QED BY <3>1, <3>2
  <2>11. \A t \in Slots : JobTells(view', job'[t])
    BY <2>4, <2>9, NoneTells DEF k
  <2> QED BY <1>1, <2>10, <2>11, ToldFrom
<1>5. ASSUME NEW late \in BOOLEAN, Deleted(s, late) PROVE Told'
  <2>1. /\ j.kind = "delete" /\ job'[s] = Idle
        /\ ~j.shown => Others(s) /\ UNCHANGED page
        /\ j.shown => /\ \A t \in Slots \ {s} : job'[t] = Cut(job, late)[t]
                      /\ view' = EmptyView
    BY <1>1, <1>5, DeletedDoes
  <2>2. \A t \in Slots \ {s} : job[t].kind = "none"
    BY <2>1, AloneIs DEF Free, Late
  <2>3. ref = NoRef
    BY <1>1, <2>1, <2>2 DEF RefOK
  <2>4. j.shown \in BOOLEAN /\ \A t \in Slots : job'[t].kind = "none"
    BY <1>1, <2>1, <2>2, <2>3, IdleIs DEF Others, Cut, JobIs
  <2>5. Whole(view')
    BY <1>1, <2>1, <2>4, EmptyIsWhole DEF page
  <2>6. \A t \in Slots : JobTells(view', job'[t])
    BY <2>4, NoneTells
  <2> QED BY <1>1, <2>5, <2>6, ToldFrom
<1> QED BY <1>2, <1>3, <1>4, <1>5

\* A follow still goes on where the view ends when Runs go on.
LEMMA ReachesGrows ==
  ASSUME TypeInv, AtServer, view' = view, NEW j, j.run \in Runs, Reaches(view, j), NEW t \in Slots,
         job'[t].run = j.run, job'[t].upto = j.upto, Late(j) => Late(job'[t])
  PROVE  Reaches(view, job[t])'
<1>1. ServerInv /\ ServerInv' /\ Grows
  BY ServerKeepsTypes DEF TypeInv
<1> PICK r \in Runs : r = j.run
  OBVIOUS
<1> PICK m : m = j.upto
  OBVIOUS
<1> PICK v : v = view
  OBVIOUS
<1>2. Shows(v, r, m) => Shows(v, r, m)'
  BY <1>1, ShowsGrows
<1>3. Shows(v, r, m)' => Shows(view, job[t].run, job[t].upto)'
  BY DEF Shows
<1>4. Late(j) => Late(job[t])'
  BY DEF Late
<1> QED BY <1>2, <1>3, <1>4 DEF Reaches

LEMMA WillSettleGrows ==
  ASSUME TypeInv, AtServer, view' = view, NEW j, j.run \in Runs, NEW t \in Slots,
         job'[t].run = j.run, job'[t].upto = j.upto,
         Local \notin view.seen => Shows(view, j.run, j.upto),
         home'[j.run] \in alive', Decided(j.run)',
         Decided(j.run) /\ Local \notin view.seen => Settles(view, j.run, j.upto)
  PROVE  WillSettle(view, job[t])'
<1> PICK r \in Runs : r = j.run
  OBVIOUS
<1> PICK m : m = j.upto
  OBVIOUS
<1> PICK v : v = view
  OBVIOUS
<1>1. Decided(r)'
  BY DEF Decided
<1>2. Local \notin v.seen => Settles(v, r, m)'
  BY <1>1, SettlesGrows
<1>3. Settles(v, r, m)' => Settles(view, job[t].run, job[t].upto)'
  BY DEF Settles, InStep, Owed
<1>4. Decided(job[t].run)' /\ home'[job'[t].run] \in alive'
  BY <1>1 DEF Decided
<1> QED BY <1>2, <1>3, <1>4 DEF WillSettle

\* What the backend does of a request.
LEMMA AnswerKeepsTold ==
  ASSUME TypeInv, Alone, Told, NEW s \in Slots, Claims(s) \/ Cancels(s) \/ Deletes(s)
  PROVE  Told'
<1> DEFINE j == job[s]
<1>1. /\ PageInv /\ ServerInv /\ JobIs(j) /\ JobTells(view, j) /\ home' = home
      /\ view' = view /\ AtServer /\ Whole(view)
  BY DEF TypeInv, JobsInv, Told, Claims, Cancels, Deletes, page, AtServer
<1>2. /\ Others(s) /\ j.at = "asked" /\ job'[s].at = "answered" /\ job'[s].kind = j.kind
      /\ job'[s].run = j.run /\ job'[s].upto = j.upto
  BY <1>1, AnswersDoes DEF Fields
<1>3. Whole(view)'
  BY <1>1, WholeGrows
<1>4. ASSUME NEW t \in Slots, job'[t].kind \in {"none", "delete"} PROVE JobTells(view, job[t])'
  BY <1>4 DEF JobTells
<1>5. CASE Deletes(s)
  <2>1. \A t \in Slots : job'[t].kind \in {"none", "delete"}
    BY <1>2, <1>5, AloneIs DEF Deletes, Free, Late, Others
  <2> QED BY <1>3, <1>4, <2>1 DEF Told
<1>6. CASE Cancels(s)
  <2>1. j.kind = "cancel"
    BY <1>6 DEF Cancels
  <2>2. JobTells(view, job[s])'
    BY <1>1, <1>2, <2>1 DEF JobTells
  <2>3. ASSUME NEW t \in Slots \ {s} PROVE JobTells(view, job[t])'
    <3>1. job'[t] = job[t] /\ JobTells(view, job[t]) /\ JobIs(job[t])
      BY <1>2 DEF Others, Told, TypeInv, JobsInv
    <3>2. CASE job[t].kind = "none"
      BY <1>4, <3>1, <3>2
    <3>3. CASE job[t].kind # "none"
      <4>1. Late(job[t])
        BY <2>1, <3>3 DEF Alone, Free, Late
      <4>2. Reaches(view, job[t]) /\ job[t].run \in Runs
        BY <3>1, <4>1 DEF JobTells, JobIs, Late
      <4>3. Reaches(view, job[t])'
        BY <1>1, <3>1, <4>2, ReachesGrows
      <4> QED BY <3>1, <4>1, <4>3 DEF JobTells, Late
    <3> QED BY <3>2, <3>3
  <2> QED BY <1>3, <2>2, <2>3 DEF Told
<1>7. CASE Claims(s)
  <2>1. /\ j.kind = "decide" /\ j.run \in Runs /\ alive' = alive /\ home[j.run] \in alive
        /\ card[j.run] \in {"pending", "claimed", "decided"}
    BY <1>1, <1>7 DEF Claims, JobIs
  <2>2. \A t \in Slots \ {s} : job'[t].kind = "none"
    BY <1>2, <2>1, AloneIs DEF Free, Late, Others
  <2>3. Reaches(view, j) /\ view.card[j.run] = "pending" /\ ~Late(j)
    BY <1>1, <1>2, <2>1 DEF JobTells, Late
  <2>4. Local \notin view.seen => Shows(view, j.run, j.upto)
    BY <2>3 DEF Reaches
  <2>5. Decided(j.run) /\ Local \notin view.seen => Settles(view, j.run, j.upto)
    BY <1>1, <2>1, <2>3, <2>4, WholeIs DEF Holds
  <2>6. Decided(j.run)'
    <3> PICK r \in Runs : r = j.run
      BY <2>1
    <3>1. /\ IF card[r] = "pending" THEN card' = [card EXCEPT ![r] = "claimed"]
             ELSE card' = card
      BY <1>7 DEF Claims
    <3>2. card \in [Runs -> Cards]
      BY <1>1 DEF ServerInv, ServerTypeOK
    <3>3. card'[r] \in {"claimed", "decided"}
      BY <2>1, <3>1, <3>2
    <3> QED BY <1>2, <3>3 DEF Decided
  <2>7. card'[j.run] \in {"claimed", "decided"}
    BY <1>2, <2>6 DEF Decided
  <2>8. WillSettle(view, job[s])'
    BY <1>1, <1>2, <2>1, <2>4, <2>5, <2>7, WillSettleGrows DEF Decided
  <2>9. Reaches(view, job[s])'
    BY <1>1, <1>2, <2>1, <2>3, ReachesGrows
  <2>10. JobTells(view, job[s])'
    BY <1>2, <2>1, <2>8, <2>9 DEF JobTells
  <2> QED BY <1>3, <1>4, <2>2, <2>10 DEF Told
<1> QED BY <1>5, <1>6, <1>7

\* A Run starts: nothing of it was shown.
LEMMA StartKeepsTold ==
  ASSUME TypeInv, Alone, Told, NEW s \in Slots, NEW c \in Conversations, SendStarts(s, c)
  PROVE  Told'
<1> DEFINE r == NewRun
<1>1. PageInv /\ ServerInv /\ JobIs(job[s]) /\ view \in Views /\ view' = view /\ AtServer /\ Whole(view)
  BY DEF TypeInv, JobsInv, SendStarts, page, Told, AtServer
<1>2. /\ Others(s) /\ job[s].kind = "send" /\ job[s].at = "posted"
      /\ job'[s].kind = "send" /\ job'[s].at = "open" /\ job'[s].run = r
      /\ job'[s].upto = 0
  BY <1>1, StartsDoes DEF JobIs, SendOK
<1>3. \A t \in Slots \ {s} : job'[t].kind = "none"
  BY <1>2, AloneIs DEF Free, Late, Others
<1>4. r \in Runs /\ home[r] = None
  BY NewRunIsNew DEF SendStarts
<1>5. /\ home' = [home EXCEPT ![r] = c] /\ alive' = alive \cup {c}
      /\ log' = [log EXCEPT ![r] = <<"started">>]
      /\ row' = [q \in Runs |-> IF q = r THEN "running"
                                ELSE IF home[q] = c /\ card[q] = "pending" THEN "cancelled"
                                ELSE row[q]]
      /\ card' = [q \in Runs |-> IF home[q] = c /\ card[q] = "pending" THEN "superseded"
                                 ELSE card[q]]
  BY DEF SendStarts, NewRun
<1> HIDE DEF r
<1>6. home'[r] \in alive' /\ row'[r] = "running" /\ card'[r] = "none" /\ log'[r] = <<"started">>
  <2>1. card[r] = "none"
    BY <1>1, <1>4, ConversationsOK DEF ServerInv, ServerTypeOK, RunOK
  <2> QED BY <1>1, <1>4, <1>5, <2>1 DEF ServerInv, ServerTypeOK
<1>7. view.run # r /\ \A e \in view.seen : e[1] # r
  <2>1. view.run # r
    BY <1>1, <1>4 DEF Views
  <2>2. ASSUME NEW e \in view.seen PROVE e[1] # r
    <3>1. CASE e = Local
      BY <1>4, <3>1, ConversationsOK DEF Local, Runs
    <3>2. CASE e # Local
      BY <1>1, <1>4, <3>2, EventIs DEF Views
    <3> QED BY <3>1, <3>2
  <2> QED BY <2>1, <2>2
<1>8. SendTells(view, job[s])'
  BY <1>1, <1>2, <1>6, <1>7 DEF SendTells, SendLog
<1>9. JobTells(view, job[s])'
  BY <1>2, <1>8 DEF JobTells
<1>10. \A t \in Slots \ {s} : JobTells(view, job[t])'
  BY <1>3 DEF JobTells
<1> QED BY <1>1, <1>9, <1>10, WholeGrows DEF Told

\* A Run goes on by itself.
LEMMA RunKeepsTold ==
  ASSUME TypeInv, Told, NEW r \in Runs, RunPauses(r) \/ RunResumes(r) \/ RunEnds(r)
  PROVE  Told'
<1>1. ServerInv /\ view \in Views /\ AtServer /\ Whole(view) /\ ServerInv' /\ Grows
  BY ServerKeepsTypes DEF TypeInv, Told, AtServer
<1>2. UNCHANGED <<home, alive, conv, view, job>>
  BY <1>1, OnlyMore
<1>3. row \in [Runs -> Rows] /\ card \in [Runs -> Cards] /\ log \in [Runs -> Seq(LogTypes)]
  BY <1>1 DEF ServerInv, ServerTypeOK
<1>4. \A q \in Runs : Decided(q) <=> card'[q] \in {"claimed", "decided"}
  BY <1>3 DEF RunPauses, RunResumes, RunEnds, Decided
<1>5. ASSUME NEW q \in Runs, SendLog(q)
      PROVE  /\ SendLog(q)'
             /\ card'[q] = "pending" => card[q] = "pending" \/ Len(log[q]) = 1
  <2>1. CASE q # r
    BY <1>3, <1>5, <2>1 DEF RunPauses, RunResumes, RunEnds, SendLog
  <2>2. CASE q = r
    <3>1. row[q] = "running" /\ card[q] = "none" /\ log[q] = <<"started">> /\ ~RunResumes(r)
      BY <1>5, <2>2 DEF RunPauses, RunResumes, RunEnds, SendLog
    <3>2. /\ Len(log[q]) = 1 /\ Append(<<"started">>, "required") = <<"started", "required">>
          /\ Append(<<"started">>, "completed") = <<"started", "completed">>
      <4>1. /\ <<"started">> \in Seq(LogTypes) /\ <<"started", "required">> \in Seq(LogTypes)
            /\ <<"started", "completed">> \in Seq(LogTypes)
            /\ "required" \in LogTypes /\ "completed" \in LogTypes
        BY DEF LogTypes
      <4>2. ASSUME NEW type \in LogTypes, <<"started", type>> \in Seq(LogTypes)
            PROVE  Append(<<"started">>, type) = <<"started", type>>
        <5> DEFINE a == Append(<<"started">>, type)
                   b == <<"started", type>>
        <5>1. a \in Seq(LogTypes) /\ Len(a) = 2 /\ a[1] = "started" /\ a[2] = type
          BY <4>1
        <5>2. b \in Seq(LogTypes) /\ Len(b) = 2 /\ b[1] = "started" /\ b[2] = type
          BY <4>2
        <5>3. \A i \in 1..2 : i = 1 \/ i = 2
          OBVIOUS
        <5> HIDE DEF a, b
        <5>4. a = b
          BY <5>1, <5>2, <5>3
        <5> QED BY <5>4 DEF a, b
      <4> QED BY <3>1, <4>1, <4>2
    <3>3. CASE RunPauses(r)
      BY <1>3, <2>2, <3>1, <3>2, <3>3 DEF RunPauses, SendLog
    <3>4. CASE RunEnds(r)
      BY <1>3, <2>2, <3>1, <3>2, <3>4 DEF RunEnds, SendLog
    <3> QED BY <3>1, <3>3, <3>4
  <2> QED BY <2>1, <2>2
<1>6. ASSUME NEW t \in Slots PROVE JobTells(view, job[t])'
  <2> DEFINE j == job[t]
  <2>1. JobTells(view, j) /\ JobIs(j)
    BY DEF Told, TypeInv, JobsInv
  <2>2. CASE j.kind \in {"decide", "follow", "poll"}
    <3>1. Reaches(view, j) /\ j.run \in Runs
      BY <2>1, <2>2 DEF JobTells, JobIs
    <3>2. Reaches(view, job[t])'
      BY <1>1, <1>2, <3>1, ReachesGrows
    <3>3. ASSUME WillSettle(view, j), ~Late(j) PROVE WillSettle(view, job[t])'
      <4>1. /\ home'[j.run] \in alive' /\ card'[j.run] \in {"claimed", "decided"}
            /\ Local \notin view.seen => Settles(view, j.run, j.upto)
        BY <1>2, <1>4, <3>1, <3>3 DEF WillSettle
      <4>2. Local \notin view.seen => Shows(view, j.run, j.upto)
        BY <3>1 DEF Reaches
      <4> QED BY <1>1, <1>2, <3>1, <4>1, <4>2, WillSettleGrows DEF Decided
    <3>4. /\ j.kind = "decide" /\ j.at = "answered" => WillSettle(view, job[t])'
          /\ j.kind = "follow" /\ j.at # "late" => WillSettle(view, job[t])'
      BY <2>1, <3>3 DEF JobTells, Late
    <3>5. j.kind = "decide" /\ j.at = "asked" => view.card[j.run] = "pending"
      BY <2>1 DEF JobTells
    <3> QED BY <1>2, <2>2, <3>2, <3>4, <3>5 DEF JobTells
  <2>3. CASE j.kind = "restore"
    <3>1. RestoreTells(j) /\ RestoreOK(j)
      BY <2>1, <2>3 DEF JobTells, JobIs
    <3>2. RestoreTells(job[t])'
      BY <1>2, <1>4, <3>1 DEF RestoreTells, RestoreOK, Decided
    <3> QED BY <1>2, <2>3, <3>2 DEF JobTells
  <2>4. CASE j.kind = "send" /\ j.at = "open"
    <3>1. SendTells(view, j) /\ SendOK(j) /\ j.run \in Runs
      BY <2>1, <2>4 DEF JobTells, JobIs, SendOK
    <3> PICK q \in Runs : q = j.run
      BY <3>1
    <3> PICK m \in Nat : m = j.upto
      BY <3>1 DEF SendOK
    <3> PICK v : v = view
      OBVIOUS
    <3>2. SendLog(q) /\ SendLog(q)' /\ (card'[q] = "pending" => card[q] = "pending" \/ Len(log[q]) = 1)
      BY <1>5, <3>1 DEF SendTells
    <3>3. m # 0 => Shows(v, q, m) /\ InStep(v, q, m) /\ Local \notin v.seen
                   /\ (m >= 2 /\ card[q] = "pending" => v.card[q] = "pending")
      BY <3>1 DEF SendTells
    <3>4. m # 0 => Shows(v, q, m)' /\ InStep(v, q, m)' /\ m <= Len(log[q])
      BY <1>1, <3>3, ShowsGrows
    <3>5. ASSUME m >= 2, card'[q] = "pending" PROVE v.card[q] = "pending"
      <4>1. m <= Len(log[q]) /\ m # 0
        BY <3>4, <3>5
      <4>2. card[q] = "pending" \/ Len(log[q]) = 1
        BY <3>2, <3>5
      <4>3. Len(log[q]) # 1
        <5>1. Len(log[q]) \in Nat
          BY <1>3
        <5>2. \A a \in Nat, b \in Nat : a >= 2 /\ a <= b => b # 1
          OBVIOUS
        <5> QED BY <3>5, <4>1, <5>1, <5>2
      <4>4. card[q] = "pending"
        BY <4>2, <4>3
      <4> QED BY <3>3, <3>5, <4>1, <4>4
    <3>6. m = 0 => v.run # q /\ \A e \in v.seen : e[1] # q
      BY <3>1 DEF SendTells
    <3>7. home'[q] \in alive'
      BY <1>2, <3>1 DEF SendTells
    <3>8. /\ SendLog(q)' => SendLog(job[t].run)'
          /\ Shows(v, q, m)' => Shows(view, job[t].run, job[t].upto)'
          /\ InStep(v, q, m)' => InStep(view, job[t].run, job[t].upto)'
      BY <1>2 DEF SendLog, Shows, InStep
    <3>9. SendTells(view, job[t])'
      BY <1>2, <3>2, <3>3, <3>4, <3>5, <3>6, <3>7, <3>8 DEF SendTells
    <3> QED BY <1>2, <2>4, <3>9 DEF JobTells
  <2>5. CASE j.kind = "cancel"
    BY <1>2, <2>1, <2>5 DEF JobTells
  <2>6. CASE \/ j.kind \in {"none", "delete"}
             \/ j.kind = "send" /\ j.at # "open"
    BY <1>2, <2>6 DEF JobTells
  <2> QED BY <2>1, <2>2, <2>3, <2>4, <2>5, <2>6 DEF JobIs, Kinds
<1> QED BY <1>1, <1>2, <1>6, WholeGrows DEF Told

-----------------------------------------------------------------------------
LEMMA LogsEndHolds == Spec => []LogsEnd
BY LogsEndInit, LogsEndNext, TypeInvHolds, PTL DEF Spec

LEMMA ToldInvHolds == Spec => []ToldInv
<1>1. Init => ToldInv
  <2> SUFFICES ASSUME Init PROVE Told
    BY DEF ToldInv
  <2>1. Whole(view)
    BY EmptyIsWhole DEF Init
  <2>2. \A t \in Slots : JobTells(view, job[t])
    BY IdleIs, NoneTells DEF Init
  <2> QED BY <2>1, <2>2 DEF Told
<1>2. TypeInv /\ OneInv /\ LogsEnd /\ ToldInv /\ [Next]_vars => ToldInv'
  <2> SUFFICES ASSUME TypeInv, OneInv, LogsEnd, ToldInv, [Next]_vars, hasty' = 0
               PROVE  Told'
    BY DEF ToldInv
  <2>1. CASE UserActs
    BY <2>1, UserKeepsTold
  <2>2. CASE ~UserActs
    <3>1. Alone /\ Told
      BY <2>2, OnlyUserHastens DEF OneInv, ToldInv
    <3>2. CASE UNCHANGED vars
      <4>1. UNCHANGED <<home, row, log, card, alive, view, job>>
        BY <3>2 DEF vars
      <4>2. Whole(view') /\ \A t \in Slots : JobTells(view', job'[t])
        BY <3>1, <4>1 DEF Told
      <4> QED BY <4>1, <4>2, ToldFrom
    <3>3. CASE AtServer
      BY <3>1, <3>3, AnswerKeepsTold, StartKeepsTold, RunKeepsTold DEF AtServer
    <3> QED BY <2>2, <3>1, <3>2, <3>3, OneStep, RestoreKeepsTold, DeliverKeepsTold, EndKeepsTold,
               PollKeepsTold, RequestKeepsTold
  <2> QED BY <2>1, <2>2
<1> QED BY <1>1, <1>2, TypeInvHolds, OneInvHolds, LogsEndHolds, PTL DEF Spec

\* When a stream ends by itself, the page of a user who waits for answers shows
\* the Run it was for, with the status that the database has and with its approval
\* if it waits for one, unless the page told itself something before.
THEOREM StreamEndTellsAll == Spec => StreamEndShowsTheRun
<1>1. ASSUME TypeInv, LogsEnd, ToldInv, NEW s \in Slots, End(s), hasty = 0, Local \notin view.seen
      PROVE  /\ view'.run = job[s].run /\ view'.status = row[job[s].run]
             /\ row[job[s].run] = "waiting" => view'.card[job[s].run] = "pending"
  <2> DEFINE j == job[s]
  <2>1. /\ ServerInv /\ JobIs(j) /\ JobTells(view, j) /\ view' = view
        /\ j.kind \in {"send", "follow"} /\ j.at = "open" /\ MayEnd(j)
    BY <1>1 DEF TypeInv, JobsInv, ToldInv, Told, End, Streams
  <2> PICK r \in Runs : r = j.run
    BY <2>1 DEF JobIs, SendOK
  <2> PICK m \in Nat : m = j.upto
    BY <2>1 DEF JobIs, SendOK
  <2>2. Len(log[r]) \in Nat /\ RunMore(r) /\ row[r] \in Rows
    BY <1>1, <2>1 DEF ServerInv, ServerTypeOK, LogsEnd
  <2>3. CASE j.kind = "send"
    <3>1. SendTells(view, j) /\ SendLog(r) /\ home[r] \in alive
      BY <2>1, <2>3 DEF JobTells, SendTells
    <3>2. row[r] # "running" /\ m >= Sendable(j)
      BY <2>1, <3>1 DEF MayEnd, Closes, SendLog
    <3>3. /\ m >= 2 /\ Len(log[r]) = 2 /\ row[r] = StatusOf(log[r][2]) /\ log[r][2] # "decided"
      BY <2>3, <3>1, <3>2, SentIs
    <3>4. /\ Shows(view, r, m) /\ InStep(view, r, m)
          /\ card[r] = "pending" => view.card[r] = "pending"
      BY <3>1, <3>3 DEF SendTells
    <3>5. m = 2 /\ view.run = r
      BY <3>3, <3>4 DEF Shows
    <3>6. PICK k \in 1..m : /\ view.status = StatusOf(log[r][k])
                            /\ \A i \in (k + 1)..m : log[r][i] = "decided"
      BY <3>4 DEF InStep
    <3>7. k = 2
      BY <3>3, <3>5, <3>6
    <3>8. row[r] = "waiting" => card[r] = "pending"
      BY <3>1 DEF SendLog
    <3> QED BY <2>1, <3>3, <3>4, <3>5, <3>6, <3>7, <3>8
  <2>4. CASE j.kind = "follow"
    <3>1. Reaches(view, j) /\ WillSettle(view, j)
      BY <2>1, <2>4 DEF JobTells
    <3>2. Shows(view, r, m) /\ Decided(r) /\ Settles(view, r, m) /\ home[r] \in alive
      BY <1>1, <3>1 DEF Reaches, WillSettle
    <3>3. row[r] # "running" /\ m >= Len(log[r])
      BY <2>1, <2>4, <3>2 DEF MayEnd, Closes, Sendable
    <3>4. m = Len(log[r]) /\ view.run = r
      BY <2>2, <3>2, <3>3 DEF Shows
    <3>5. row[r] \in RunTerminal /\ log[r][m] = row[r]
      BY <2>2, <3>2, <3>3, <3>4 DEF RunMore, RunTerminal
    <3>6. InStep(view, r, m)
      BY <2>2, <3>2, <3>3, <3>4 DEF Settles, Owed
    <3>7. PICK k \in 1..m : /\ view.status = StatusOf(log[r][k])
                            /\ \A i \in (k + 1)..m : log[r][i] = "decided"
      BY <3>6 DEF InStep
    <3>8. k = m
      <4>1. log[r][m] # "decided"
        BY <3>5 DEF RunTerminal
      <4> QED BY <3>7, <4>1
    <3>9. view.status = row[r] /\ row[r] # "waiting"
      BY <3>5, <3>7, <3>8 DEF StatusOf, RunTerminal
    <3> QED BY <2>1, <3>4, <3>9
  <2> QED BY <2>1, <2>3, <2>4
<1>2. TypeInv /\ LogsEnd /\ ToldInv =>
        [\A s \in Slots : End(s) /\ hasty = 0 /\ Local \notin view.seen =>
           /\ view'.run = job[s].run
           /\ view'.status = row[job[s].run]
           /\ row[job[s].run] = "waiting" => view'.card[job[s].run] = "pending"]_vars
  BY <1>1
<1> QED BY <1>2, TypeInvHolds, LogsEndHolds, ToldInvHolds, PTL DEF StreamEndShowsTheRun
=============================================================================
