--------------------------- MODULE Console_proofs ---------------------------
(***************************************************************************)
(* Theorems about Console, for any number of requests on their way, any    *)
(* number of agents, Runs, models, keys, tabs and things to search, and    *)
(* any number of changes by others. Each part of the console has an        *)
(* invariant of its own; a step of one part leaves the others alone.       *)
(***************************************************************************)
EXTENDS Console, FiniteSetTheorems, SequenceTheorems, TLAPS

CallFields == {"kind", "arg", "state", "data"}

\* A request has these fields, whatever they hold.
IsCall(c) == c = [f \in CallFields |-> c[f]]
CallsOK ==
  /\ calls = [s \in Slots |-> calls[s]]
  /\ \A s \in Slots : IsCall(calls[s]) /\ (calls[s].kind = "free" => calls[s] = Free)

-----------------------------------------------------------------------------
(***************************************************************************)
(* What is done with a request.                                            *)
(***************************************************************************)

\* A free slot and a new request are requests.
LEMMA NewCalls ==
  /\ IsCall(Free) /\ Free.kind = "free" /\ Free.state = "none"
  /\ \A kind, arg : /\ IsCall(Asked(kind, arg))
                    /\ Asked(kind, arg).kind = kind /\ Asked(kind, arg).arg = arg
                    /\ Asked(kind, arg).state = "asked"
BY DEF IsCall, Free, Asked, CallFields

\* A slot gets another request.
LEMMA Turned ==
  ASSUME CallsOK, NEW s \in Slots, NEW c, IsCall(c), c.kind = "free" => c = Free, Turn(s, c)
  PROVE  /\ CallsOK' /\ calls'[s] = c
         /\ \A t \in Slots \ {s} : calls'[t] = calls[t]
BY DEF CallsOK, Turn

\* A slot is freed.
LEMMA Freed ==
  ASSUME CallsOK, NEW s \in Slots, Turn(s, Free)
  PROVE  /\ CallsOK' /\ calls'[s] = Free
         /\ \A t \in Slots \ {s} : calls'[t] = calls[t]
BY NewCalls, Turned

\* A request goes on as another one.
LEMMA GoesOn ==
  ASSUME CallsOK, NEW s \in Slots, NEW kind, NEW arg, kind # "free", Turn(s, Asked(kind, arg))
  PROVE  /\ CallsOK' /\ calls'[s].kind = kind /\ calls'[s].arg = arg
         /\ calls'[s].state = "asked"
         /\ \A t \in Slots \ {s} : calls'[t] = calls[t]
<1> DEFINE c == Asked(kind, arg)
<1>1. IsCall(c) /\ c.kind = kind /\ c.arg = arg /\ c.state = "asked"
  BY NewCalls
<1>2. Turn(s, c)
  OBVIOUS
<1> HIDE DEF c
<1> QED BY <1>1, <1>2, Turned

\* A request is made: one slot that was free has it.
LEMMA Made ==
  ASSUME CallsOK, NEW kind, NEW arg, kind # "free", Make(kind, arg)
  PROVE  /\ CallsOK'
         /\ \E s \in Slots : /\ calls[s].kind = "free"
                             /\ calls'[s].kind = kind /\ calls'[s].arg = arg
                             /\ calls'[s].state = "asked"
                             /\ \A t \in Slots \ {s} : calls'[t] = calls[t]
<1>1. PICK s \in Slots : IsFree(s) /\ Turn(s, Asked(kind, arg))
  BY DEF Make
<1>2. calls[s].kind = "free"
  BY <1>1, NewCalls DEF IsFree
<1> QED BY <1>1, <1>2, GoesOn

\* A request is answered; it stays what it was.
LEMMA AnswerGiven ==
  ASSUME CallsOK, NEW s \in Slots, NEW d, calls[s].kind # "free", Answer(s, d)
  PROVE  /\ CallsOK'
         /\ calls'[s].kind = calls[s].kind /\ calls'[s].arg = calls[s].arg
         /\ calls'[s].state = "answered" /\ calls'[s].data = d
         /\ \A t \in Slots \ {s} : calls'[t] = calls[t]
<1> DEFINE c == [calls[s] EXCEPT !.state = "answered", !.data = d]
<1>1. /\ IsCall(c) /\ c.kind = calls[s].kind /\ c.arg = calls[s].arg
      /\ c.state = "answered" /\ c.data = d
  BY DEF CallsOK, IsCall, CallFields
<1>2. Turn(s, c)
  BY DEF Answer, Turn, CallsOK
<1> HIDE DEF c
<1> QED BY <1>1, <1>2, Turned

\* A request is lost; it stays what it was.
LEMMA Lost ==
  ASSUME CallsOK, NEW s \in Slots, Lose(s)
  PROVE  /\ CallsOK'
         /\ calls'[s].kind = calls[s].kind /\ calls'[s].arg = calls[s].arg
         /\ calls'[s].state = "failed"
         /\ \A t \in Slots \ {s} : calls'[t] = calls[t]
<1> DEFINE c == [calls[s] EXCEPT !.state = "failed", !.data = None]
<1>1. IsCall(c) /\ c.kind = calls[s].kind /\ c.arg = calls[s].arg /\ c.state = "failed"
  BY DEF CallsOK, IsCall, CallFields
<1>2. Turn(s, c)
  BY DEF Lose, Turn, CallsOK
<1>3. calls[s].kind # "free"
  BY NewCalls DEF Lose, CallsOK
<1> HIDE DEF c
<1> QED BY <1>1, <1>2, <1>3, Turned

\* With nothing on its way every slot is free.
LEMMA Resting == CallsOK => (AtRest <=> \A s \in Slots : calls[s].kind = "free")
BY NewCalls DEF CallsOK, AtRest, NoCalls

\* A page begins with one request.
LEMMA Begun ==
  ASSUME NEW s \in Slots, NEW c, IsCall(c), c.kind # "free", calls = [NoCalls EXCEPT ![s] = c]
  PROVE  /\ CallsOK /\ calls[s] = c
         /\ \A t \in Slots \ {s} : calls[t].kind = "free"
BY NewCalls DEF CallsOK, NoCalls

-----------------------------------------------------------------------------
(***************************************************************************)
(* The laws of lists, for those of the console.                            *)
(***************************************************************************)
Reading == INSTANCE SequenceLaws WITH Step <- ConsumeChar

\* Its arrays are those of the pages.
LEMMA SameArrays ==
  /\ \A S, R : Reading!Sorted(S, R) = Sorted(S, R)
  /\ \A s, places, R : Reading!Arranged(s, places, R) = Arranged(s, places, R)
  /\ \A s : Reading!Along(s) = Along(s)
  /\ \A s, T : Reading!Kept(s, T) = Kept(s, T)
  /\ \A s : Reading!Range(s) = Range(s)
  /\ \A ss : Reading!FlattenSeq(ss) = FlattenSeq(ss)
  /\ \A S : Reading!Cardinality(S) = Cardinality(S) /\ (Reading!IsFiniteSet(S) <=> IsFiniteSet(S))
<1>1. \A S : Reading!Cardinality(S) = Cardinality(S) /\ (Reading!IsFiniteSet(S) <=> IsFiniteSet(S))
  BY DEF Reading!Cardinality, Cardinality, Reading!IsFiniteSet, IsFiniteSet
<1>2. \A S, R : Reading!Sorted(S, R) = Sorted(S, R)
  BY DEF Reading!Sorted, Sorted, Reading!Cardinality, Cardinality,
         Reading!IsFiniteSet, IsFiniteSet
<1>3. \A s, places, R : Reading!Arranged(s, places, R) = Arranged(s, places, R)
  BY DEF Reading!Arranged, Arranged, Reading!Sorted, Sorted, Reading!Cardinality, Cardinality,
         Reading!IsFiniteSet, IsFiniteSet
<1>4. \A s : Reading!Along(s) = Along(s)
  BY DEF Reading!Along, Along
<1>5. \A s, T : Reading!Kept(s, T) = Kept(s, T)
  BY <1>3, <1>4 DEF Reading!Kept, Kept
<1>6. \A s : Reading!Range(s) = Range(s)
  BY DEF Reading!Range, Range
<1>7. \A ss : Reading!FlattenSeq(ss) = FlattenSeq(ss)
  BY DEF Reading!FlattenSeq, FlattenSeq
<1> QED BY <1>1, <1>2, <1>3, <1>4, <1>5, <1>6, <1>7


\* The elements at some places of an array, in some order.
IsArranged(s, P, R) ==
  /\ Cardinality(P) \in Nat
  /\ \E q \in [1..Cardinality(P) -> P] :
       /\ Arranged(s, P, R) = [n \in 1..Cardinality(P) |-> s[q[n]]]
       /\ \A i \in P : \E n \in 1..Cardinality(P) : q[n] = i
       /\ \A n, k \in 1..Cardinality(P) : n < k => <<q[n], q[k]>> \in R

\* Elements that are put in order are all there, in that order.
LEMMA ArrangedHere ==
  ASSUME NEW E, NEW s \in Seq(E), NEW P \in SUBSET DOMAIN s, NEW R, Reading!Orders(R, P)
  PROVE  IsArranged(s, P, R)
<1>1. Reading!IsArranged(s, P, R)
  BY Reading!ArrangedIs
<1>2. Reading!Cardinality(P) = Cardinality(P) /\ Reading!Arranged(s, P, R) = Arranged(s, P, R)
  BY SameArrays
<1> QED BY <1>1, <1>2 DEF Reading!IsArranged, IsArranged

-----------------------------------------------------------------------------
(***************************************************************************)
(* The page of the events.                                                 *)
(***************************************************************************)
EventsInv ==
  /\ CallsOK
  /\ EventsSpinnersEnd
  /\ \A s, t \in Slots : calls[s].kind = "feed" /\ calls[t].kind = "feed" => s = t

LEMMA EventsStep ==
  ASSUME EventsInv, EventsNext
  PROVE  EventsInv'
<1> DEFINE Goal == EventsInv'
<1> SUFFICES Goal
  OBVIOUS
<1>0. CallsOK
  BY DEF EventsInv
<1>1. CASE UNCHANGED <<calls, waiting>>
  BY <1>1 DEF EventsInv, EventsSpinnersEnd, Flying, OnTheirWay, CallsOK
<1>2. CASE ReadEvents
  BY <1>0, <1>2, Made DEF ReadEvents, EventsInv, EventsSpinnersEnd, Flying, OnTheirWay
<1>3. ASSUME NEW s \in Slots, ServeEvents(s)
      PROVE  Goal
  <2>1. Answer(s, Reverse(log)) /\ calls[s].kind = "feed" /\ waiting' = waiting
    BY <1>3 DEF ServeEvents, Waits, eventVars
  <2> QED BY <1>0, <2>1, AnswerGiven DEF EventsInv, EventsSpinnersEnd, Flying, OnTheirWay
<1>4. ASSUME NEW s \in Slots, LoseEvents(s)
      PROVE  Goal
  BY <1>0, <1>4, Lost DEF LoseEvents, eventVars, EventsInv, EventsSpinnersEnd, Flying, OnTheirWay
<1>5. ASSUME NEW s \in Slots, TakeEvents(s)
      PROVE  Goal
  <2>1. Turn(s, Free) /\ calls[s].kind = "feed" /\ waiting' = FALSE
    BY <1>5 DEF TakeEvents, Settles
  <2> QED BY <1>0, <2>1, Freed, NewCalls DEF EventsInv, EventsSpinnersEnd, Flying, OnTheirWay
<1>6. CASE \E c \in Conversations : \E r \in RunsOf[c] \cup {None} :
              \E type \in EventTypes : Emit(c, r, type)
  BY <1>1, <1>6 DEF Emit
<1>7. CASE \E field \in DOMAIN Filter : \E wanted \in Filter[field] : FilterBy(field, wanted)
  BY <1>1, <1>7 DEF FilterBy
<1>8. CASE \E v \in Views : View(v)
  BY <1>1, <1>8 DEF View
<1> HIDE DEF Goal
<1> QED BY <1>2, <1>3, <1>4, <1>5, <1>6, <1>7, <1>8 DEF EventsNext

\* The events there can be: of a Run of their conversation, or of no Run.
AnyRun == {None} \cup UNION {RunsOf[c] : c \in Conversations}
Recorded == {e \in [conversation : Conversations, run : AnyRun, type : EventTypes, at : Nat \ {0}] :
               e.run \in RunsOf[e.conversation] \cup {None}}

\* Events as the feed has them, the latest first.
AsFed(all) ==
  /\ all \in Seq(Recorded)
  /\ \A i, j \in DOMAIN all : i < j => all[i].at > all[j].at

\* No event is fed twice.
LEMMA FedOnce ==
  ASSUME NEW all, AsFed(all)
  PROVE  Reading!Lists(all, Range(all)) /\ Range(all) \in SUBSET Recorded
<1>1. all \in [1..Len(all) -> Recorded] /\ Len(all) \in Nat /\ DOMAIN all = 1..Len(all)
  BY DEF AsFed
<1>2. \A i \in DOMAIN all : all[i].at \in Nat
  BY <1>1 DEF Recorded
<1>3. \A i, j \in DOMAIN all : all[i] = all[j] => i = j
  BY <1>1, <1>2 DEF AsFed
<1>4. all \in Seq(Range(all)) /\ Range(all) \in SUBSET Recorded
  BY <1>1, SeqDef DEF Range
<1> QED BY <1>3, <1>4 DEF Reading!Lists, Range

\* What is kept of them is so, too.
LEMMA KeptAsFed ==
  ASSUME NEW all, AsFed(all), NEW T
  PROVE  /\ AsFed(Kept(all, T)) /\ Range(Kept(all, T)) = Range(all) \cap T
         /\ Reading!Lists(Kept(all, T), Range(all) \cap T)
<1>1. all \in Seq(Recorded)
  BY DEF AsFed
<1>2. Reading!Lists(Kept(all, T), Range(all) \cap T)
  BY FedOnce, Reading!KeptLists, SameArrays
<1>3. Range(Kept(all, T)) = Range(all) \cap T
  BY <1>2, Reading!ListsAll, SameArrays
<1> DEFINE m == Len(Kept(all, T))
<1>4. Kept(all, T) \in Seq(Recorded)
  BY <1>1, Reading!KeptIs, SameArrays
<1>5. m \in Nat /\ DOMAIN Kept(all, T) = 1..m
  BY <1>4
<1>6. PICK q \in [1..m -> DOMAIN all] :
        /\ Kept(all, T) = [n \in 1..m |-> all[q[n]]]
        /\ \A n, k \in 1..m : n < k => q[n] < q[k]
  BY <1>1, Reading!KeptIs, SameArrays
<1> HIDE DEF m
<1>7. \A n, k \in 1..m : n < k => Kept(all, T)[n].at > Kept(all, T)[k].at
  BY <1>6 DEF AsFed
<1> QED BY <1>2, <1>3, <1>4, <1>5, <1>7 DEF AsFed

\* The events in order, each once.
LEMMA OrderedOnce ==
  ASSUME NEW all, AsFed(all)
  PROVE  /\ Reading!Lists(Ordered(all), Range(all))
         /\ Len(Ordered(all)) \in Nat /\ DOMAIN Ordered(all) = 1..Len(Ordered(all))
         /\ \A i, j \in DOMAIN Ordered(all) : i < j => Ordered(all)[i].at < Ordered(all)[j].at
<1> DEFINE places == DOMAIN all
           R == {p \in places \X places : all[p[1]].at < all[p[2]].at}
           m == Cardinality(places)
<1>1. all \in Seq(Recorded) /\ \A i \in places : all[i].at \in Nat /\ i \in Nat
  <2>1. all \in [1..Len(all) -> Recorded] /\ Len(all) \in Nat /\ DOMAIN all = 1..Len(all)
    BY DEF AsFed
  <2> QED BY <2>1 DEF AsFed, Recorded
<1>2. \A i, j \in places : <<i, j>> \in R <=> all[i].at < all[j].at
  OBVIOUS
<1>3. \A i, j \in places : i < j => all[i].at > all[j].at
  BY DEF AsFed
<1> HIDE DEF R
<1>4. Reading!Orders(R, places)
  <2>1. \A i, j \in places : i # j => all[i].at < all[j].at \/ all[j].at < all[i].at
    BY <1>1, <1>3
  <2>2. \A i, j, k \in places :
          all[i].at < all[j].at /\ all[j].at < all[k].at => all[i].at < all[k].at
    BY <1>1
  <2>3. \A i \in places : ~(all[i].at < all[i].at)
    BY <1>1
  <2> HIDE DEF places
  <2> QED BY <1>2, <2>1, <2>2, <2>3, Zenon DEF Reading!Orders
<1>5. Ordered(all) = Arranged(all, places, R)
  BY DEF Ordered, R
<1>6. Reading!Lists(Ordered(all), Range(all))
  <2>1. Reading!Lists(Arranged(all, places, R), {all[i] : i \in places})
    BY <1>4, FedOnce, Reading!ArrangedLists, SameArrays
  <2> QED BY <2>1, <1>5 DEF Range
<1>7. /\ m \in Nat
      /\ \E q \in [1..m -> places] :
           /\ Arranged(all, places, R) = [n \in 1..m |-> all[q[n]]]
           /\ \A i \in places : \E n \in 1..m : q[n] = i
           /\ \A n, k \in 1..m : n < k => <<q[n], q[k]>> \in R
  <2>1. places \in SUBSET DOMAIN all
    OBVIOUS
  <2>2. all \in Seq(Recorded) /\ Reading!Orders(R, places)
    BY <1>1, <1>4
  <2> HIDE DEF places
  <2>3. IsArranged(all, places, R)
    BY <2>1, <2>2, ArrangedHere
  <2> QED BY <2>3 DEF IsArranged
<1>10. PICK q \in [1..m -> places] :
        /\ Ordered(all) = [n \in 1..m |-> all[q[n]]]
        /\ \A n, k \in 1..m : n < k => <<q[n], q[k]>> \in R
  BY <1>5, <1>7
<1>8. DOMAIN Ordered(all) = 1..m /\ Len(Ordered(all)) \in Nat
      /\ DOMAIN Ordered(all) = 1..Len(Ordered(all))
  BY <1>6, <1>7, <1>10 DEF Reading!Lists
<1> HIDE DEF m, places
<1>9. \A n, k \in 1..m : n < k => Ordered(all)[n].at < Ordered(all)[k].at
  <2> SUFFICES ASSUME NEW n \in 1..m, NEW k \in 1..m, n < k
               PROVE  Ordered(all)[n].at < Ordered(all)[k].at
    OBVIOUS
  <2>1. q[n] \in places /\ q[k] \in places /\ <<q[n], q[k]>> \in R
    BY <1>10
  <2>2. all[q[n]].at < all[q[k]].at
    BY <1>2, <2>1
  <2> QED BY <1>10, <2>2
<1> QED BY <1>6, <1>8, <1>9

\* Those of some kind in order: the first and the last of them.
LEMMA TimelineOf ==
  ASSUME NEW all, AsFed(all), NEW T, NEW S, S = Range(all) \cap T,
         NEW t, t = Ordered(Kept(all, T))
  PROVE  /\ Reading!Lists(t, S)
         /\ S # {} => /\ t[1] \in S /\ \A e \in S : t[1].at <= e.at
                      /\ Last(t) \in S /\ \A e \in S : e.at <= Last(t).at
<1>1. AsFed(Kept(all, T)) /\ Range(Kept(all, T)) = S
  BY KeptAsFed
<1>2. /\ Reading!Lists(t, S)
      /\ Len(t) \in Nat /\ DOMAIN t = 1..Len(t)
      /\ \A i, j \in DOMAIN t : i < j => t[i].at < t[j].at
  BY <1>1, OrderedOnce
<1> SUFFICES ASSUME S # {}
             PROVE  /\ t[1] \in S /\ \A e \in S : t[1].at <= e.at
                    /\ Last(t) \in S /\ \A e \in S : e.at <= Last(t).at
  BY <1>2
<1> DEFINE n == Len(t)
<1>3. n \in Nat /\ n >= 1 /\ Last(t) = t[n] /\ DOMAIN t = 1..n
  BY <1>2 DEF Reading!Lists, Last
<1>4. \A e \in S : \E i \in 1..n : t[i] = e
  BY <1>2 DEF Reading!Lists
<1>5. \A i \in 1..n : t[i] \in S
  BY <1>2 DEF Reading!Lists
<1>6. \A e \in S : e.at \in Nat
  BY <1>1, FedOnce DEF Recorded
<1> HIDE DEF n
<1>7. ASSUME NEW e \in S
      PROVE  t[1].at <= e.at /\ e.at <= t[n].at
  <2>1. PICK i \in 1..n : t[i] = e
    BY <1>4
  <2>2. i = 1 \/ t[1].at < e.at
    BY <1>2, <1>3, <2>1
  <2>3. i = n \/ e.at < t[n].at
    BY <1>2, <1>3, <2>1
  <2> QED BY <1>3, <1>5, <1>6, <2>1, <2>2, <2>3
<1> QED BY <1>3, <1>5, <1>7

\* Events of different times, the latest first.
LEMMA LatestOnce ==
  ASSUME NEW S \in SUBSET Recorded, IsFiniteSet(S), \A x, y \in S : x.at = y.at => x = y
  PROVE  /\ Reading!Lists(LatestFirst(S), S)
         /\ \A i, j \in DOMAIN LatestFirst(S) : i < j => LatestFirst(S)[i].at > LatestFirst(S)[j].at
<1> DEFINE R == {p \in S \X S : p[1].at > p[2].at}
           m == Cardinality(S)
           q == LatestFirst(S)
<1>1. \A x \in S : x.at \in Nat
  BY DEF Recorded
<1>2. \A x, y \in S : <<x, y>> \in R <=> x.at > y.at
  OBVIOUS
<1>3. q = Sorted(S, R)
  BY DEF LatestFirst
<1> HIDE DEF R, q
<1>4. Reading!Orders(R, S)
  <2>1. \A x, y \in S : x # y => x.at > y.at \/ y.at > x.at
    BY <1>1
  <2>2. \A x, y, z \in S : x.at > y.at /\ y.at > z.at => x.at > z.at
    BY <1>1
  <2>3. \A x \in S : ~(x.at > x.at)
    BY <1>1
  <2> QED BY <1>2, <2>1, <2>2, <2>3, Zenon DEF Reading!Orders
<1>5. /\ m \in Nat /\ q \in [1..m -> S]
      /\ \A x \in S : \E i \in 1..m : q[i] = x
      /\ \A i, j \in 1..m : i < j => <<q[i], q[j]>> \in R
  BY <1>3, <1>4, Reading!SortedOnce, SameArrays
<1> HIDE DEF m
<1>6. q \in Seq(S) /\ DOMAIN q = 1..m
  BY <1>5, SeqDef
<1>7. \A i, j \in 1..m : i < j => q[i].at > q[j].at
  BY <1>2, <1>5
<1>8. \A i, j \in 1..m : q[i] = q[j] => i = j
  BY <1>1, <1>5, <1>7
<1> QED BY <1>5, <1>6, <1>7, <1>8 DEF Reading!Lists, q

\* They are finitely many, and no two were recorded at the same place of the log.
LEMMA FedApart ==
  ASSUME NEW all, AsFed(all)
  PROVE  IsFiniteSet(Range(all)) /\ \A x, y \in Range(all) : x.at = y.at => x = y
<1>1. IsFiniteSet(Range(all))
  BY FedOnce, Reading!ListsAll, SameArrays
<1>2. all \in Seq(Recorded) /\ \A i \in DOMAIN all : all[i].at \in Nat /\ i \in Nat
  <2>1. all \in [1..Len(all) -> Recorded] /\ Len(all) \in Nat /\ DOMAIN all = 1..Len(all)
    BY DEF AsFed
  <2> QED BY <2>1 DEF AsFed, Recorded
<1>3. ASSUME NEW i \in DOMAIN all, NEW j \in DOMAIN all, all[i].at = all[j].at
      PROVE  i = j
  BY <1>2, <1>3 DEF AsFed
<1> QED BY <1>1, <1>3 DEF Range

\* The names of what is listed.
LEMMA ListsNames ==
  ASSUME NEW A, NEW q, Reading!Lists(q, A), NEW B, NEW f \in [A -> B],
         \A x, y \in A : f[x] = f[y] => x = y, \A b \in B : \E x \in A : f[x] = b
  PROVE  Reading!Lists([n \in DOMAIN q |-> f[q[n]]], B)
<1> DEFINE m == Len(q)
           t == [n \in DOMAIN q |-> f[q[n]]]
<1>1. m \in Nat /\ DOMAIN q = 1..m /\ \A n \in 1..m : q[n] \in A
  BY DEF Reading!Lists
<1>2. \A x \in A : \E n \in 1..m : q[n] = x
  BY <1>1 DEF Reading!Lists
<1>3. \A n, k \in 1..m : q[n] = q[k] => n = k
  BY <1>1 DEF Reading!Lists
<1> HIDE DEF m
<1>4. DOMAIN t = 1..m /\ \A n \in 1..m : t[n] = f[q[n]] /\ t[n] \in B
  BY <1>1
<1>5. t \in Seq(B)
  <2>1. t = [n \in 1..m |-> t[n]]
    BY <1>1, <1>4
  <2>2. t \in [1..m -> B]
    BY <1>4, <2>1
  <2> QED BY <1>1, <2>2, SeqDef
<1> HIDE DEF t
<1>6. \A b \in B : \E n \in 1..m : t[n] = b
  BY <1>2, <1>4
<1>7. \A n, k \in 1..m : t[n] = t[k] => n = k
  BY <1>1, <1>3, <1>4
<1>8. Reading!Lists(t, B)
  BY <1>4, <1>5, <1>6, <1>7 DEF Reading!Lists
<1> QED BY <1>8 DEF t

-----------------------------------------------------------------------------
\* What is shown: all that passed the filter, by card, by conversation, by view.
Shown == Range(FilteredEvents)
OnCard(c) == {e \in Shown : CardOf(e) = c}
InTalk(c) == {e \in Shown : e.conversation = c}
Talks == {e.conversation : e \in Shown}

ViewTypes == CASE viewed = "errors" -> {"task.failed"}
               [] viewed = "tools" -> {"tool.called"}
               [] viewed = "summary" -> {"task.failed", "run.completed"}
               [] OTHER -> EventTypes
InView(S) == {e \in S : e.type \in ViewTypes}

\* A view of events keeps those of its types, once each.
LEMMA ViewLists ==
  ASSUME NEW S, NEW s, Reading!Lists(s, S)
  PROVE  Reading!Lists(filterEventsByView(s), InView(S))
<1> DEFINE T == {e \in Range(s) : e.type \in ViewTypes}
<1>1. Range(s) = S
  BY Reading!ListsAll, SameArrays
<1>2. S \cap T = InView(S)
  BY <1>1 DEF InView
<1>3. filterEventsByView(s) = Kept(s, T)
  BY DEF filterEventsByView, ViewTypes
<1> HIDE DEF T
<1> QED BY <1>2, <1>3, Reading!KeptLists, SameArrays

\* The filtered events are in the order of the feed.
LEMMA FilteredFed ==
  ASSUME AsFed(events)
  PROVE  /\ AsFed(FilteredEvents) /\ Shown \subseteq Range(events)
         /\ Shown \in SUBSET Recorded /\ IsFiniteSet(Shown)
         /\ \A x, y \in Shown : x.at = y.at => x = y
<1>1. PICK T : FilteredEvents = Kept(events, T)
  BY DEF FilteredEvents, filterEvents
<1>2. AsFed(FilteredEvents) /\ Shown \subseteq Range(events)
  BY <1>1, KeptAsFed DEF Shown
<1> QED BY <1>2, FedOnce, FedApart DEF Shown

\* A card, and a conversation, has its events in order.
LEMMA CardOrdered ==
  ASSUME AsFed(events), NEW c
  PROVE  LET t == CardEvents(c) S == OnCard(c)
         IN /\ Reading!Lists(t, S)
            /\ S # {} => /\ t[1] \in S /\ \A e \in S : t[1].at <= e.at
                         /\ Last(t) \in S /\ \A e \in S : e.at <= Last(t).at
<1>1. CardEvents(c) = Ordered(Kept(FilteredEvents, OnCard(c)))
  BY DEF CardEvents, OnCard, Shown
<1>2. OnCard(c) = Range(FilteredEvents) \cap OnCard(c)
  BY DEF OnCard, Shown
<1> QED BY <1>1, <1>2, FilteredFed, TimelineOf

\* The last event in the timeline of a conversation is its latest.
LEMMA TalkOrdered ==
  ASSUME AsFed(events), NEW c
  PROVE  LET t == ConversationEvents(c) S == InTalk(c)
         IN S # {} => Last(t) \in S /\ \A e \in S : e.at <= Last(t).at
<1>1. ConversationEvents(c) = Ordered(Kept(FilteredEvents, InTalk(c)))
  BY DEF ConversationEvents, InTalk, Shown
<1>2. InTalk(c) = Range(FilteredEvents) \cap InTalk(c)
  BY DEF InTalk, Shown
<1> QED BY <1>1, <1>2, FilteredFed, TimelineOf

\* Each conversation is shown once, that of the latest event first.
LEMMA TalksOnce ==
  ASSUME AsFed(events)
  PROVE  /\ Reading!Lists(ShownConversations, Talks)
         /\ FilteredEvents # <<>> => ShownConversations[1] = FilteredEvents[1].conversation
<1> DEFINE end(c) == Last(ConversationEvents(c))
           ends == {end(c) : c \in Talks}
           order == LatestFirst(ends)
           f == [e \in ends |-> e.conversation]
<1>1. \A c \in Talks : /\ end(c) \in Shown /\ end(c).conversation = c
                       /\ \A e \in Shown : e.conversation = c => e.at <= end(c).at
  <2> SUFFICES ASSUME NEW c \in Talks
               PROVE  /\ end(c) \in Shown /\ end(c).conversation = c
                      /\ \A e \in Shown : e.conversation = c => e.at <= end(c).at
    OBVIOUS
  <2>1. InTalk(c) # {}
    BY DEF Talks, InTalk
  <2> QED BY <2>1, TalkOrdered DEF InTalk
<1> HIDE DEF end
<1>2. ends \in SUBSET Shown
  BY <1>1
<1>3. ends \in SUBSET Recorded /\ IsFiniteSet(ends) /\ \A x, y \in ends : x.at = y.at => x = y
  BY <1>2, FilteredFed, FS_Subset
<1> HIDE DEF ends
<1>4. /\ Reading!Lists(order, ends)
      /\ \A i, j \in DOMAIN order : i < j => order[i].at > order[j].at
  BY <1>3, LatestOnce
<1>5. ShownConversations = [n \in DOMAIN order |-> order[n].conversation]
  BY DEF ShownConversations, ends, end, Talks, Shown
<1> HIDE DEF order
<1>6. /\ f \in [ends -> Talks] /\ \A x, y \in ends : f[x] = f[y] => x = y
      /\ \A c \in Talks : \E x \in ends : f[x] = c
  BY <1>1 DEF ends
<1>7. \A n \in DOMAIN order : order[n] \in ends
  BY <1>4 DEF Reading!Lists
<1>8. ShownConversations = [n \in DOMAIN order |-> f[order[n]]]
  BY <1>5, <1>7
<1> HIDE DEF f
<1>9. Reading!Lists(ShownConversations, Talks)
  BY <1>4, <1>6, <1>8, ListsNames
<1>10. ASSUME FilteredEvents # <<>>
       PROVE  ShownConversations[1] = FilteredEvents[1].conversation
  <2> DEFINE all == FilteredEvents
             e == all[1]
  <2>1. all \in Seq(Recorded) /\ 1 \in DOMAIN all /\ DOMAIN all = 1..Len(all) /\ Len(all) \in Nat
    BY <1>10, FilteredFed DEF AsFed
  <2>2. \A i \in DOMAIN all : i = 1 \/ e.at > all[i].at
    BY <2>1, FilteredFed DEF AsFed
  <2>3. e \in Shown
    BY <2>1 DEF Shown, Range
  <2> DEFINE c == e.conversation
  <2>4. c \in Talks
    BY <2>3 DEF Talks
  <2>5. \A x \in Shown : x.at \in Nat
    BY FilteredFed DEF Recorded
  <2>6. PICK i \in DOMAIN all : all[i] = end(c)
    BY <1>1, <2>4 DEF Shown, Range
  <2>7. e.at <= end(c).at
    BY <1>1, <2>3, <2>4
  <2>8. end(c) \in Shown
    BY <1>1, <2>4
  <2>9. end(c) = e
    BY <2>2, <2>3, <2>5, <2>6, <2>7, <2>8
  <2>10. e \in ends
    BY <2>4, <2>9 DEF ends
  <2>11. Len(order) \in Nat /\ DOMAIN order = 1..Len(order)
    BY <1>4 DEF Reading!Lists
  <2>12. PICK k \in DOMAIN order : order[k] = e
    BY <1>4, <2>10 DEF Reading!Lists
  <2>13. 1 \in DOMAIN order
    BY <2>11, <2>12
  <2>14. order[1] \in Shown
    BY <1>2, <1>7, <2>13
  <2>15. PICK j \in DOMAIN all : all[j] = order[1]
    BY <2>14 DEF Shown, Range
  <2>16. order[1].at <= e.at
    BY <2>2, <2>3, <2>5, <2>14, <2>15
  <2>17. k = 1
    BY <1>4, <2>3, <2>5, <2>11, <2>12, <2>13, <2>14, <2>16
  <2> QED BY <1>5, <2>12, <2>13, <2>17
<1> QED BY <1>9, <1>10

\* Each card is shown once, with its conversation.
LEMMA CardsOnce ==
  ASSUME AsFed(events), NEW c \in Talks
  PROVE  /\ Reading!Lists(ShownCards(c), Cards(c))
         /\ Cards(c) = {CardOf(e) : e \in InTalk(c)}
<1> DEFINE start(d) == CardEvents(d)[1]
           starts == {start(d) : d \in Cards(c)}
           order == LatestFirst(starts)
           f == [e \in starts |-> CardOf(e)]
<1>1. Cards(c) = {CardOf(e) : e \in InTalk(c)}
  <2>1. \A e \in Shown : e.run \in RunsOf[e.conversation] \cup {None}
    BY FilteredFed DEF Recorded
  <2> QED BY <2>1 DEF Cards, CardOf, InTalk, Shown
<1>2. \A d \in Cards(c) : start(d) \in Shown /\ CardOf(start(d)) = d
  <2> SUFFICES ASSUME NEW d \in Cards(c)
               PROVE  start(d) \in Shown /\ CardOf(start(d)) = d
    OBVIOUS
  <2>1. OnCard(d) # {}
    BY <1>1 DEF OnCard, InTalk
  <2> QED BY <2>1, CardOrdered DEF OnCard
<1> HIDE DEF start
<1>3. starts \in SUBSET Shown
  BY <1>2
<1>4. starts \in SUBSET Recorded /\ IsFiniteSet(starts) /\ \A x, y \in starts : x.at = y.at => x = y
  BY <1>3, FilteredFed, FS_Subset
<1> HIDE DEF starts
<1>5. Reading!Lists(order, starts)
  BY <1>4, LatestOnce
<1>6. ShownCards(c) = [n \in DOMAIN order |-> CardOf(order[n])]
  BY DEF ShownCards, starts, start
<1> HIDE DEF order
<1>7. /\ f \in [starts -> Cards(c)] /\ \A x, y \in starts : f[x] = f[y] => x = y
      /\ \A d \in Cards(c) : \E x \in starts : f[x] = d
  BY <1>2 DEF starts
<1>8. \A n \in DOMAIN order : order[n] \in starts
  BY <1>5 DEF Reading!Lists
<1>9. ShownCards(c) = [n \in DOMAIN order |-> f[order[n]]]
  BY <1>6, <1>8
<1> DEFINE t == ShownCards(c)
           D == Cards(c)
<1>10. f \in [starts -> D] /\ t = [n \in DOMAIN order |-> f[order[n]]]
  BY <1>7, <1>9
<1>11. (\A x, y \in starts : f[x] = f[y] => x = y) /\ \A d \in D : \E x \in starts : f[x] = d
  BY <1>7
<1> HIDE DEF f, t, D
<1>12. Reading!Lists(t, D)
  BY <1>5, <1>10, <1>11, ListsNames
<1> QED BY <1>1, <1>12 DEF t, D

\* What the timelines of a conversation hold.
TimelinesOf(c) ==
  LET cards == ShownCards(c)
  IN FlattenSeq([k \in DOMAIN cards |-> filterEventsByView(CardEvents(cards[k]))])

\* The timelines together list each event once.
LEMMA TimelinesOnce ==
  ASSUME AsFed(events), NEW c \in Talks
  PROVE  Reading!Lists(TimelinesOf(c), InView(InTalk(c)))
<1> DEFINE cards == ShownCards(c)
           n == Len(cards)
           ss == [k \in 1..n |-> filterEventsByView(CardEvents(cards[k]))]
           S == [k \in 1..n |-> InView(OnCard(cards[k]))]
           all == UNION {S[k] : k \in 1..n}
<1>1. Reading!Lists(cards, Cards(c)) /\ Cards(c) = {CardOf(e) : e \in InTalk(c)}
  BY CardsOnce
<1>2. n \in Nat /\ DOMAIN cards = 1..n /\ \A k \in 1..n : cards[k] \in Cards(c)
  BY <1>1 DEF Reading!Lists
<1>3. /\ \A d \in Cards(c) : \E k \in 1..n : cards[k] = d
      /\ \A i, k \in 1..n : cards[i] = cards[k] => i = k
  BY <1>1, <1>2 DEF Reading!Lists
<1>4. TimelinesOf(c) = FlattenSeq(ss)
  BY <1>2 DEF TimelinesOf
<1> HIDE DEF cards, n
<1>5. \A k \in 1..n : Reading!Lists(ss[k], S[k])
  BY CardOrdered, ViewLists
<1>6. \A i, k \in 1..n : i # k => S[i] \cap S[k] = {}
  BY <1>3 DEF InView, OnCard
<1>7. ss = [k \in 1..n |-> ss[k]]
  OBVIOUS
<1>8. all = InView(InTalk(c))
  <2>1. ASSUME NEW k \in 1..n, NEW e \in S[k]
        PROVE  e \in InView(InTalk(c))
    <3>1. e \in Shown /\ e.type \in ViewTypes /\ CardOf(e) = cards[k]
      BY <2>1 DEF InView, OnCard
    <3>2. PICK x \in InTalk(c) : cards[k] = CardOf(x)
      BY <1>1, <1>2
    <3>3. e.conversation = c
      BY <3>1, <3>2 DEF CardOf, InTalk
    <3> QED BY <3>1, <3>3 DEF InView, InTalk
  <2>2. ASSUME NEW e \in InView(InTalk(c))
        PROVE  \E k \in 1..n : e \in S[k]
    <3>1. e \in InTalk(c) /\ e \in Shown /\ e.type \in ViewTypes
      BY DEF InView, InTalk
    <3>2. PICK k \in 1..n : cards[k] = CardOf(e)
      BY <1>1, <1>3, <3>1
    <3> QED BY <3>1, <3>2 DEF InView, OnCard
  <2> HIDE DEF S
  <2> QED BY <2>1, <2>2
<1> HIDE DEF ss, S
<1>9. Reading!Lists(Reading!FlattenSeq(ss), all)
  BY <1>2, <1>5, <1>6, <1>7, Reading!FlatLists
<1> QED BY <1>4, <1>8, <1>9, SameArrays

\* What all timelines hold.
LEMMA ListedOnce ==
  ASSUME AsFed(events)
  PROVE  Reading!Lists(Listed, InView(Shown))
<1> DEFINE talks == ShownConversations
           n == Len(talks)
           ss == [k \in 1..n |-> TimelinesOf(talks[k])]
           S == [k \in 1..n |-> InView(InTalk(talks[k]))]
           all == UNION {S[k] : k \in 1..n}
<1>1. Reading!Lists(talks, Talks)
  BY TalksOnce
<1>2. n \in Nat /\ DOMAIN talks = 1..n /\ \A k \in 1..n : talks[k] \in Talks
  BY <1>1 DEF Reading!Lists
<1>3. /\ \A c \in Talks : \E k \in 1..n : talks[k] = c
      /\ \A i, k \in 1..n : talks[i] = talks[k] => i = k
  BY <1>1, <1>2 DEF Reading!Lists
<1>4. Listed = FlattenSeq(ss)
  BY <1>2 DEF Listed, TimelinesOf
<1> HIDE DEF talks, n
<1>5. \A k \in 1..n : Reading!Lists(ss[k], S[k])
  BY <1>2, TimelinesOnce
<1>6. \A i, k \in 1..n : i # k => S[i] \cap S[k] = {}
  BY <1>3 DEF InView, InTalk
<1>7. ss = [k \in 1..n |-> ss[k]]
  OBVIOUS
<1>8. all = InView(Shown)
  <2>1. ASSUME NEW k \in 1..n, NEW e \in S[k]
        PROVE  e \in InView(Shown)
    BY <2>1 DEF InView, InTalk
  <2>2. ASSUME NEW e \in InView(Shown)
        PROVE  \E k \in 1..n : e \in S[k]
    <3>1. e \in Shown /\ e.conversation \in Talks
      BY DEF InView, Talks
    <3>2. PICK k \in 1..n : talks[k] = e.conversation
      BY <1>3, <3>1
    <3> QED BY <3>1, <3>2 DEF InView, InTalk
  <2> HIDE DEF S
  <2> QED BY <2>1, <2>2
<1> HIDE DEF ss, S
<1>9. Reading!Lists(Reading!FlattenSeq(ss), all)
  BY <1>2, <1>5, <1>6, <1>7, Reading!FlatLists
<1> QED BY <1>4, <1>8, <1>9, SameArrays

\* The status of a card is that of its latest event.
LEMMA StatusIsLatest ==
  ASSUME AsFed(events), filter.state = "all", filter.type \in Filter.type,
         NEW i \in DOMAIN events,
         \E e \in Shown : CardOf(e) = CardOf(events[i]),
         \A j \in 1..i - 1 : CardOf(events[j]) # CardOf(events[i])
  PROVE  CardStatus(CardOf(events[i])) = StateOf(events[i])
<1> DEFINE e == events[i]
           wanted(x) == filter.type \in {"all", TypeOf(x)} /\ filter.state \in {"all", StateOf(x)}
           W == {x \in Range(events) : wanted(x)}
<1>1. Shown = W
  <2>1. FilteredEvents = Kept(events, W)
    BY DEF FilteredEvents, filterEvents
  <2>2. W = Range(events) \cap W
    OBVIOUS
  <2> QED BY <2>1, <2>2, KeptAsFed DEF Shown
<1>2. e \in Range(events)
  BY DEF Range
<1>3. PICK x \in Shown : CardOf(x) = CardOf(e)
  OBVIOUS
<1>4. x.conversation = e.conversation
  BY <1>3 DEF CardOf
<1>5. e \in Shown
  BY <1>1, <1>2, <1>3, <1>4 DEF TypeOf
<1>6. e \in OnCard(CardOf(e))
  BY <1>5 DEF OnCard
<1> DEFINE l == Last(CardEvents(CardOf(e)))
<1>7. l \in OnCard(CardOf(e)) /\ e.at <= l.at
  BY <1>6, CardOrdered
<1>8. l \in Shown /\ CardOf(l) = CardOf(e)
  BY <1>7 DEF OnCard
<1> HIDE DEF l, e
<1>9. PICK k \in DOMAIN events : events[k] = l
  BY <1>8, FilteredFed DEF Range
<1>10. DOMAIN events = 1..Len(events) /\ Len(events) \in Nat
       /\ \A j \in DOMAIN events : events[j].at \in Nat
  <2>1. events \in [1..Len(events) -> Recorded] /\ Len(events) \in Nat
    BY DEF AsFed
  <2> QED BY <2>1 DEF Recorded
<1>11. k >= i
  BY <1>8, <1>9, <1>10 DEF e
<1>12. k = i
  <2>1. i < k => events[i].at > events[k].at
    BY DEF AsFed
  <2>2. events[i].at <= events[k].at
    BY <1>7, <1>9 DEF e
  <2> QED BY <1>10, <1>11, <2>1, <2>2
<1> QED BY <1>9, <1>12 DEF CardStatus, l, e

\* What the page lists, in any view and under any filter.
LEMMA EventsShown ==
  ASSUME AsFed(events), filter.type \in Filter.type
  PROVE  EventsAreShownOnce
<1>1. Reading!Lists(Listed, InView(Shown))
  BY ListedOnce
<1> DEFINE kept == filterEventsByView(FilteredEvents)
<1>2. Reading!Lists(kept, InView(Shown))
  BY FilteredFed, FedOnce, ViewLists DEF Shown
<1>3. Range(kept) = Range(Listed) /\ Len(Listed) = Counted
  BY <1>1, <1>2, Reading!ListsAll, SameArrays DEF Counted
<1> HIDE DEF kept
<1>4. FilteredEvents # <<>> => ShownConversations[1] = FilteredEvents[1].conversation
  BY TalksOnce
<1>5. filter.state = "all" =>
        \A i \in DOMAIN events :
          (/\ \E e \in Shown : CardOf(e) = CardOf(events[i])
           /\ \A j \in 1..i - 1 : CardOf(events[j]) # CardOf(events[i]))
          => CardStatus(CardOf(events[i])) = StateOf(events[i])
  BY StatusIsLatest
<1> QED BY <1>3, <1>4, <1>5 DEF EventsAreShownOnce, kept, Shown

-----------------------------------------------------------------------------
\* What the feed held at some time.
IsFeed(q) == \E n \in 0..Len(log) : q = [i \in 1..n |-> log[n + 1 - i]]

\* The log has its events in order, the page a feed of some time, as has each
\* answer.
FeedInv ==
  /\ log \in Seq(Recorded) /\ Len(log) <= MaxEvents
  /\ \A i \in DOMAIN log : log[i].at = i
  /\ IsFeed(events)
  /\ \A s \in Slots : calls[s].kind = "feed" /\ calls[s].state = "answered" => IsFeed(calls[s].data)
  /\ filter \in [type : Filter.type, state : Filter.state] /\ viewed \in Views

\* What this says of the page.
LEMMA FeedShows ==
  ASSUME FeedInv
  PROVE  EventsTypeOK /\ EventsAreShownOnce
<1>1. PICK n \in 0..Len(log) : events = [i \in 1..n |-> log[n + 1 - i]]
  BY DEF FeedInv, IsFeed
<1>2. /\ log \in [1..Len(log) -> Recorded] /\ Len(log) \in Nat /\ DOMAIN log = 1..Len(log)
      /\ \A i \in DOMAIN log : log[i].at = i
  BY DEF FeedInv
<1>3. n \in Nat /\ DOMAIN events = 1..n /\ Len(events) = n
      /\ \A i \in 1..n : n + 1 - i \in 1..Len(log) /\ events[i] = log[n + 1 - i]
  BY <1>1, <1>2
<1>4. events \in Seq(Recorded)
  <2>1. \A i \in 1..n : events[i] \in Recorded
    BY <1>2, <1>3
  <2>2. events = [i \in 1..n |-> events[i]]
    BY <1>1
  <2>3. events \in [1..n -> Recorded]
    BY <2>1, <2>2
  <2> QED BY <1>3, <2>3, SeqDef
<1>5. \A i \in 1..n : events[i].at = n + 1 - i
  BY <1>2, <1>3
<1>6. \A i, j \in 1..n : i < j => events[i].at > events[j].at
  BY <1>3, <1>5
<1>7. AsFed(events)
  BY <1>3, <1>4, <1>6 DEF AsFed
<1>8. filter.type \in Filter.type /\ filter.state \in Filter.state
  BY DEF FeedInv
<1>9. Len(events) <= Len(log)
  BY <1>2, <1>3
<1> QED BY <1>7, <1>8, <1>9, EventsShown DEF FeedInv, EventsTypeOK

\* The page begins with no events and nothing answered.
LEMMA FeedBegins == EventsInit /\ calls = [s \in Slots |-> calls[s]]
                     /\ (\A s \in Slots : calls[s].state # "answered") => FeedInv
<1> SUFFICES ASSUME EventsInit, \A s \in Slots : calls[s].state # "answered"
             PROVE  FeedInv
  OBVIOUS
<1>1. log = <<>> /\ events = <<>> /\ viewed \in Views /\ filter = [type |-> "all", state |-> "all"]
  BY DEF EventsInit
<1>2. log \in Seq(Recorded) /\ Len(log) = 0 /\ DOMAIN log = {}
  BY <1>1
<1>3. IsFeed(events)
  <2>1. 0 \in 0..Len(log)
    BY <1>2
  <2>2. events = [i \in 1..0 |-> log[0 + 1 - i]]
    BY <1>1
  <2> QED BY <2>1, <2>2 DEF IsFeed
<1>4. Len(log) <= MaxEvents
  BY <1>2, EventViewsAssumption
<1>5. filter \in [type : Filter.type, state : Filter.state]
  BY <1>1 DEF Filter
<1> QED BY <1>1, <1>2, <1>3, <1>4, <1>5 DEF FeedInv

\* A feed of before is one of now.
LEMMA FeedStays ==
  ASSUME FeedInv, NEW e, log' = Append(log, e), NEW q, IsFeed(q)
  PROVE  IsFeed(q)'
<1>1. PICK n \in 0..Len(log) : q = [i \in 1..n |-> log[n + 1 - i]]
  BY DEF IsFeed
<1>2. Len(log) \in Nat /\ Len(log') = Len(log) + 1
      /\ \A i \in 1..Len(log) : log'[i] = log[i]
  BY DEF FeedInv
<1>3. n \in 0..Len(log') /\ \A i \in 1..n : n + 1 - i \in 1..Len(log)
  BY <1>2
<1>4. q = [i \in 1..n |-> log'[n + 1 - i]]
  BY <1>1, <1>2, <1>3
<1> QED BY <1>3, <1>4 DEF IsFeed

\* Where the log stays, so does what a feed is.
LEMMA FeedKept ==
  ASSUME FeedInv, log' = log, IsFeed(events'), filter' \in [type : Filter.type, state : Filter.state],
         viewed' \in Views,
         \A s \in Slots : calls'[s].kind = "feed" /\ calls'[s].state = "answered"
                           => IsFeed(calls'[s].data)
  PROVE  FeedInv'
<1>1. IsFeed(events)'
  BY DEF IsFeed
<1>2. ASSUME NEW s \in Slots, calls'[s].kind = "feed", calls'[s].state = "answered"
      PROVE  IsFeed(calls[s].data)'
  <2>1. PICK n \in 0..Len(log) : calls'[s].data = [i \in 1..n |-> log[n + 1 - i]]
    BY <1>2 DEF IsFeed
  <2> QED BY <2>1 DEF IsFeed
<1>3. log' \in Seq(Recorded) /\ Len(log') <= MaxEvents /\ \A i \in DOMAIN log' : log'[i].at = i
  BY DEF FeedInv
<1> QED BY <1>1, <1>2, <1>3 DEF FeedInv

\* A step in which nothing happens on the page.
LEMMA FeedRests ==
  ASSUME FeedInv, UNCHANGED calls, UNCHANGED eventVars
  PROVE  FeedInv'
BY FeedKept DEF FeedInv, eventVars

\* Every step of the page keeps it.
LEMMA FeedStep ==
  ASSUME CallsOK, FeedInv, EventsNext
  PROVE  FeedInv'
<1>1. ASSUME UNCHANGED <<log, events, filter, viewed>>,
             \A s \in Slots : calls'[s].kind = "feed" /\ calls'[s].state = "answered"
                               => IsFeed(calls'[s].data)
      PROVE  FeedInv'
  BY <1>1, FeedKept DEF FeedInv
<1>2. CASE ReadEvents
  <2>1. Make("feed", None) /\ UNCHANGED <<log, events, filter, viewed>>
    BY <1>2 DEF ReadEvents
  <2>2. PICK s \in Slots : calls'[s].state = "asked" /\ \A t \in Slots \ {s} : calls'[t] = calls[t]
    BY <2>1, Made
  <2> QED BY <1>1, <2>1, <2>2 DEF FeedInv
<1>3. ASSUME NEW s \in Slots, ServeEvents(s)
      PROVE  FeedInv'
  <2>1. Answer(s, Reverse(log)) /\ calls[s].kind = "feed" /\ UNCHANGED <<log, events, filter, viewed>>
    BY <1>3 DEF ServeEvents, Waits, eventVars
  <2>2. calls'[s].data = Reverse(log) /\ \A t \in Slots \ {s} : calls'[t] = calls[t]
    BY <2>1, AnswerGiven
  <2>3. IsFeed(Reverse(log))
    <3>1. Len(log) \in Nat
      BY DEF FeedInv
    <3>2. Reverse(log) = [i \in 1..Len(log) |-> log[Len(log) + 1 - i]]
      <4>1. \A i \in 1..Len(log) : Len(log) - i + 1 = Len(log) + 1 - i
        BY <3>1
      <4> QED BY <4>1 DEF Reverse
    <3>3. Len(log) \in 0..Len(log)
      BY <3>1
    <3> QED BY <3>2, <3>3 DEF IsFeed
  <2>4. \A t \in Slots : calls'[t].kind = "feed" /\ calls'[t].state = "answered"
                           => IsFeed(calls'[t].data)
    BY <2>2, <2>3 DEF FeedInv
  <2> QED BY <1>1, <2>1, <2>4
<1>4. ASSUME NEW s \in Slots, LoseEvents(s)
      PROVE  FeedInv'
  <2>1. Lose(s) /\ UNCHANGED <<log, events, filter, viewed>>
    BY <1>4 DEF LoseEvents, eventVars
  <2>2. calls'[s].state = "failed" /\ \A t \in Slots \ {s} : calls'[t] = calls[t]
    BY <2>1, Lost
  <2> QED BY <1>1, <2>1, <2>2 DEF FeedInv
<1>5. ASSUME NEW s \in Slots, TakeEvents(s)
      PROVE  FeedInv'
  <2>1. /\ Turn(s, Free) /\ calls[s].kind = "feed" /\ UNCHANGED <<log, filter, viewed>>
        /\ events' = IF calls[s].state = "answered" THEN calls[s].data ELSE events
    BY <1>5 DEF TakeEvents, Settles, Succeeded
  <2>2. calls'[s].kind = "free" /\ \A t \in Slots \ {s} : calls'[t] = calls[t]
    BY <2>1, Freed, NewCalls
  <2>3. IsFeed(events')
    BY <2>1 DEF FeedInv
  <2>4. \A t \in Slots : calls'[t].kind = "feed" /\ calls'[t].state = "answered"
                           => IsFeed(calls'[t].data)
    BY <2>2 DEF FeedInv
  <2> QED BY <2>1, <2>3, <2>4, FeedKept DEF FeedInv
<1>6. ASSUME NEW c \in Conversations, NEW r \in RunsOf[c] \cup {None}, NEW type \in EventTypes,
             Emit(c, r, type)
      PROVE  FeedInv'
  <2> DEFINE e == [conversation |-> c, run |-> r, type |-> type, at |-> Len(log) + 1]
  <2>1. /\ log' = Append(log, e) /\ Len(log) < MaxEvents
        /\ UNCHANGED <<calls, events, filter, viewed>>
    BY <1>6 DEF Emit
  <2>2. Len(log) \in Nat /\ log \in Seq(Recorded) /\ MaxEvents \in Nat
    BY EventViewsAssumption DEF FeedInv
  <2>3. e \in Recorded /\ e.at = Len(log) + 1
    <3>1. r \in AnyRun
      BY DEF AnyRun
    <3> QED BY <2>2, <3>1 DEF Recorded
  <2> HIDE DEF e
  <2>4. log' \in Seq(Recorded) /\ Len(log') = Len(log) + 1 /\ log'[Len(log) + 1] = e
        /\ \A i \in 1..Len(log) : log'[i] = log[i]
    BY <2>1, <2>2, <2>3
  <2>5. \A i \in DOMAIN log' : log'[i].at = i
    <3>1. \A i \in 1..Len(log) : log[i].at = i
      BY <2>2 DEF FeedInv
    <3>2. DOMAIN log' = 1..(Len(log) + 1)
      BY <2>2, <2>4
    <3>3. \A i \in 1..(Len(log) + 1) : i = Len(log) + 1 \/ i \in 1..Len(log)
      BY <2>2
    <3> QED BY <2>3, <2>4, <3>1, <3>2, <3>3
  <2>6. \A q : IsFeed(q) => IsFeed(q)'
    BY <2>1, FeedStays
  <2>7. Len(log') <= MaxEvents
    BY <2>1, <2>2, <2>4
  <2>8. IsFeed(events)'
    BY <2>1, <2>6 DEF FeedInv
  <2>9. \A s \in Slots : calls'[s].kind = "feed" /\ calls'[s].state = "answered"
                           => IsFeed(calls[s].data)'
    BY <2>1, <2>6 DEF FeedInv
  <2> QED BY <2>1, <2>4, <2>5, <2>7, <2>8, <2>9 DEF FeedInv
<1>7. ASSUME NEW field \in DOMAIN Filter, NEW wanted \in Filter[field], FilterBy(field, wanted)
      PROVE  FeedInv'
  <2>1. UNCHANGED <<calls, log, events, viewed>> /\ filter' = [filter EXCEPT ![field] = wanted]
    BY <1>7 DEF FilterBy
  <2>2. filter' \in [type : Filter.type, state : Filter.state]
    BY <2>1 DEF FeedInv, Filter
  <2> QED BY <2>1, <2>2, FeedKept DEF FeedInv
<1>8. ASSUME NEW v \in Views, View(v)
      PROVE  FeedInv'
  BY <1>8, FeedKept DEF View, FeedInv
<1> QED BY <1>2, <1>3, <1>4, <1>5, <1>6, <1>7, <1>8 DEF EventsNext

-----------------------------------------------------------------------------
(***************************************************************************)
(* The page of the connection tests.                                       *)
(***************************************************************************)
IsTest(s, t) == calls[s].kind = "test" /\ calls[s].arg = t

\* A card waits for one answer, which is that of its last test.
TestsInv ==
  /\ CallsOK /\ ConnectionTestsTypeOK
  /\ \A s \in Slots : calls[s].kind = "test" => calls[s].arg \in Targets
  /\ \A t \in Targets : testing[t] <=> \E s \in Slots : IsTest(s, t)
  /\ \A t \in Targets : \A r, s \in Slots : IsTest(r, t) /\ IsTest(s, t) => r = s
  /\ \A s \in Slots : calls[s].kind = "test" /\ calls[s].state = "answered"
                        => calls[s].data = tests[calls[s].arg]
  /\ TestsAreAnswered

LEMMA TestsStep ==
  ASSUME TestsInv, ConnectionTestsNext
  PROVE  TestsInv'
<1> DEFINE Goal == TestsInv'
<1> SUFFICES Goal
  OBVIOUS
<1>0. CallsOK
  BY DEF TestsInv
<1>1. ASSUME NEW t \in Targets, Run(t)
      PROVE  Goal
  <2>1. Make("test", t)
    BY <1>1 DEF Run
  <2>2. PICK s \in Slots :
          /\ calls[s].kind = "free" /\ calls'[s].kind = "test" /\ calls'[s].arg = t
          /\ calls'[s].state = "asked" /\ \A r \in Slots \ {s} : calls'[r] = calls[r]
    BY <1>0, <2>1, Made
  <2>3. CallsOK'
    BY <1>0, <2>1, Made
  <2>4. ConnectionTestsTypeOK'
    BY <1>1, ConnectionTestsAssumption DEF Run, TestsInv, ConnectionTestsTypeOK
  <2>5. TestsAreAnswered'
    BY <1>1 DEF Run, TestsInv, ConnectionTestsTypeOK, TestsAreAnswered
  <2>6. \A u \in Targets : /\ testing'[u] <=> (testing[u] \/ u = t)
                           /\ u # t => tests'[u] = tests[u]
    BY <1>1 DEF Run, TestsInv, ConnectionTestsTypeOK
  <2>7. ~testing[t]
    BY <1>1 DEF Run
  <2>8. \A r \in Slots : ~IsTest(r, t)
    BY <2>7 DEF TestsInv
  <2>9. \A u \in Targets : testing'[u] <=> \E r \in Slots : IsTest(r, u)'
    BY <2>2, <2>6, <2>8 DEF TestsInv, IsTest
  <2>10. \A u \in Targets : \A q, r \in Slots : IsTest(q, u)' /\ IsTest(r, u)' => q = r
    BY <2>2, <2>8 DEF TestsInv, IsTest
  <2>11. \A r \in Slots : calls'[r].kind = "test" /\ calls'[r].state = "answered"
                        => calls'[r].data = tests'[calls'[r].arg]
    BY <2>2, <2>6, <2>8 DEF TestsInv, IsTest
  <2> QED BY <2>2, <2>3, <2>4, <2>5, <2>9, <2>10, <2>11 DEF TestsInv
<1>2. ASSUME NEW s \in Slots, ServeTest(s)
      PROVE  Goal
  <2>1. /\ calls[s].kind = "test" /\ Answer(s, tests[calls[s].arg])
        /\ UNCHANGED <<tests, results, testing, errors>>
    BY <1>2 DEF ServeTest, Waits, testVars
  <2>2. /\ CallsOK' /\ calls'[s].kind = "test" /\ calls'[s].arg = calls[s].arg
        /\ calls'[s].data = tests[calls[s].arg]
        /\ \A t \in Slots \ {s} : calls'[t] = calls[t]
    BY <1>0, <2>1, AnswerGiven
  <2> QED BY <2>1, <2>2 DEF TestsInv, ConnectionTestsTypeOK, TestsAreAnswered, IsTest
<1>3. ASSUME NEW s \in Slots, LoseTest(s)
      PROVE  Goal
  <2>1. calls[s].kind = "test" /\ Lose(s) /\ UNCHANGED <<tests, results, testing, errors>>
    BY <1>3 DEF LoseTest, testVars
  <2>2. /\ CallsOK' /\ calls'[s].kind = "test" /\ calls'[s].arg = calls[s].arg
        /\ calls'[s].state = "failed"
        /\ \A t \in Slots \ {s} : calls'[t] = calls[t]
    BY <1>0, <2>1, Lost
  <2> QED BY <2>1, <2>2 DEF TestsInv, ConnectionTestsTypeOK, TestsAreAnswered, IsTest
<1>4. ASSUME NEW s \in Slots, TakeResult(s)
      PROVE  Goal
  <2> DEFINE t == calls[s].arg
  <2>1. /\ calls[s].kind = "test" /\ Turn(s, Free) /\ tests' = tests
        /\ testing' = [testing EXCEPT ![t] = FALSE]
        /\ errors' = [errors EXCEPT ![t] = ~(calls[s].state = "answered")]
        /\ results' = IF calls[s].state = "answered"
                      THEN [results EXCEPT ![t] = calls[s].data] ELSE results
    BY <1>4 DEF TakeResult, TargetOf, Settles, Succeeded
  <2>2. /\ CallsOK' /\ calls'[s].kind = "free"
        /\ \A r \in Slots \ {s} : calls'[r] = calls[r]
    BY <1>0, <2>1, Freed, NewCalls
  <2>3. t \in Targets /\ (calls[s].state = "answered" => calls[s].data = tests[t])
    BY <2>1 DEF TestsInv
  <2> HIDE DEF t
  <2>4. ConnectionTestsTypeOK' /\ TestsAreAnswered'
    BY <2>1, <2>3 DEF TestsInv, ConnectionTestsTypeOK, TestsAreAnswered
  <2>5. \A u \in Targets : testing'[u] <=> (testing[u] /\ u # t)
    BY <2>1, <2>3 DEF TestsInv, ConnectionTestsTypeOK
  <2>6. IsTest(s, t)
    BY <2>1 DEF IsTest, t
  <2>7. \A u \in Targets : testing'[u] <=> \E r \in Slots : IsTest(r, u)'
    BY <2>2, <2>5, <2>6 DEF TestsInv, IsTest
  <2> QED BY <2>1, <2>2, <2>4, <2>7 DEF TestsInv, IsTest
<1> HIDE DEF Goal
<1> QED BY <1>1, <1>2, <1>3, <1>4 DEF ConnectionTestsNext

-----------------------------------------------------------------------------
(***************************************************************************)
(* The task explorer.                                                      *)
(***************************************************************************)

\* What was read of a Run: that it has ended stays true.
IsRead(run, what) ==
  /\ what = [run |-> run, working |-> what.working] /\ what.working \in BOOLEAN
  /\ ~what.working => run \notin working

IsRefresh(s) == calls[s].kind \in {"list", "run"}

TaskCalls ==
  \A s \in Slots : calls[s].kind # "free" =>
    /\ calls[s].kind \in {"list", "run", "poll"}
    /\ calls[s].arg \in 0..started
    /\ calls[s].state = "answered" =>
         IF calls[s].kind = "list" THEN calls[s].data \in 0..started
         ELSE IsRead(calls[s].arg, calls[s].data)

\* Unless Runs were selected across a read, all that is on its way is about the
\* Run of the address, and that Run is shown unless a refresh is still to come.
SelectedInv ==
  ~crossed =>
    /\ \A s \in Slots : calls[s].kind # "free" => calls[s].arg = selected
    /\ selected # NoRun /\ ~broken /\ (\A s \in Slots : ~IsRefresh(s))
         => shown.run = selected

TasksInv ==
  /\ CallsOK /\ TasksTypeOK /\ TaskCalls
  /\ IsRead(shown.run, shown)
  /\ TasksSpinnersEnd /\ SelectedInv

\* Nothing that was read becomes wrong when Runs start and end.
LEMMA ReadsStay ==
  ASSUME TasksTypeOK, NEW run \in 0..started, NEW what, IsRead(run, what),
         \/ \E r : working' = working \ {r}
         \/ working' = working \cup {started + 1}
         \/ working' = working
  PROVE  IsRead(run, what)'
BY TasksAssumption DEF TasksTypeOK, IsRead

\* The steps of the backend's Runs.
LEMMA RunsMove ==
  ASSUME TasksInv, Start \/ \E r \in Runs : End(r)
  PROVE  TasksInv'
<1>1. /\ UNCHANGED <<calls, latest, selected, shown, reading, broken, crossed>>
      /\ started' \in {started, started + 1} /\ started' \in 0..MaxRuns
      /\ \/ \E r : working' = working \ {r} /\ started' = started
         \/ working' = working \cup {started + 1} /\ started' = started + 1
  BY TasksAssumption DEF Start, End, explorer, TasksInv, TasksTypeOK
<1>2. TasksTypeOK'
  <2>1. /\ started \in Nat /\ started' \in 0..MaxRuns /\ started' >= started
        /\ 0..started \subseteq 0..started' /\ 1..started \subseteq 1..started'
    BY <1>1, TasksAssumption DEF TasksInv, TasksTypeOK
  <2>2. working' \subseteq 1..started'
    <3>1. working \subseteq 1..started'
      BY <2>1 DEF TasksInv, TasksTypeOK
    <3>2. started' = started + 1 => started + 1 \in 1..started'
      BY <2>1
    <3> QED BY <1>1, <3>1, <3>2
  <2>3. shown \in [run : 0..started', working : BOOLEAN]
    BY <2>1 DEF TasksInv, TasksTypeOK
  <2> QED BY <1>1, <2>1, <2>2, <2>3 DEF TasksInv, TasksTypeOK
<1>3. shown.run \in 0..started /\ IsRead(shown.run, shown)'
  BY <1>1, ReadsStay DEF TasksInv, TasksTypeOK
<1>4. TaskCalls'
  <2> SUFFICES ASSUME NEW s \in Slots, calls[s].kind # "free"
               PROVE  /\ calls[s].kind \in {"list", "run", "poll"}
                      /\ calls[s].arg \in 0..started'
                      /\ calls[s].state = "answered" =>
                           IF calls[s].kind = "list" THEN calls[s].data \in 0..started'
                           ELSE IsRead(calls[s].arg, calls[s].data)'
    BY <1>1 DEF TaskCalls, IsRead
  <2>1. /\ calls[s].kind \in {"list", "run", "poll"} /\ calls[s].arg \in 0..started
        /\ calls[s].state = "answered" =>
             IF calls[s].kind = "list" THEN calls[s].data \in 0..started
             ELSE IsRead(calls[s].arg, calls[s].data)
    BY DEF TasksInv, TaskCalls
  <2>2. 0..started \subseteq 0..started'
    BY <1>1, TasksAssumption DEF TasksInv, TasksTypeOK
  <2>3. ASSUME calls[s].kind # "list", calls[s].state = "answered"
        PROVE  IsRead(calls[s].arg, calls[s].data)'
    BY <1>1, <2>1, <2>3, ReadsStay DEF TasksInv, IsRead
  <2> QED BY <2>1, <2>2, <2>3
<1> QED BY <1>1, <1>2, <1>3, <1>4 DEF TasksInv, CallsOK, TasksSpinnersEnd, Flying, OnTheirWay,
                                      SelectedInv, IsRefresh, IsRead

\* A change of the address: its Run is being read.
LEMMA RunSelected ==
  ASSUME TasksInv, NEW s \in Slots, NEW run \in 0..started, Select(s, run),
         latest' \in 0..started, UNCHANGED <<started, working, shown>>
  PROVE  TasksInv'
<1>0. CallsOK
  BY DEF TasksInv
<1>1. /\ selected' = run /\ broken' = FALSE /\ Turn(s, Asked("list", run))
      /\ ~crossed' => \A t \in Slots \ {s} : calls[t] = Free \/ calls[t].kind = "free"
                                             \/ calls[t].arg = run
  BY DEF Select, Refresh, Others
<1>2. /\ CallsOK' /\ calls'[s].kind = "list" /\ calls'[s].arg = run /\ calls'[s].state = "asked"
      /\ \A t \in Slots \ {s} : calls'[t] = calls[t]
  BY <1>0, <1>1, GoesOn
<1>3. TasksTypeOK' /\ IsRead(shown.run, shown)'
  BY <1>1 DEF TasksInv, TasksTypeOK, IsRead
<1>4. TaskCalls'
  BY <1>2 DEF TasksInv, TaskCalls, IsRead
<1>5. TasksSpinnersEnd'
  BY <1>2 DEF TasksSpinnersEnd, Flying, OnTheirWay
<1>6. SelectedInv'
  BY <1>1, <1>2, NewCalls DEF SelectedInv, IsRefresh
<1> QED BY <1>2, <1>3, <1>4, <1>5, <1>6 DEF TasksInv

\* A refresh that ends has shown the Run it was about, or an error.
LEMMA RefreshEnded ==
  ASSUME TasksInv, NEW s \in Slots, RefreshEnds(s), IsRefresh(s),
         latest' \in 0..started, UNCHANGED <<started, working, selected>>,
         shown' \in [run : 0..started, working : BOOLEAN], IsRead(shown'.run, shown'),
         ~crossed /\ selected # NoRun /\ Succeeded(s) => shown'.run = selected
  PROVE  TasksInv'
<1>1. /\ Turn(s, Free) /\ reading' = FALSE /\ crossed' = crossed
      /\ ~broken' => ~broken /\ Succeeded(s)
  BY DEF RefreshEnds
<1>2. /\ CallsOK' /\ calls'[s].kind = "free"
      /\ \A t \in Slots \ {s} : calls'[t] = calls[t]
  BY <1>1, Freed, NewCalls DEF TasksInv
<1>3. TasksTypeOK' /\ IsRead(shown.run, shown)'
  BY DEF TasksInv, TasksTypeOK, IsRead
<1>4. TaskCalls'
  BY <1>2 DEF TasksInv, TaskCalls, IsRead
<1>5. SelectedInv'
  BY <1>1, <1>2 DEF TasksInv, SelectedInv
<1> QED BY <1>1, <1>2, <1>3, <1>4, <1>5 DEF TasksInv, TasksSpinnersEnd

\* The steps of the page's own that begin a request.
LEMMA TasksAsk ==
  ASSUME TasksInv, RefreshAgain \/ Poll \/ \E r \in 0..MaxRuns : Choose(r)
  PROVE  TasksInv'
<1>1. CASE RefreshAgain
  <2>1. PICK s \in Slots : Select(s, selected)
    BY <1>1 DEF RefreshAgain
  <2>2. /\ selected \in 0..started /\ latest' \in 0..started
        /\ UNCHANGED <<started, working, shown>>
    BY <1>1 DEF RefreshAgain, TasksInv, TasksTypeOK
  <2> QED BY <2>1, <2>2, RunSelected
<1>2. CASE \E r \in 0..MaxRuns : Choose(r)
  <2>1. PICK r \in 0..MaxRuns, s \in Slots : Select(s, r) /\ Choose(r)
    BY <1>2 DEF Choose
  <2>2. r \in 0..started /\ latest' \in 0..started /\ UNCHANGED <<started, working, shown>>
    BY <2>1, TasksAssumption DEF Choose, TasksInv, TasksTypeOK, NoRun
  <2> QED BY <2>1, <2>2, RunSelected
<1>3. CASE Poll
  <2>1. /\ Make("poll", selected)
        /\ UNCHANGED <<started, working, latest, selected, shown, reading, broken, crossed>>
    BY <1>3 DEF Poll, Polled, tasksVars
  <2>2. CallsOK'
    BY <2>1, Made DEF TasksInv
  <2>3. PICK s \in Slots :
          /\ calls[s].kind = "free" /\ calls'[s].kind = "poll" /\ calls'[s].arg = selected
          /\ calls'[s].state = "asked" /\ \A t \in Slots \ {s} : calls'[t] = calls[t]
    BY <2>1, Made DEF TasksInv
  <2>4. TaskCalls'
    BY <2>1, <2>3 DEF TasksInv, TasksTypeOK, TaskCalls, IsRead
  <2>5. SelectedInv'
    BY <2>1, <2>3 DEF TasksInv, SelectedInv, IsRefresh
  <2>6. TasksSpinnersEnd'
    BY <2>1, <2>3 DEF TasksInv, TasksSpinnersEnd, Flying, OnTheirWay
  <2> QED BY <2>1, <2>2, <2>4, <2>5, <2>6 DEF TasksInv, TasksTypeOK, IsRead
<1> QED BY <1>1, <1>2, <1>3

\* The backend answers, or an answer is lost.
LEMMA TasksServed ==
  ASSUME TasksInv, NEW s \in Slots, ServeTasks(s) \/ LoseTasks(s)
  PROVE  TasksInv'
<1>1. UNCHANGED <<started, working, latest, selected, shown, reading, broken, crossed>>
  BY DEF ServeTasks, LoseTasks, tasksVars
<1>2. ASSUME CallsOK', calls'[s].kind = calls[s].kind, calls'[s].arg = calls[s].arg,
             \A t \in Slots \ {s} : calls'[t] = calls[t],
             calls[s].kind # "free" /\ calls'[s].state = "answered" =>
               IF calls[s].kind = "list" THEN calls'[s].data \in 0..started
               ELSE IsRead(calls[s].arg, calls'[s].data)
      PROVE  TasksInv'
  <2>1. TaskCalls'
    BY <1>1, <1>2 DEF TasksInv, TaskCalls, IsRead
  <2>2. SelectedInv' /\ TasksSpinnersEnd'
    BY <1>1, <1>2 DEF TasksInv, SelectedInv, IsRefresh, TasksSpinnersEnd, Flying, OnTheirWay
  <2> QED BY <1>1, <1>2, <2>1, <2>2 DEF TasksInv, TasksTypeOK, IsRead
<1>3. CASE LoseTasks(s)
  BY <1>2, <1>3, Lost DEF LoseTasks, TasksInv
<1>4. CASE Waits(s, "list") /\ Answer(s, started)
  <2>1. calls[s].kind = "list" /\ started \in 0..started
    BY <1>4, TasksAssumption DEF Waits, TasksInv, TasksTypeOK
  <2>2. /\ CallsOK' /\ calls'[s].kind = calls[s].kind /\ calls'[s].arg = calls[s].arg
        /\ calls'[s].data = started /\ \A t \in Slots \ {s} : calls'[t] = calls[t]
    BY <1>4, <2>1, AnswerGiven DEF TasksInv
  <2> QED BY <1>2, <2>1, <2>2
<1>5. CASE /\ calls[s].kind \in {"run", "poll"}
           /\ Answer(s, [run |-> calls[s].arg, working |-> calls[s].arg \in working])
  <2> DEFINE d == [run |-> calls[s].arg, working |-> calls[s].arg \in working]
  <2>1. IsRead(calls[s].arg, d)
    <3>1. CASE calls[s].arg \in working
      <4>1. d = [run |-> calls[s].arg, working |-> TRUE]
        BY <3>1
      <4> HIDE DEF d
      <4> QED BY <4>1 DEF IsRead
    <3>2. CASE calls[s].arg \notin working
      <4>0. (calls[s].arg \in working) = FALSE
        BY <3>2
      <4>1. d = [run |-> calls[s].arg, working |-> FALSE]
        BY <4>0, Zenon
      <4> HIDE DEF d
      <4> QED BY <3>2, <4>1 DEF IsRead
    <3> QED BY <3>1, <3>2
  <2>2. calls[s].kind # "free" /\ Answer(s, d)
    BY <1>5
  <2> HIDE DEF d
  <2>3. /\ CallsOK' /\ calls'[s].kind = calls[s].kind /\ calls'[s].arg = calls[s].arg
        /\ calls'[s].data = d /\ \A t \in Slots \ {s} : calls'[t] = calls[t]
    BY <2>2, AnswerGiven DEF TasksInv
  <2> QED BY <1>2, <1>5, <2>1, <2>3
<1> QED BY <1>3, <1>4, <1>5 DEF ServeTasks

\* The page takes an answer.
LEMMA TasksTaken ==
  ASSUME TasksInv, NEW s \in Slots, TakeRuns(s) \/ TakeRun(s) \/ TakePoll(s)
  PROVE  TasksInv'
<1>0. CallsOK
  BY DEF TasksInv
<1>1. CASE TakeRuns(s)
  <2> DEFINE had == calls[s].arg
             first == calls[s].data
  <2>1. calls[s].kind = "list" /\ UNCHANGED <<started, working, shown>>
    BY <1>1 DEF TakeRuns, Settles
  <2>2. /\ had \in 0..started /\ (Succeeded(s) => first \in 0..started)
        /\ latest' \in 0..started
    BY <1>1, <2>1 DEF TakeRuns, Succeeded, TasksInv, TaskCalls, TasksTypeOK
  <2>3. /\ shown' \in [run : 0..started, working : BOOLEAN] /\ IsRead(shown'.run, shown')
        /\ IsRefresh(s)
    BY <2>1 DEF TasksInv, TasksTypeOK, IsRefresh
  <2>4. CASE ~Succeeded(s)
    <3>1. RefreshEnds(s) /\ selected' = selected
      BY <1>1, <2>4 DEF TakeRuns
    <3> QED BY <2>1, <2>2, <2>3, <2>4, <3>1, RefreshEnded
  <2>5. CASE Succeeded(s) /\ had # NoRun
    <3>1. /\ Turn(s, Asked("run", had))
          /\ UNCHANGED <<selected, reading, broken, crossed>>
      BY <1>1, <2>5 DEF TakeRuns
    <3>2. /\ CallsOK' /\ calls'[s].kind = "run" /\ calls'[s].arg = had
          /\ calls'[s].state = "asked" /\ \A t \in Slots \ {s} : calls'[t] = calls[t]
      BY <1>0, <3>1, GoesOn
    <3>3. TaskCalls'
      BY <2>1, <2>2, <3>2 DEF TasksInv, TaskCalls, IsRead
    <3>4. SelectedInv' /\ TasksSpinnersEnd'
      BY <2>1, <3>1, <3>2 DEF TasksInv, SelectedInv, IsRefresh, TasksSpinnersEnd, Flying, OnTheirWay
    <3> QED BY <2>1, <2>2, <2>3, <3>1, <3>2, <3>3, <3>4 DEF TasksInv, TasksTypeOK, IsRead
  <2>6. CASE Succeeded(s) /\ had = NoRun /\ first \in {NoRun, selected}
    <3>1. RefreshEnds(s) /\ selected' = selected
      BY <1>1, <2>6 DEF TakeRuns
    <3>2. ~crossed => selected = NoRun
      BY <2>1, <2>6 DEF TasksInv, SelectedInv
    <3> QED BY <2>1, <2>2, <2>3, <3>1, <3>2, RefreshEnded
  <2>7. CASE Succeeded(s) /\ had = NoRun /\ first \notin {NoRun, selected}
    <3>1. Select(s, first)
      BY <1>1, <2>7 DEF TakeRuns
    <3> QED BY <2>1, <2>2, <2>7, <3>1, RunSelected
  <2> QED BY <2>4, <2>5, <2>6, <2>7
<1>2. ASSUME Settles(s, "run") \/ Settles(s, "poll"),
             shown' = IF Succeeded(s) THEN calls[s].data ELSE shown, UNCHANGED <<started, working>>
      PROVE  /\ shown' \in [run : 0..started, working : BOOLEAN] /\ IsRead(shown'.run, shown')
             /\ IF Succeeded(s) THEN shown'.run = calls[s].arg ELSE shown' = shown
  <2>1. CASE Succeeded(s)
    <3>1. IsRead(calls[s].arg, calls[s].data) /\ calls[s].arg \in 0..started
      BY <1>2, <2>1 DEF Settles, Succeeded, TasksInv, TaskCalls
    <3> QED BY <1>2, <2>1, <3>1 DEF IsRead
  <2>2. CASE ~Succeeded(s)
    BY <1>2, <2>2 DEF TasksInv, TasksTypeOK
  <2> QED BY <2>1, <2>2
<1>3. CASE TakeRun(s)
  <2>1. /\ Settles(s, "run") /\ shown' = IF Succeeded(s) THEN calls[s].data ELSE shown
        /\ RefreshEnds(s) /\ UNCHANGED <<started, working, latest, selected>>
    BY <1>3 DEF TakeRun
  <2>2. /\ shown' \in [run : 0..started, working : BOOLEAN] /\ IsRead(shown'.run, shown')
        /\ Succeeded(s) => shown'.run = calls[s].arg
    BY <1>2, <2>1
  <2>3. IsRefresh(s) /\ latest' \in 0..started /\ (~crossed => calls[s].arg = selected)
    BY <2>1 DEF Settles, IsRefresh, TasksInv, TasksTypeOK, SelectedInv
  <2> QED BY <2>1, <2>2, <2>3, RefreshEnded
<1>4. CASE TakePoll(s)
  <2>1. /\ Settles(s, "poll") /\ shown' = IF Succeeded(s) THEN calls[s].data ELSE shown
        /\ Turn(s, Free)
        /\ UNCHANGED <<started, working, latest, selected, reading, broken, crossed>>
    BY <1>4 DEF TakePoll
  <2>2. /\ shown' \in [run : 0..started, working : BOOLEAN] /\ IsRead(shown'.run, shown')
        /\ IF Succeeded(s) THEN shown'.run = calls[s].arg ELSE shown' = shown
    BY <1>2, <2>1
  <2>3. /\ CallsOK' /\ calls'[s].kind = "free" /\ calls[s].kind = "poll"
        /\ \A t \in Slots \ {s} : calls'[t] = calls[t]
    BY <1>0, <2>1, Freed, NewCalls DEF Settles
  <2>4. TaskCalls' /\ TasksTypeOK' /\ IsRead(shown.run, shown)'
    BY <2>1, <2>2, <2>3 DEF TasksInv, TaskCalls, TasksTypeOK, IsRead
  <2>5. TasksSpinnersEnd'
    BY <2>1, <2>3 DEF TasksInv, TasksSpinnersEnd, Flying, OnTheirWay
  <2>6. SelectedInv'
    BY <2>1, <2>2, <2>3 DEF TasksInv, SelectedInv, IsRefresh
  <2> QED BY <2>3, <2>4, <2>5, <2>6 DEF TasksInv
<1> QED BY <1>1, <1>3, <1>4

LEMMA TasksStep ==
  ASSUME TasksInv, TasksNext
  PROVE  TasksInv'
<1>1. CASE Start \/ \E r \in Runs : End(r)
  BY <1>1, RunsMove
<1>2. CASE RefreshAgain \/ Poll \/ \E r \in 0..MaxRuns : Choose(r)
  BY <1>2, TasksAsk
<1>3. CASE \E s \in Slots : ServeTasks(s) \/ LoseTasks(s)
  BY <1>3, TasksServed
<1>4. CASE \E s \in Slots : TakeRuns(s) \/ TakeRun(s) \/ TakePoll(s)
  BY <1>4, TasksTaken
<1> QED BY <1>1, <1>2, <1>3, <1>4 DEF TasksNext

\* What is shown when nothing is on its way and no timer runs.
LEMMA SelectedShown == TasksInv => SelectedRunIsShown
<1> SUFFICES ASSUME TasksInv, AtRest, Polled = NoRun, selected # NoRun, ~broken, ~crossed
             PROVE  shown = [run |-> selected, working |-> FALSE] /\ selected \notin working
  BY DEF SelectedRunIsShown
<1>1. \A s \in Slots : ~IsRefresh(s)
  BY Resting DEF TasksInv, IsRefresh
<1>2. shown.run = selected /\ ~shown.working
  BY <1>1 DEF TasksInv, SelectedInv, Polled
<1> QED BY <1>2 DEF TasksInv, IsRead

-----------------------------------------------------------------------------
(***************************************************************************)
(* The page of the Host's model.                                           *)
(***************************************************************************)
IsWrite(s) == calls[s].kind \in {"save", "reset"}
IsOut(s) == calls[s].kind # "free"

HostTypes ==
  /\ environment \in Config /\ saved \in Config \cup {None} /\ saves \in 0..MaxSaves
  /\ form \in [model : Models \cup {None}, key : Keys \cup {None}]
  /\ \A s \in Slots : IsOut(s) =>
       /\ calls[s].kind \in {"get", "save", "reset"}
       /\ calls[s].kind = "save" => calls[s].arg \in Config
       /\ calls[s].state = "answered" => calls[s].data.model \in Models

HostFlags ==
  /\ getting => \E s \in Slots : calls[s].kind = "get"
  /\ saving => \E s \in Slots : IsWrite(s)
  /\ ~saving => \A s \in Slots : ~IsWrite(s)
  /\ \A s, t \in Slots : IsWrite(s) /\ IsWrite(t) => s = t

KeyInv == entered # None => saved # None /\ saved.key = entered

\* Unless a request was made while another was under way there is one at a
\* time, and what it was answered is what the backend has.
ConfigInv ==
  ~mixed =>
    /\ \A s, t \in Slots : IsOut(s) /\ IsOut(t) => s = t
    /\ \A s \in Slots : IsOut(s) /\ calls[s].state = "answered" => calls[s].data = Public
    /\ ~refused /\ (\A s \in Slots : ~IsOut(s)) => config = Public

HostInv == CallsOK /\ HostTypes /\ HostFlags /\ KeyInv /\ ConfigInv

\* A request that changes in nothing but its answer, which is an error or what
\* the backend has now.
LEMMA HostAnswered ==
  ASSUME HostInv, NEW s \in Slots, IsOut(s), CallsOK',
         calls'[s].kind = calls[s].kind, calls'[s].arg = calls[s].arg,
         \A t \in Slots \ {s} : calls'[t] = calls[t],
         calls'[s].state = "answered" => calls'[s].data = Public' /\ Public'.model \in Models,
         environment' \in Config, saved' \in Config \cup {None}, saves' \in 0..MaxSaves, KeyInv',
         UNCHANGED <<form, config, getting, saving, refused, mixed>>
  PROVE  HostInv'
<1>1. HostTypes'
  BY DEF HostInv, HostTypes, IsOut
<1>2. HostFlags'
  BY DEF HostInv, HostFlags, IsWrite
<1>3. ConfigInv'
  BY DEF HostInv, ConfigInv, IsOut
<1> QED BY <1>1, <1>2, <1>3 DEF HostInv

\* What the backend answers.
LEMMA HostServed ==
  ASSUME HostInv, NEW s \in Slots, ServeHostModel(s) \/ LoseHostModel(s)
  PROVE  HostInv'
<1>1. UNCHANGED <<form, config, getting, saving, refused, mixed>>
  BY DEF ServeHostModel, LoseHostModel, hostVars
<1>2. CASE LoseHostModel(s)
  <2>1. UNCHANGED <<environment, saved, saves, entered>> /\ Lose(s) /\ IsOut(s)
    BY <1>2 DEF LoseHostModel, hostVars, IsOut
  <2>2. /\ CallsOK' /\ calls'[s].kind = calls[s].kind /\ calls'[s].arg = calls[s].arg
        /\ calls'[s].state = "failed" /\ \A t \in Slots \ {s} : calls'[t] = calls[t]
    BY <2>1, Lost DEF HostInv
  <2> QED BY <1>1, <2>1, <2>2, HostAnswered DEF HostInv, HostTypes, KeyInv
<1>3. CASE ServeHostModel(s)
  <2>1. Serve(s) /\ environment' = environment /\ AnswerConfig(s) /\ IsOut(s)
    BY <1>3 DEF ServeHostModel, Serve, store, Waits, IsOut
  <2>2. saved' \in Config \cup {None} /\ saves' \in 0..MaxSaves /\ KeyInv'
    <3>1. CASE Waits(s, "get")
      BY <2>1, <3>1 DEF Serve, Waits, store, HostInv, HostTypes, KeyInv
    <3>2. CASE Waits(s, "save")
      <4> DEFINE wanted == calls[s].arg
      <4>1. /\ saved' = [model |-> wanted.model, key |-> KeyToStore(wanted.key)]
            /\ entered' = IF wanted.key # None THEN wanted.key ELSE entered
            /\ saves' = saves + 1 /\ saves < MaxSaves
        BY <2>1, <3>2 DEF Serve, Waits
      <4>2. wanted \in Config
        BY <3>2 DEF Waits, HostInv, HostTypes, IsOut
      <4> HIDE DEF wanted
      <4>3. saved' \in Config
        BY <4>1, <4>2 DEF KeyToStore, Config, HostInv, HostTypes
      <4>4. saved' # None
        BY <4>3, HostModelAssumption
      <4>5. KeyInv'
        BY <4>1, <4>4 DEF KeyToStore, HostInv, KeyInv
      <4> QED BY <4>1, <4>3, <4>5, HostModelAssumption DEF HostInv, HostTypes
    <3>3. CASE Waits(s, "reset")
      BY <2>1, <3>3, HostModelAssumption DEF Serve, Waits, HostInv, HostTypes, KeyInv
    <3> QED BY <2>1, <3>1, <3>2, <3>3 DEF Serve
  <2>3. environment' \in Config
    BY <2>1 DEF HostInv, HostTypes
  <2>4. Public'.model \in Models
    BY <2>2, <2>3 DEF Public, Resolve, Config
  <2>5. PICK state, data2 :
          /\ calls' = [calls EXCEPT ![s].state = state, ![s].data = data2]
          /\ state \in {"answered", "failed"}
          /\ state = "answered" => data2 = Public'
    <3> DEFINE st == IF Resolves' THEN "answered" ELSE "failed"
               dt == IF Resolves' THEN Public' ELSE None
    <3>1. calls' = [calls EXCEPT ![s].state = st, ![s].data = dt]
      BY <2>1 DEF AnswerConfig
    <3>2. st \in {"answered", "failed"} /\ (st = "answered" => dt = Public')
      OBVIOUS
    <3> HIDE DEF st, dt
    <3> QED BY <3>1, <3>2
  <2> DEFINE c == [calls[s] EXCEPT !.state = state, !.data = data2]
  <2>6. /\ IsCall(c) /\ c.kind = calls[s].kind /\ c.arg = calls[s].arg
        /\ c.state = state /\ c.data = data2
    BY DEF HostInv, CallsOK, IsCall, CallFields
  <2>7. Turn(s, c)
    BY <2>5 DEF Turn, HostInv, CallsOK
  <2> HIDE DEF c
  <2>8. /\ CallsOK' /\ calls'[s] = c /\ \A t \in Slots \ {s} : calls'[t] = calls[t]
    BY <2>1, <2>6, <2>7, Turned DEF HostInv, IsOut
  <2> QED BY <1>1, <2>1, <2>2, <2>3, <2>4, <2>5, <2>6, <2>8, HostAnswered
<1> QED BY <1>2, <1>3

\* The page asks for something.
LEMMA HostAsks ==
  ASSUME HostInv, GetConfig \/ SaveConfig \/ ResetConfig
  PROVE  HostInv'
<1>1. PICK kind, arg :
        /\ Ask(kind, arg) /\ kind \in {"get", "save", "reset"}
        /\ kind = "save" => arg \in Config
        /\ kind = "get" => getting' = TRUE /\ saving' = saving
        /\ kind # "get" => getting' = getting /\ saving' = TRUE /\ ~saving
  <2> DEFINE Asking(kind, arg) ==
        /\ Ask(kind, arg) /\ kind \in {"get", "save", "reset"}
        /\ kind = "save" => arg \in Config
        /\ kind = "get" => getting' = TRUE /\ saving' = saving
        /\ kind # "get" => getting' = getting /\ saving' = TRUE /\ ~saving
  <2> SUFFICES \E kind, arg : Asking(kind, arg)
    OBVIOUS
  <2>1. CASE GetConfig
    <3>1. Asking("get", None)
      BY <2>1 DEF GetConfig
    <3> QED BY <3>1
  <2>2. CASE SaveConfig
    <3>1. form \in Config
      BY <2>2 DEF SaveConfig, HostInv, HostTypes, Config
    <3>2. Asking("save", form)
      BY <2>2, <3>1 DEF SaveConfig
    <3> QED BY <3>2
  <2>3. CASE ResetConfig
    <3>1. Asking("reset", None)
      BY <2>3 DEF ResetConfig
    <3> QED BY <3>1
  <2> QED BY <2>1, <2>2, <2>3
<1>2. /\ UNCHANGED <<environment, saved, readable, saves, entered, form, config>>
      /\ Make(kind, arg) /\ refused' = FALSE /\ (~mixed' => AtRest)
  BY <1>1 DEF GetConfig, SaveConfig, ResetConfig, Ask, store
<1>3. CallsOK'
  BY <1>1, <1>2, Made DEF HostInv
<1>4. PICK s \in Slots :
        /\ calls[s].kind = "free" /\ calls'[s].kind = kind /\ calls'[s].arg = arg
        /\ calls'[s].state = "asked" /\ \A t \in Slots \ {s} : calls'[t] = calls[t]
  BY <1>1, <1>2, Made DEF HostInv
<1>5. HostTypes'
  BY <1>1, <1>2, <1>4 DEF HostInv, HostTypes, IsOut
<1>6. HostFlags'
  <2>1. CASE kind = "get"
    BY <1>1, <1>4, <2>1 DEF HostInv, HostFlags, IsWrite
  <2>2. CASE kind # "get"
    <3>1. \A t \in Slots : ~IsWrite(t)
      BY <1>1, <2>2 DEF HostInv, HostFlags
    <3> QED BY <1>1, <1>4, <2>2, <3>1 DEF HostInv, HostFlags, IsWrite
  <2> QED BY <2>1, <2>2
<1>7. ConfigInv'
  <2> SUFFICES ASSUME ~mixed' PROVE ConfigInv'
    BY DEF ConfigInv
  <2>1. \A t \in Slots : calls[t].kind = "free"
    BY <1>2, Resting DEF HostInv
  <2> QED BY <1>1, <1>4, <2>1 DEF ConfigInv, IsOut
<1> QED BY <1>2, <1>3, <1>5, <1>6, <1>7 DEF HostInv, KeyInv

\* The page takes an answer.
LEMMA HostTaken ==
  ASSUME HostInv, NEW s \in Slots, TakeConfig(s)
  PROVE  HostInv'
<1> DEFINE done == calls[s].state = "answered"
<1>1. /\ calls[s].kind \in {"get", "save", "reset"} /\ Turn(s, Free)
      /\ config' = IF done THEN calls[s].data ELSE config
      /\ form' = IF done THEN [model |-> config'.model, key |-> None] ELSE form
      /\ refused' = (refused \/ ~done)
      /\ getting' = (getting /\ calls[s].kind # "get")
      /\ saving' = (saving /\ calls[s].kind = "get")
      /\ UNCHANGED <<environment, saved, readable, saves, entered, mixed>>
  BY DEF TakeConfig, Succeeded, store
<1>2. /\ CallsOK' /\ calls'[s].kind = "free"
      /\ \A t \in Slots \ {s} : calls'[t] = calls[t]
  BY <1>1, Freed, NewCalls DEF HostInv
<1>3. IsOut(s) /\ (done => calls[s].data.model \in Models)
  BY <1>1 DEF HostInv, HostTypes, IsOut
<1>4. HostTypes'
  <2>1. form' \in [model : Models \cup {None}, key : Keys \cup {None}]
    BY <1>1, <1>3 DEF HostInv, HostTypes
  <2> QED BY <1>1, <1>2, <2>1 DEF HostInv, HostTypes, IsOut
<1>5. HostFlags'
  BY <1>1, <1>2 DEF HostInv, HostFlags, IsWrite
<1>6. ConfigInv'
  <2> SUFFICES ASSUME ~mixed PROVE ConfigInv'
    BY <1>1 DEF ConfigInv
  <2>1. Public' = Public
    BY <1>1 DEF Public, Resolve
  <2>2. \A t \in Slots : ~IsOut(t)'
    BY <1>2, <1>3 DEF HostInv, ConfigInv, IsOut
  <2>3. ~refused' => config' = Public
    BY <1>1, <1>3 DEF HostInv, ConfigInv
  <2> QED BY <2>1, <2>2, <2>3 DEF ConfigInv
<1> QED BY <1>1, <1>2, <1>4, <1>5, <1>6 DEF HostInv, KeyInv

LEMMA HostStep ==
  ASSUME HostInv, HostModelNext
  PROVE  HostInv'
<1>1. CASE EditForm
  <2>1. /\ form' \in Config
        /\ UNCHANGED <<calls, environment, saved, readable, saves, entered, config, getting,
                       saving, refused, mixed>>
    BY <1>1 DEF EditForm, store
  <2>2. Public' = Public
    BY <2>1 DEF Public, Resolve
  <2>3. ConfigInv' /\ HostFlags'
    BY <2>1, <2>2 DEF HostInv, ConfigInv, IsOut, HostFlags, IsWrite
  <2>4. HostTypes'
    BY <2>1 DEF HostInv, HostTypes, Config, IsOut
  <2> QED BY <2>1, <2>3, <2>4 DEF HostInv, KeyInv, CallsOK
<1>2. CASE Rekey
  <2>1. UNCHANGED <<calls, environment, saved, saves, entered, form, config, getting,
                    saving, refused, mixed>>
    BY <1>2 DEF Rekey
  <2>2. Public' = Public
    BY <2>1 DEF Public, Resolve
  <2>3. ConfigInv' /\ HostFlags'
    BY <2>1, <2>2 DEF HostInv, ConfigInv, IsOut, HostFlags, IsWrite
  <2>4. HostTypes'
    BY <2>1 DEF HostInv, HostTypes, IsOut
  <2> QED BY <2>1, <2>3, <2>4 DEF HostInv, KeyInv, CallsOK
<1>3. CASE GetConfig \/ SaveConfig \/ ResetConfig
  BY <1>3, HostAsks
<1>4. CASE \E s \in Slots : ServeHostModel(s) \/ LoseHostModel(s)
  BY <1>4, HostServed
<1>5. CASE \E s \in Slots : TakeConfig(s)
  BY <1>5, HostTaken
<1> QED BY <1>1, <1>2, <1>3, <1>4, <1>5 DEF HostModelNext

\* What the invariant says of the flags, the configuration and the key.
LEMMA HostShows ==
  ASSUME HostInv
  PROVE  HostModelSpinnersEnd /\ OwnConfigIsShown /\ EnteredKeyIsUsed /\ HostModelTypeOK
<1>1. HostModelSpinnersEnd
  BY DEF HostInv, HostFlags, HostModelSpinnersEnd, Flying, OnTheirWay, IsWrite
<1>2. OwnConfigIsShown
  BY Resting DEF HostInv, ConfigInv, OwnConfigIsShown, IsOut
<1>3. EnteredKeyIsUsed
  BY DEF HostInv, KeyInv, EnteredKeyIsUsed, Resolve
<1>4. HostModelTypeOK
  BY DEF HostInv, HostTypes, HostModelTypeOK
<1> QED BY <1>1, <1>2, <1>3, <1>4

-----------------------------------------------------------------------------
(***************************************************************************)
(* The dashboard and the lists of the workspace.                           *)
(***************************************************************************)
Ages == [Parts -> 0..news]
Answers(d, p) == d[p] \notin {Open, Failed}

OverviewTypes ==
  /\ view \in {"dashboard", "workspace"} /\ news \in 1..MaxNews
  /\ seen \in Ages
  /\ removal # None => view = "workspace" /\ removal \in Ages
  /\ \A s \in Slots : IsOut(s) =>
       /\ calls[s].kind = "load" /\ calls[s].state = "asked" /\ calls[s].arg \in Ages
       /\ calls[s].data = [p \in Parts |-> calls[s].data[p]]
       /\ \A p \in Parts : Answers(calls[s].data, p) => calls[s].data[p] \in 0..news

\* Unless loads were made together there is one at a time; it was made by the
\* page as it still is, and what it was answered is not older than that.
LoadsInv ==
  ~crowded =>
    /\ \A s, t \in Slots : IsOut(s) /\ IsOut(t) => s = t
    /\ \A s \in Slots : IsOut(s) =>
         /\ calls[s].arg = seen
         /\ \A p \in Parts : Answers(calls[s].data, p) => calls[s].data[p] >= seen[p]

OverviewInv == CallsOK /\ OverviewTypes /\ OverviewSpinnersEnd /\ LoadsInv

\* A load is a request.
LEMMA NewLoads ==
  ASSUME NEW had
  PROVE  /\ IsCall(Load(had)) /\ Load(had).kind = "load" /\ Load(had).arg = had
         /\ Load(had).state = "asked" /\ Load(had).data = [p \in Parts |-> Open]
BY DEF Load, Asked, Free, IsCall, CallFields

\* Ages that were right stay so when there is news.
LEMMA AgesGrow == ASSUME news \in Nat, news' \in {news, news + 1} PROVE Ages \subseteq Ages'
BY DEF Ages

\* A load begins.
LEMMA LoadStarted ==
  ASSUME OverviewInv, NEW had, had \in Ages, StartLoad(had), had = seen \/ removal # None,
         news' \in {news, news + 1}, news' \in 1..MaxNews,
         UNCHANGED <<view, seen>>, removal' = removal \/ removal' = None
  PROVE  OverviewInv'
<1>0. news \in Nat /\ Ages \subseteq Ages' /\ 0..news \subseteq 0..news'
  BY AgesGrow, OverviewAssumption DEF OverviewInv, OverviewTypes
<1>1. PICK s \in Slots : IsFree(s) /\ Turn(s, Load(had))
  BY DEF StartLoad
<1>2. /\ CallsOK' /\ calls'[s] = Load(had) /\ calls[s].kind = "free"
      /\ \A t \in Slots \ {s} : calls'[t] = calls[t]
  BY <1>1, Turned, NewLoads, NewCalls DEF OverviewInv, IsFree
<1>3. OverviewTypes'
  <2>1. seen' \in Ages' /\ (removal' # None => view' = "workspace" /\ removal' \in Ages')
    BY <1>0 DEF OverviewInv, OverviewTypes
  <2>2. ASSUME NEW t \in Slots, IsOut(t)'
        PROVE  /\ calls'[t].kind = "load" /\ calls'[t].state = "asked" /\ calls'[t].arg \in Ages'
               /\ calls'[t].data = [p \in Parts |-> calls'[t].data[p]]
               /\ \A p \in Parts : Answers(calls'[t].data, p) => calls'[t].data[p] \in 0..news'
    <3>1. CASE t = s
      BY <1>0, <1>2, <3>1, NewLoads DEF Answers
    <3>2. CASE t # s
      BY <1>0, <1>2, <2>2, <3>2 DEF OverviewInv, OverviewTypes, IsOut
    <3> QED BY <3>1, <3>2
  <2> QED BY <2>1, <2>2 DEF OverviewInv, OverviewTypes, Answers
<1>4. OverviewSpinnersEnd'
  BY <1>2, NewLoads DEF OverviewSpinnersEnd, Loading, OnTheirWay
<1>5. LoadsInv'
  <2> SUFFICES ASSUME ~crowded' PROVE LoadsInv'
    BY DEF LoadsInv
  <2>1. Loading = {} /\ had = seen
    BY DEF StartLoad, Busy
  <2>2. \A t \in Slots : ~IsOut(t)
    BY <2>1 DEF Loading, OnTheirWay, OverviewInv, OverviewTypes, IsOut
  <2> QED BY <1>2, <2>1, <2>2, NewLoads DEF LoadsInv, IsOut, Answers
<1> QED BY <1>2, <1>3, <1>4, <1>5 DEF OverviewInv

\* A request of a load is answered.
LEMMA PartServed ==
  ASSUME OverviewInv, NEW s \in Slots, NEW q \in Parts, ServePart(s, q)
  PROVE  OverviewInv'
<1>1. PICK answer \in {news, Failed} : calls' = [calls EXCEPT ![s].data[q] = answer]
  BY DEF ServePart
<1>2. /\ UNCHANGED <<view, news, seen, fetching, degraded, removal, crowded>>
      /\ calls[s].kind = "load" /\ IsOut(s)
  BY DEF ServePart, overviewVars, Waits, IsOut
<1> DEFINE d == calls[s].data
           e == [d EXCEPT ![q] = answer]
           c == [calls[s] EXCEPT !.data = e]
<1>3. d = [p \in Parts |-> d[p]] /\ \A p \in Parts : Answers(d, p) => d[p] \in 0..news
  BY <1>2 DEF OverviewInv, OverviewTypes
<1>4. news \in 0..news /\ seen \in [Parts -> 0..news]
  BY OverviewAssumption DEF OverviewInv, OverviewTypes, Ages
<1>5. Turn(s, c)
  BY <1>1 DEF Turn, OverviewInv, CallsOK
<1> HIDE DEF d
<1>6. /\ e = [p \in Parts |-> e[p]]
      /\ \A p \in Parts : e[p] = IF p = q THEN answer ELSE d[p]
  BY <1>3
<1> HIDE DEF e
<1>7. IsCall(c) /\ c.kind = calls[s].kind /\ c.arg = calls[s].arg /\ c.state = calls[s].state
      /\ c.data = e
  BY DEF OverviewInv, CallsOK, IsCall, CallFields
<1> HIDE DEF c
<1>8. /\ CallsOK' /\ calls'[s] = c /\ \A t \in Slots \ {s} : calls'[t] = calls[t]
  BY <1>2, <1>5, <1>7, Turned DEF OverviewInv
<1>9. \A p \in Parts : Answers(e, p) => e[p] \in 0..news /\ ((e[p] = d[p] /\ Answers(d, p)) \/ e[p] = news)
  BY <1>3, <1>4, <1>6 DEF Answers
<1>10. OverviewTypes'
  <2>1. ASSUME NEW t \in Slots, IsOut(t)'
        PROVE  /\ calls'[t].kind = "load" /\ calls'[t].state = "asked" /\ calls'[t].arg \in Ages
               /\ calls'[t].data = [p \in Parts |-> calls'[t].data[p]]
               /\ \A p \in Parts : Answers(calls'[t].data, p) => calls'[t].data[p] \in 0..news
    <3>1. CASE t = s
      BY <1>2, <1>6, <1>7, <1>8, <1>9, <3>1 DEF OverviewInv, OverviewTypes
    <3>2. CASE t # s
      BY <1>8, <2>1, <3>2 DEF OverviewInv, OverviewTypes, IsOut
    <3> QED BY <3>1, <3>2
  <2> QED BY <1>2, <2>1 DEF OverviewInv, OverviewTypes, Ages, Answers
<1>11. OverviewSpinnersEnd'
  BY <1>2, <1>7, <1>8 DEF OverviewInv, OverviewSpinnersEnd, Loading, OnTheirWay
<1>12. LoadsInv'
  <2> SUFFICES ASSUME ~crowded PROVE LoadsInv'
    BY <1>2 DEF LoadsInv
  <2>1. \A p \in Parts : Answers(d, p) => d[p] >= seen[p]
    BY <1>2 DEF OverviewInv, LoadsInv, d
  <2>2. \A p \in Parts : Answers(e, p) => e[p] >= seen[p]
    BY <1>4, <1>9, <2>1
  <2>3. calls[s].arg = seen
    BY <1>2 DEF OverviewInv, LoadsInv
  <2>4. ASSUME NEW t \in Slots, IsOut(t)'
        PROVE  /\ t = s /\ calls'[t].arg = seen
               /\ \A p \in Parts : Answers(calls'[t].data, p) => calls'[t].data[p] >= seen[p]
    <3>1. t = s
      BY <1>2, <1>8, <2>4 DEF OverviewInv, LoadsInv, IsOut
    <3> QED BY <1>7, <1>8, <2>2, <2>3, <3>1
  <2> QED BY <1>2, <2>4 DEF LoadsInv, Answers
<1> QED BY <1>8, <1>10, <1>11, <1>12 DEF OverviewInv

\* A load settles: what is shown is what was read, or what was shown before.
LEMMA LoadSettles ==
  ASSUME OverviewInv, NEW s \in Slots, Settle(s)
  PROVE  OverviewInv' /\ (crowded \/ \A p \in Parts : seen'[p] >= seen[p])
<1> DEFINE values == calls[s].data
           had == calls[s].arg
<1>1. /\ calls[s].kind = "load" /\ IsOut(s) /\ \A p \in Parts : values[p] # Open
      /\ seen' = IF view = "dashboard" THEN OnDashboard(values) ELSE InWorkspace(values, had)
      /\ fetching' = FALSE /\ Turn(s, Free) /\ UNCHANGED <<view, news, removal, crowded>>
  BY DEF Settle, Waits, IsOut
<1>2. had \in Ages /\ \A p \in Parts : values[p] # Failed => values[p] \in 0..news
  BY <1>1 DEF OverviewInv, OverviewTypes, Answers
<1>3. /\ CallsOK' /\ calls'[s].kind = "free" /\ \A t \in Slots \ {s} : calls'[t] = calls[t]
  BY <1>1, Freed, NewCalls DEF OverviewInv
<1>4. ~crowded => had = seen /\ \A p \in Parts : values[p] # Failed => values[p] >= seen[p]
  BY <1>1 DEF OverviewInv, LoadsInv, Answers
<1> HIDE DEF values, had
<1>5. PICK before \in Ages :
        /\ \A p \in Parts : seen'[p] = IF values[p] = Failed THEN before[p] ELSE values[p]
        /\ seen' = [p \in Parts |-> seen'[p]]
        /\ before = seen \/ before = had
  BY <1>1, <1>2 DEF OnDashboard, InWorkspace, Parts, OverviewInv, OverviewTypes
<1>6. seen' \in Ages
  BY <1>2, <1>5 DEF Ages
<1>7. OverviewTypes'
  BY <1>1, <1>3, <1>6 DEF OverviewInv, OverviewTypes, Ages, IsOut, Answers
<1>8. ~crowded => \A p \in Parts : seen'[p] >= seen[p]
  <2> SUFFICES ASSUME ~crowded, NEW p \in Parts PROVE seen'[p] >= seen[p]
    OBVIOUS
  <2>1. seen[p] \in 0..news /\ before = seen
    BY <1>4, <1>5 DEF OverviewInv, OverviewTypes, Ages
  <2> QED BY <1>4, <1>5, <2>1, OverviewAssumption DEF OverviewInv, OverviewTypes
<1>9. LoadsInv'
  BY <1>1, <1>3 DEF OverviewInv, LoadsInv, IsOut
<1> QED BY <1>1, <1>3, <1>7, <1>8, <1>9 DEF OverviewInv, OverviewSpinnersEnd

\* Every step; only a load that settles changes what is shown.
LEMMA OverviewStep ==
  ASSUME OverviewInv, OverviewNext
  PROVE  OverviewInv' /\ (crowded' \/ \A p \in Parts : seen'[p] >= seen[p])
<1>1. \A p \in Parts : seen[p] \in 0..news
  BY DEF OverviewInv, OverviewTypes, Ages
<1>2. ASSUME OverviewInv', seen' = seen
      PROVE  OverviewInv' /\ (crowded' \/ \A p \in Parts : seen'[p] >= seen[p])
  BY <1>1, <1>2, OverviewAssumption DEF OverviewInv, OverviewTypes
<1>3. CASE Change
  <2>1. /\ news' = news + 1 /\ news' \in 1..MaxNews
        /\ UNCHANGED <<calls, view, seen, fetching, degraded, removal, crowded>>
    BY <1>3, OverviewAssumption DEF Change, OverviewInv, OverviewTypes
  <2>2. Ages \subseteq Ages' /\ 0..news \subseteq 0..news'
    BY <2>1, AgesGrow, OverviewAssumption DEF OverviewInv, OverviewTypes
  <2>3. OverviewTypes'
    BY <2>1, <2>2 DEF OverviewInv, OverviewTypes, IsOut, Answers
  <2>4. LoadsInv' /\ CallsOK' /\ OverviewSpinnersEnd'
    BY <2>1 DEF OverviewInv, LoadsInv, CallsOK, OverviewSpinnersEnd, Loading, OnTheirWay, IsOut,
         Answers
  <2> QED BY <1>2, <2>1, <2>3, <2>4 DEF OverviewInv
<1>4. CASE Refetch \/ Refetched
  <2>1. StartLoad(seen) /\ UNCHANGED <<view, news, seen, removal>> /\ seen \in Ages
        /\ news \in 1..MaxNews
    BY <1>4 DEF Refetch, Refetched, OverviewInv, OverviewTypes
  <2> QED BY <1>2, <2>1, LoadStarted
<1>5. CASE BeginRemoval
  <2>1. /\ view = "workspace" /\ removal' = seen
        /\ UNCHANGED <<calls, view, news, seen, fetching, degraded, crowded>>
    BY <1>5 DEF BeginRemoval
  <2>2. OverviewTypes'
    BY <2>1 DEF OverviewInv, OverviewTypes, Ages, IsOut, Answers
  <2>3. LoadsInv' /\ CallsOK' /\ OverviewSpinnersEnd'
    BY <2>1 DEF OverviewInv, LoadsInv, CallsOK, OverviewSpinnersEnd, Loading, OnTheirWay, IsOut,
         Answers
  <2> QED BY <1>2, <2>1, <2>2, <2>3 DEF OverviewInv
<1>6. CASE RemovalEnds
  <2>0. removal # None /\ removal \in Ages /\ removal' = None /\ UNCHANGED <<view, seen, fetching>>
    BY <1>6 DEF RemovalEnds, OverviewInv, OverviewTypes
  <2>1. CASE news < MaxNews /\ news' = news + 1 /\ StartLoad(removal)
    <3>1. news' \in 1..MaxNews
      BY <2>1, OverviewAssumption DEF OverviewInv, OverviewTypes
    <3> QED BY <1>2, <2>0, <2>1, <3>1, LoadStarted
  <2>2. CASE UNCHANGED <<calls, news, crowded>>
    <3>1. OverviewTypes'
      BY <2>0, <2>2 DEF OverviewInv, OverviewTypes, Ages, IsOut, Answers
    <3>2. LoadsInv' /\ CallsOK' /\ OverviewSpinnersEnd'
      BY <2>0, <2>2 DEF OverviewInv, LoadsInv, CallsOK, OverviewSpinnersEnd, Loading, OnTheirWay,
           IsOut, Answers
    <3> QED BY <1>2, <2>0, <3>1, <3>2 DEF OverviewInv
  <2> QED BY <1>6, <2>1, <2>2 DEF RemovalEnds
<1>7. CASE \E s \in Slots : Settle(s)
  <2>1. PICK s \in Slots : Settle(s)
    BY <1>7
  <2>2. crowded' = crowded
    BY <2>1 DEF Settle
  <2> QED BY <2>1, <2>2, LoadSettles
<1>8. CASE \E s \in Slots : \E p \in Parts : ServePart(s, p)
  <2>1. PICK s \in Slots, p \in Parts : ServePart(s, p)
    BY <1>8
  <2>2. seen' = seen
    BY <2>1 DEF ServePart, overviewVars
  <2> QED BY <1>2, <2>1, <2>2, PartServed
<1> QED BY <1>3, <1>4, <1>5, <1>6, <1>7, <1>8 DEF OverviewNext

-----------------------------------------------------------------------------
(***************************************************************************)
(* The settings.                                                           *)
(***************************************************************************)
SettingsInv ==
  /\ settings = [t \in Tabs |-> settings[t]]
  /\ \A t \in Tabs : settings[t] # Absent => settings[t] \in Valid
  /\ chosen \in Valid
  /\ SettingsSurvive

\* Settings are valid if each of them is allowed.
LEMMA ValidFields ==
  \A v : v \in Valid <=> v = [f \in Fields |-> v[f]] /\ \A f \in Fields : v[f] \in Allowed[f]
BY DEF Valid, Fields, Allowed

\* Valid settings survive being stored and read; what is stored is never taken
\* for nothing.
LEMMA ValidSurvives ==
  ASSUME NEW v \in Valid
  PROVE  normalizeSettings(v) = v /\ v # Absent /\ parseSettings(serializeSettings(v)) = v
<1>1. v = [f \in Fields |-> v[f]] /\ \A f \in Fields : v[f] # Odd
  BY ValidFields, SettingsAssumption
<1>2. normalizeSettings(v) = v
  BY <1>1 DEF normalizeSettings
<1>3. v # Absent
  BY SettingsAssumption
<1> QED BY <1>2, <1>3 DEF parseSettings, serializeSettings

LEMMA DefaultValid == Default \in Valid
BY DEF Default, Valid, Allowed

\* Whatever is in the storage, what is read from it is valid.
LEMMA StoredParses ==
  ASSUME NEW raw \in Stored \cup {Absent}
  PROVE  parseSettings(raw) \in Valid
<1>1. CASE raw = Absent
  BY <1>1, DefaultValid DEF parseSettings
<1>2. CASE raw # Absent
  <2>1. PICK base \in {Default, [Default EXCEPT !.theme = "dark"]}, odd \in SUBSET Fields :
          raw = [f \in Fields |-> IF f \in odd THEN Odd ELSE base[f]]
    BY <1>2 DEF Stored
  <2>2. base \in Valid
    <3> DEFINE dark == [Default EXCEPT !["theme"] = "dark"]
    <3>1. /\ Default = [f \in Fields |-> Default[f]] /\ \A f \in Fields : Default[f] \in Allowed[f]
          /\ "theme" \in Fields /\ "dark" \in Allowed["theme"]
      BY DefaultValid, ValidFields DEF Fields, Allowed
    <3>2. dark = [f \in Fields |-> dark[f]] /\ \A f \in Fields : dark[f] \in Allowed[f]
      BY <3>1
    <3>3. dark \in Valid
      BY <3>2, ValidFields
    <3> QED BY <3>3, DefaultValid
  <2>3. \A f \in Fields : normalizeSettings(raw)[f] \in {base[f], Default[f]}
    BY <2>1 DEF normalizeSettings
  <2>4. \A f \in Fields : normalizeSettings(raw)[f] \in Allowed[f]
    BY <2>2, <2>3, ValidFields, DefaultValid
  <2>5. normalizeSettings(raw) = [f \in Fields |-> normalizeSettings(raw)[f]]
    BY DEF normalizeSettings
  <2>6. normalizeSettings(raw) \in Valid
    BY <2>4, <2>5, ValidFields
  <2> QED BY <1>2, <2>6 DEF parseSettings
<1> QED BY <1>1, <1>2

\* Settings that a tab keeps are what another tab will read.
LEMMA SettingsKept ==
  ASSUME SettingsInv, NEW t \in Tabs, NEW new \in Valid, Keep(t, new), chosen' = new
  PROVE  SettingsInv'
<1>1. parseSettings(storage') = new
  BY ValidSurvives DEF Keep
<1>2. SettingsSurvive'
  BY <1>1 DEF SettingsSurvive
<1> QED BY <1>2 DEF SettingsInv, Keep

LEMMA SettingsStep ==
  ASSUME SettingsInv, SettingsNext
  PROVE  SettingsInv'
<1>1. PICK t \in Tabs :
        \/ OpenTab(t) \/ CloseTab(t) \/ ResetSettings(t)
        \/ \E f \in Fields : \E v \in Allowed[f] : Update(t, f, v)
  BY DEF SettingsNext
<1>2. CASE OpenTab(t)
  BY <1>2, SettingsKept DEF OpenTab, SettingsInv, SettingsSurvive
<1>3. CASE CloseTab(t)
  <2>1. SettingsSurvive'
    BY <1>3 DEF CloseTab, SettingsInv, SettingsSurvive
  <2> QED BY <1>3, <2>1 DEF CloseTab, SettingsInv
<1>4. CASE ResetSettings(t)
  BY <1>4, SettingsKept, DefaultValid DEF ResetSettings
<1>5. CASE \E f \in Fields : \E v \in Allowed[f] : Update(t, f, v)
  <2>1. PICK f \in Fields : \E v \in Allowed[f] : Update(t, f, v)
    BY <1>5
  <2>2. PICK v \in Allowed[f] : Update(t, f, v)
    BY <2>1
  <2> DEFINE new == [settings[t] EXCEPT ![f] = v]
  <2>3. Keep(t, new) /\ chosen' = new /\ settings[t] \in Valid
    BY <2>2 DEF Update, SettingsInv
  <2>4. new = [g \in Fields |-> new[g]] /\ \A g \in Fields : new[g] \in Allowed[g]
    BY <2>3, ValidFields
  <2>5. new \in Valid
    BY <2>4, ValidFields
  <2> HIDE DEF new
  <2> QED BY <2>3, <2>5, SettingsKept
<1> QED BY <1>1, <1>2, <1>3, <1>4, <1>5

-----------------------------------------------------------------------------
(***************************************************************************)
(* The command palette.                                                    *)
(***************************************************************************)
IsSearch(s) == calls[s].kind = "search"
IsOpening(a) == a = [f \in {"active", "of"} |-> a[f]]

\* A search that is still wanted is the one of this opening.
PaletteInv ==
  /\ CallsOK
  /\ \A s \in Slots : IsOut(s) =>
       /\ IsSearch(s) /\ IsOpening(calls[s].arg) /\ calls[s].arg.active \in BOOLEAN
       /\ calls[s].arg.active => calls[s].arg.of = opening
  /\ opened /\ searching => \E s \in Slots : IsSearch(s) /\ calls[s].arg.active
  /\ ~searching => remote.of = opening

\* The cleanup leaves the searches, which are not wanted any more.
LEMMA AllCleaned ==
  ASSUME PaletteInv
  PROVE  /\ Cleaned = [s \in Slots |-> Cleaned[s]]
         /\ \A s \in Slots : /\ IsCall(Cleaned[s]) /\ Cleaned[s].kind = calls[s].kind
                             /\ Cleaned[s].kind = "free" => Cleaned[s] = Free
                             /\ IsOut(s) => IsOpening(Cleaned[s].arg) /\ Cleaned[s].arg.active = FALSE
<1>1. \A s \in Slots : Cleaned[s] = Inactive(calls[s])
  BY DEF Cleaned
<1>2. ASSUME NEW s \in Slots, calls[s].kind # "search"
      PROVE  calls[s].kind = "free" /\ Inactive(calls[s]) = Free
  BY <1>2 DEF PaletteInv, IsOut, IsSearch, Inactive, CallsOK
<1>3. ASSUME NEW s \in Slots, calls[s].kind = "search"
      PROVE  /\ IsCall(Inactive(calls[s])) /\ Inactive(calls[s]).kind = "search"
             /\ IsOpening(Inactive(calls[s]).arg) /\ Inactive(calls[s]).arg.active = FALSE
  <2> DEFINE a == calls[s].arg
             b == [a EXCEPT !.active = FALSE]
  <2>1. Inactive(calls[s]) = [calls[s] EXCEPT !.arg = b]
    BY <1>3 DEF Inactive
  <2>2. IsOpening(a)
    BY <1>3 DEF PaletteInv, IsOut
  <2> HIDE DEF a
  <2>3. IsOpening(b) /\ b.active = FALSE
    BY <2>2 DEF IsOpening
  <2> HIDE DEF b
  <2>4. IsCall([calls[s] EXCEPT !.arg = b]) /\ [calls[s] EXCEPT !.arg = b].kind = "search"
        /\ [calls[s] EXCEPT !.arg = b].arg = b
    BY <1>3 DEF PaletteInv, CallsOK, IsCall, CallFields
  <2> QED BY <2>1, <2>3, <2>4
<1>4. Cleaned = [s \in Slots |-> Cleaned[s]]
  BY DEF Cleaned
<1> QED BY <1>1, <1>2, <1>3, <1>4, NewCalls DEF IsOut

\* It is opened: the search of this opening is on its way.
LEMMA PaletteOpened ==
  ASSUME PaletteInv, OpenPalette
  PROVE  PaletteInv'
<1>1. PICK s \in Slots : IsFree(s) /\ Begin(s)
  BY DEF OpenPalette
<1> DEFINE arg == [active |-> TRUE, of |-> opening']
           c == Asked("search", arg)
<1>2. calls' = [Cleaned EXCEPT ![s] = c] /\ searching' = TRUE
  BY <1>1 DEF Begin
<1>3. arg.active = TRUE /\ arg.of = opening' /\ IsOpening(arg)
  BY DEF IsOpening
<1>4. IsCall(c) /\ c.kind = "search" /\ c.arg = arg
  BY NewCalls
<1> HIDE DEF c, arg
<1>5. CallsOK' /\ calls'[s] = c /\ \A t \in Slots \ {s} : calls'[t] = Cleaned[t]
  BY <1>2, <1>4, AllCleaned DEF CallsOK
<1>6. ASSUME NEW t \in Slots, IsOut(t)'
      PROVE  /\ IsSearch(t)' /\ IsOpening(calls'[t].arg) /\ calls'[t].arg.active \in BOOLEAN
             /\ calls'[t].arg.active => calls'[t].arg.of = opening'
  <2>1. CASE t = s
    BY <1>3, <1>4, <1>5, <2>1 DEF IsSearch
  <2>2. CASE t # s
    <3>1. IsOut(t) /\ calls'[t].kind = calls[t].kind
          /\ IsOpening(calls'[t].arg) /\ calls'[t].arg.active = FALSE
      BY <1>5, <1>6, <2>2, AllCleaned DEF IsOut
    <3>2. calls[t].kind = "search"
      BY <3>1 DEF PaletteInv, IsSearch
    <3> QED BY <3>1, <3>2 DEF IsSearch
  <2> QED BY <2>1, <2>2
<1> QED BY <1>2, <1>3, <1>4, <1>5, <1>6 DEF PaletteInv, IsSearch

\* It is closed: no search is wanted.
LEMMA PaletteClosed ==
  ASSUME PaletteInv, ClosePalette
  PROVE  PaletteInv'
<1>1. opened' = FALSE /\ calls' = Cleaned /\ UNCHANGED <<opening, remote, searching>>
  BY DEF ClosePalette
<1>2. CallsOK'
  BY <1>1, AllCleaned DEF CallsOK
<1>3. ASSUME NEW t \in Slots, IsOut(t)'
      PROVE  IsSearch(t)' /\ IsOpening(calls'[t].arg) /\ calls'[t].arg.active = FALSE
  <2>1. IsOut(t) /\ calls'[t].kind = calls[t].kind
        /\ IsOpening(calls'[t].arg) /\ calls'[t].arg.active = FALSE
    BY <1>1, <1>3, AllCleaned DEF IsOut
  <2>2. calls[t].kind = "search"
    BY <2>1 DEF PaletteInv, IsSearch
  <2> QED BY <2>1, <2>2 DEF IsSearch
<1> QED BY <1>1, <1>2, <1>3 DEF PaletteInv

\* Answers, and the answers that are taken, or are not since they are of before.
LEMMA PaletteAnswered ==
  ASSUME PaletteInv, NEW s \in Slots, ServePalette(s) \/ TakeSearch(s)
  PROVE  PaletteInv'
<1>1. CASE ServePalette(s)
  <2>1. PICK d : Answer(s, d)
    BY <1>1 DEF ServePalette
  <2>2. IsOut(s) /\ UNCHANGED <<opened, opening, remote, searching>>
    BY <1>1 DEF ServePalette, Waits, IsOut, paletteVars
  <2>3. /\ CallsOK' /\ calls'[s].kind = calls[s].kind /\ calls'[s].arg = calls[s].arg
        /\ \A t \in Slots \ {s} : calls'[t] = calls[t]
    BY <2>1, <2>2, AnswerGiven DEF PaletteInv, IsOut
  <2> QED BY <2>2, <2>3 DEF PaletteInv, IsOut, IsSearch
<1>2. CASE TakeSearch(s)
  <2>1. IsSearch(s) /\ Turn(s, Free) /\ UNCHANGED <<opened, opening>>
    BY <1>2 DEF TakeSearch, IsSearch
  <2>2. /\ CallsOK' /\ calls'[s].kind = "free" /\ \A t \in Slots \ {s} : calls'[t] = calls[t]
    BY <2>1, Freed, NewCalls DEF PaletteInv
  <2>3. CASE calls[s].arg.active
    <3>1. remote'.of = calls[s].arg.of /\ searching' = FALSE
      BY <1>2, <2>3 DEF TakeSearch
    <3>2. remote'.of = opening
      BY <2>1, <2>3, <3>1 DEF PaletteInv, IsOut, IsSearch
    <3> QED BY <2>1, <2>2, <3>1, <3>2 DEF PaletteInv, IsOut, IsSearch
  <2>4. CASE ~calls[s].arg.active
    <3>1. UNCHANGED <<remote, searching>>
      BY <1>2, <2>4 DEF TakeSearch
    <3> QED BY <2>1, <2>2, <2>4, <3>1 DEF PaletteInv, IsOut, IsSearch
  <2> QED BY <2>3, <2>4
<1> QED BY <1>1, <1>2

LEMMA PaletteStep ==
  ASSUME PaletteInv, PaletteNext
  PROVE  PaletteInv'
<1>1. CASE UNCHANGED <<calls, opened, opening, remote, searching>>
  BY <1>1 DEF PaletteInv, IsOut, IsSearch, CallsOK
<1>2. CASE ClosePalette \/ Execute
  BY <1>2, PaletteClosed DEF Execute
<1>3. CASE OpenPalette
  BY <1>3, PaletteOpened
<1>4. CASE ArrowDown \/ ArrowUp \/ \E q \in Queries \cup {None} : TypeQuery(q)
  BY <1>1, <1>4 DEF ArrowDown, ArrowUp, TypeQuery, Marks, Moves
<1>5. CASE \/ \E c \in Range(Things) : Thing(c)
           \/ \E row \in 0..Limit - 1 : Hover(row)
  BY <1>1, <1>5 DEF Thing, Hover, Marks, Moves
<1>6. CASE \E s \in Slots : ServePalette(s) \/ TakeSearch(s)
  BY <1>6, PaletteAnswered
<1> QED BY <1>2, <1>3, <1>4, <1>5, <1>6 DEF PaletteNext

LEMMA PaletteShows ==
  ASSUME PaletteInv
  PROVE  PaletteSpinnersEnd /\ PaletteIsOfThisOpening
BY DEF PaletteInv, PaletteSpinnersEnd, PaletteIsOfThisOpening, IsSearch, Flying, OnTheirWay

\* A score is a number.
LEMMA Scored == \A c, q : Score(c, q) \in Nat
BY DEF Score

\* What is ranked: the commands that fit, the best first.
LEMMA RankedBest ==
  ASSUME NEW E, NEW cs \in Seq(E), NEW q
  PROVE  \E m \in Nat : \E p \in [1..m -> DOMAIN cs] :
           /\ Ranked(cs, q) = [n \in 1..m |-> cs[p[n]]]
           /\ \A i \in DOMAIN cs : Score(cs[i], q) > 0 => \E n \in 1..m : p[n] = i
           /\ \A n, k \in 1..m : n < k => Score(cs[p[n]], q) >= Score(cs[p[k]], q)
<1> DEFINE score(i) == Score(cs[i], q)
           hits == {i \in DOMAIN cs : score(i) > 0}
           before(i, j) == score(i) > score(j) \/ (score(i) = score(j) /\ i < j)
           R == {p \in hits \X hits : before(p[1], p[2])}
           m == Cardinality(hits)
<1>1. Ranked(cs, q) = Arranged(cs, hits, R)
  BY DEF Ranked
<1>2. \A i, j \in hits : <<i, j>> \in R <=> before(i, j)
  OBVIOUS
<1>3. hits \in SUBSET DOMAIN cs /\ \A i \in hits : i \in Nat /\ score(i) \in Nat
  BY Scored
<1>4. \A i \in DOMAIN cs : score(i) > 0 => i \in hits
  OBVIOUS
<1> HIDE DEF hits, score
<1>5. Reading!Orders(R, hits)
  <2>1. \A i, j \in hits : i # j => before(i, j) \/ before(j, i)
    BY <1>3
  <2>2. \A i, j, k \in hits : before(i, j) /\ before(j, k) => before(i, k)
    BY <1>3
  <2>3. \A i \in hits : ~before(i, i)
    BY <1>3
  <2> HIDE DEF R, before
  <2> QED BY <1>2, <2>1, <2>2, <2>3, Zenon DEF Reading!Orders
<1> HIDE DEF R
<1>6. /\ m \in Nat
      /\ \E p \in [1..m -> hits] :
           /\ Arranged(cs, hits, R) = [n \in 1..m |-> cs[p[n]]]
           /\ \A i \in hits : \E n \in 1..m : p[n] = i
           /\ \A n, k \in 1..m : n < k => <<p[n], p[k]>> \in R
  <2>1. cs \in Seq(E) /\ hits \in SUBSET DOMAIN cs
    BY <1>3
  <2>2. IsArranged(cs, hits, R)
    BY <1>5, <2>1, ArrangedHere
  <2> QED BY <2>2 DEF IsArranged
<1> HIDE DEF m
<1>7. PICK p \in [1..m -> hits] :
        /\ Arranged(cs, hits, R) = [n \in 1..m |-> cs[p[n]]]
        /\ \A i \in hits : \E n \in 1..m : p[n] = i
        /\ \A n, k \in 1..m : n < k => <<p[n], p[k]>> \in R
  BY <1>6
<1>8. p \in [1..m -> DOMAIN cs]
  BY <1>3
<1>9. \A n, k \in 1..m : n < k => score(p[n]) >= score(p[k])
  <2> SUFFICES ASSUME NEW n \in 1..m, NEW k \in 1..m, n < k
               PROVE  score(p[n]) >= score(p[k])
    OBVIOUS
  <2>1. p[n] \in hits /\ p[k] \in hits /\ <<p[n], p[k]>> \in R
    BY <1>7
  <2>2. before(p[n], p[k])
    BY <1>2, <2>1
  <2> QED BY <1>3, <2>1, <2>2
<1>10. m \in Nat /\ Ranked(cs, q) = [n \in 1..m |-> cs[p[n]]]
  BY <1>1, <1>6, <1>7
<1>11. \A i \in DOMAIN cs : score(i) > 0 => \E n \in 1..m : p[n] = i
  BY <1>4, <1>7
<1> QED BY <1>8, <1>9, <1>10, <1>11 DEF score

\* A search returns no more than its limit, and none that was left out is better.
LEMMA SearchBest ==
  ASSUME NEW E, NEW cs \in Seq(E), NEW q, NEW r, r = searchCommands(cs, q)
  PROVE  /\ Len(r) \in 0..Limit /\ DOMAIN r = 1..Len(r) /\ (r = <<>> \/ Len(r) > 0)
         /\ \A c \in Range(cs) \ Range(r) : Score(c, q) > 0 =>
              Len(r) = Limit /\ \A d \in Range(r) : Score(d, q) >= Score(c, q)
<1> DEFINE t == Ranked(cs, q)
<1>1. PICK m \in Nat : \E p \in [1..m -> DOMAIN cs] :
        /\ t = [n \in 1..m |-> cs[p[n]]]
        /\ \A i \in DOMAIN cs : Score(cs[i], q) > 0 => \E n \in 1..m : p[n] = i
        /\ \A n, k \in 1..m : n < k => Score(cs[p[n]], q) >= Score(cs[p[k]], q)
  BY RankedBest
<1>2. PICK p \in [1..m -> DOMAIN cs] :
        /\ t = [n \in 1..m |-> cs[p[n]]]
        /\ \A i \in DOMAIN cs : Score(cs[i], q) > 0 => \E n \in 1..m : p[n] = i
        /\ \A n, k \in 1..m : n < k => Score(cs[p[n]], q) >= Score(cs[p[k]], q)
  BY <1>1
<1> DEFINE u == IF Len(t) < Limit THEN Len(t) ELSE Limit
<1>3. r = SubSeq(t, 1, u)
  BY DEF searchCommands, Cut
<1>4. t \in Seq(E) /\ Len(t) = m /\ \A n \in 1..m : t[n] = cs[p[n]]
  <2>1. \A n \in 1..m : cs[p[n]] \in E
    OBVIOUS
  <2>2. t \in [1..m -> E]
    BY <1>2, <2>1
  <2> QED BY <1>2, <2>2, SeqDef
<1> HIDE DEF t
<1>5. u \in 0..m /\ u <= Limit /\ (u < m => u = Limit)
  BY <1>4, PaletteAssumption
<1> HIDE DEF u
<1>6. Len(r) = u /\ DOMAIN r = 1..u /\ \A n \in 1..u : r[n] = cs[p[n]]
  BY <1>3, <1>4, <1>5
<1>7. ASSUME NEW c \in Range(cs) \ Range(r), Score(c, q) > 0
      PROVE  Len(r) = Limit /\ \A d \in Range(r) : Score(d, q) >= Score(c, q)
  <2>1. PICK i \in DOMAIN cs : cs[i] = c
    BY DEF Range
  <2>2. PICK n \in 1..m : p[n] = i
    BY <1>2, <1>7, <2>1
  <2>3. n \notin 1..u
    BY <1>6, <2>1, <2>2 DEF Range
  <2>4. u < n /\ u < m
    BY <1>5, <2>2, <2>3
  <2>5. ASSUME NEW d \in Range(r)
        PROVE  Score(d, q) >= Score(c, q)
    <3>1. PICK k \in 1..u : d = cs[p[k]]
      BY <1>6 DEF Range
    <3>2. k \in 1..m /\ k < n
      BY <1>5, <2>4, <3>1
    <3> QED BY <1>2, <2>1, <2>2, <3>1, <3>2
  <2> QED BY <1>5, <1>6, <2>4, <2>5
<1>8. r = <<>> \/ Len(r) > 0
  <2>1. r \in Seq(E)
    BY <1>3, <1>4, <1>5
  <2> QED BY <2>1
<1> QED BY <1>5, <1>6, <1>7, <1>8

-----------------------------------------------------------------------------
\* What is offered was read, and the marked row is one of it.
OfferInv ==
  /\ there \subseteq Range(Things) /\ missing \subseteq Sources
  /\ opening \in Nat /\ remote.of \in 0..opening
  /\ remote.commands \in Seq(Range(Things))
  /\ \A s \in Slots : calls[s].state = "answered" => calls[s].data.lost \subseteq Sources
  /\ marked \in -1..Limit /\ MarkedIsOffered

\* So it is with the commands of the palette.
LEMMA Offered ==
  ASSUME NEW cs \in Seq(Range(Things)), NEW q, NEW r, r = searchCommands(StaticCommands \o cs, q)
  PROVE  /\ Len(r) \in 0..Limit /\ DOMAIN r = 1..Len(r) /\ (r = <<>> \/ Len(r) > 0)
         /\ \A c \in Range(StaticCommands \o cs) \ Range(r) : Score(c, q) > 0 =>
              Len(r) = Limit /\ \A d \in Range(r) : Score(d, q) >= Score(c, q)
<1> DEFINE E == Range(StaticCommands) \cup Range(Things)
<1>1. StaticCommands \in Seq(E) /\ cs \in Seq(E)
  <2>1. \A S : S \subseteq E => Seq(S) \subseteq Seq(E)
    OBVIOUS
  <2> QED BY <2>1, PaletteAssumption
<1> HIDE DEF E
<1>2. StaticCommands \o cs \in Seq(E)
  BY <1>1
<1> QED BY <1>2, SearchBest

\* What this says of the palette.
LEMMA OfferShows ==
  ASSUME OfferInv
  PROVE  PaletteTypeOK /\ BestAreOffered /\ MarkedIsOffered
<1>1. Len(Results) <= Limit
  BY Offered, PaletteAssumption DEF OfferInv, Results, All
<1>2. BestAreOffered
  BY Offered DEF OfferInv, Results, All, BestAreOffered
<1> QED BY <1>1, <1>2 DEF OfferInv, PaletteTypeOK

\* The palette begins with no remote commands and no answer.
LEMMA OfferBegins ==
  ASSUME PaletteInit, \A s \in Slots : calls[s].state # "answered"
  PROVE  OfferInv
<1>1. remote.commands = <<>> /\ remote.of = 0 /\ opening = 0 /\ opened = FALSE /\ missing = {}
      /\ marked = 0 /\ there \subseteq Range(Things)
  BY DEF PaletteInit
<1>2. <<>> \in Seq(Range(Things))
  OBVIOUS
<1> QED BY <1>1, <1>2, PaletteAssumption DEF OfferInv, MarkedIsOffered

\* Where nothing is read, what was read stays.
LEMMA OfferKept ==
  ASSUME OfferInv, UNCHANGED <<missing, remote>>, there' \subseteq Range(Things),
         opening' \in {opening, opening + 1},
         \A s \in Slots : calls'[s].state = "answered" => calls'[s].data.lost \subseteq Sources,
         marked' \in -1..Limit, MarkedIsOffered'
  PROVE  OfferInv'
BY DEF OfferInv

\* A step in which nothing happens in the palette.
LEMMA OfferRests ==
  ASSUME OfferInv, UNCHANGED calls, UNCHANGED paletteVars
  PROVE  OfferInv'
<1>1. UNCHANGED <<there, opened, opening, typed, remote, missing, marked, shifted>>
  BY DEF paletteVars
<1>2. MarkedIsOffered'
  BY <1>1 DEF OfferInv, MarkedIsOffered, Results, All
<1> QED BY <1>1, <1>2, OfferKept DEF OfferInv

\* The mark moves, or the query changes.
LEMMA OfferMoves ==
  ASSUME OfferInv, \/ ArrowDown \/ ArrowUp \/ \E row \in 0..Limit - 1 : Hover(row)
                   \/ \E q \in Queries \cup {None} : TypeQuery(q)
  PROVE  OfferInv'
<1>1. UNCHANGED <<calls, there, opened, opening, remote, missing>> /\ opened
  BY DEF ArrowDown, ArrowUp, Hover, TypeQuery, Marks, Moves
<1> DEFINE l == Len(Results)
           m == Len(Results')
<1>2. l \in 0..Limit /\ DOMAIN Results = 1..l /\ (Results = <<>> \/ l > 0)
  BY Offered DEF OfferInv, Results, All
<1>3. Limit \in Nat \ {0}
  BY PaletteAssumption
<1>4. remote'.commands \in Seq(Range(Things))
  BY <1>1 DEF OfferInv
<1>5. m \in 0..Limit /\ DOMAIN Results' = 1..m /\ (Results' = <<>> \/ m > 0)
  BY <1>4, Offered DEF Results, All
<1>6. typed' = typed => Results' = Results
  BY <1>1 DEF Results, All
<1>7. marked \in -1..Limit /\ (opened /\ ~shifted /\ Results # <<>> => marked + 1 \in DOMAIN Results)
  BY DEF OfferInv, MarkedIsOffered
<1>8. ASSUME marked' \in -1..Limit, ~shifted' /\ Results' # <<>> => marked' + 1 \in DOMAIN Results'
      PROVE  OfferInv'
  <2>1. MarkedIsOffered'
    BY <1>8 DEF MarkedIsOffered
  <2> QED BY <1>1, <1>8, <2>1, OfferKept DEF OfferInv
<1>9. CASE ArrowDown
  <2>1. typed' = typed /\ marked' = IF marked + 1 < l THEN marked + 1 ELSE l - 1
    BY <1>9 DEF ArrowDown, Marks, Moves
  <2> HIDE DEF l, m
  <2>2. marked' \in -1..Limit /\ (Results' # <<>> => marked' + 1 \in DOMAIN Results')
    BY <1>2, <1>3, <1>6, <1>7, <2>1
  <2> QED BY <1>8, <2>2
<1>10. CASE ArrowUp
  <2>1. typed' = typed /\ shifted' = shifted /\ marked' = IF marked > 0 THEN marked - 1 ELSE 0
    BY <1>10 DEF ArrowUp, Marks, Moves
  <2> HIDE DEF l, m
  <2>2. marked' \in -1..Limit /\ (~shifted' /\ Results' # <<>> => marked' + 1 \in DOMAIN Results')
    BY <1>1, <1>2, <1>3, <1>6, <1>7, <2>1
  <2> QED BY <1>8, <2>2
<1>11. ASSUME NEW row \in 0..Limit - 1, Hover(row)
       PROVE  OfferInv'
  <2>1. typed' = typed /\ row < l /\ marked' = row
    BY <1>11 DEF Hover, Marks, Moves
  <2> HIDE DEF l, m
  <2>2. marked' \in -1..Limit /\ marked' + 1 \in DOMAIN Results'
    BY <1>2, <1>3, <1>6, <2>1
  <2> QED BY <1>8, <2>2
<1>12. ASSUME NEW q, TypeQuery(q)
       PROVE  OfferInv'
  <2>1. marked' = 0
    BY <1>12 DEF TypeQuery, Marks, Moves, AfterTyping
  <2> HIDE DEF l, m
  <2>2. marked' \in -1..Limit /\ (Results' # <<>> => marked' + 1 \in DOMAIN Results')
    BY <1>3, <1>5, <2>1
  <2> QED BY <1>8, <2>2
<1> QED BY <1>9, <1>10, <1>11, <1>12

\* Closing the palette changes no answer.
LEMMA CleanedAnswers ==
  PaletteInv => \A s \in Slots : /\ Cleaned[s].state = calls[s].state
                                 /\ Cleaned[s].data = calls[s].data
<1> SUFFICES ASSUME PaletteInv, NEW s \in Slots
             PROVE  Inactive(calls[s]).state = calls[s].state /\ Inactive(calls[s]).data = calls[s].data
  BY DEF Cleaned
<1>1. CASE calls[s].kind # "search"
  BY <1>1 DEF Inactive
<1>2. CASE calls[s].kind = "search"
  BY <1>2 DEF Inactive, PaletteInv, CallsOK, IsCall, CallFields
<1> QED BY <1>1, <1>2

\* Every step of the palette keeps it.
LEMMA OfferStep ==
  ASSUME PaletteInv, OfferInv, PaletteNext
  PROVE  OfferInv'
<1>1. CASE \/ ArrowDown \/ ArrowUp \/ \E row \in 0..Limit - 1 : Hover(row)
           \/ \E q \in Queries \cup {None} : TypeQuery(q)
  BY <1>1, OfferMoves
<1>2. ASSUME NEW c \in Range(Things), Thing(c)
      PROVE  OfferInv'
  <2>1. UNCHANGED <<calls, opened, opening, typed, remote, missing, marked, shifted>>
        /\ there' \subseteq Range(Things)
    BY <1>2 DEF Thing, OfferInv
  <2>2. Results' = Results
    BY <2>1 DEF Results, All
  <2>3. MarkedIsOffered'
    BY <2>1, <2>2 DEF OfferInv, MarkedIsOffered
  <2> QED BY <2>1, <2>3, OfferKept DEF OfferInv
<1>3. CASE OpenPalette
  <2>1. PICK s \in Slots : Begin(s)
    BY <1>3 DEF OpenPalette
  <2> DEFINE c == Asked("search", [active |-> TRUE, of |-> opening'])
  <2>2. /\ opening' = opening + 1 /\ calls' = [Cleaned EXCEPT ![s] = c]
        /\ marked' = 0 /\ UNCHANGED <<there, remote, missing>>
    BY <1>3, <2>1 DEF OpenPalette, Begin
  <2>3. c.state = "asked"
    BY NewCalls
  <2> HIDE DEF c
  <2>4. \A t \in Slots : calls'[t].state = "answered" => calls'[t].data.lost \subseteq Sources
    BY <2>2, <2>3, AllCleaned, CleanedAnswers DEF OfferInv
  <2>5. Len(Results') \in 0..Limit /\ DOMAIN Results' = 1..Len(Results')
        /\ (Results' = <<>> \/ Len(Results') > 0)
    BY <2>2, Offered DEF OfferInv, Results, All
  <2>6. MarkedIsOffered' /\ marked' \in -1..Limit
    BY <2>2, <2>5, PaletteAssumption DEF MarkedIsOffered
  <2> QED BY <2>2, <2>4, <2>6, OfferKept DEF OfferInv
<1>4. CASE ClosePalette \/ Execute
  <2>1. /\ opened' = FALSE /\ calls' = Cleaned
        /\ UNCHANGED <<there, opening, remote, missing, marked>>
    BY <1>4 DEF Execute, ClosePalette
  <2>2. \A t \in Slots : calls'[t].state = "answered" => calls'[t].data.lost \subseteq Sources
    BY <2>1, CleanedAnswers DEF OfferInv
  <2> QED BY <2>1, <2>2, OfferKept DEF OfferInv, MarkedIsOffered
<1>5. ASSUME NEW s \in Slots, ServePalette(s)
      PROVE  OfferInv'
  <2>1. PICK lost \in SUBSET Sources : Answer(s, [there |-> there, lost |-> lost])
    BY <1>5 DEF ServePalette
  <2>2. /\ UNCHANGED <<there, opened, opening, typed, remote, missing, marked, shifted>>
        /\ calls[s].kind # "free"
    BY <1>5 DEF ServePalette, paletteVars, Waits
  <2>3. calls'[s].data.lost = lost /\ \A t \in Slots \ {s} : calls'[t] = calls[t]
    BY <2>1, <2>2, AnswerGiven DEF PaletteInv
  <2>4. \A t \in Slots : calls'[t].state = "answered" => calls'[t].data.lost \subseteq Sources
    BY <2>3 DEF OfferInv
  <2>5. Results' = Results
    BY <2>2 DEF Results, All
  <2>6. MarkedIsOffered'
    BY <2>2, <2>5 DEF OfferInv, MarkedIsOffered
  <2> QED BY <2>2, <2>4, <2>6, OfferKept DEF OfferInv
<1>6. ASSUME NEW s \in Slots, TakeSearch(s)
      PROVE  OfferInv'
  <2> DEFINE found == {c \in calls[s].data.there : SourceOf[c] \notin calls[s].data.lost}
  <2>1. /\ Turn(s, Free) /\ calls[s].state = "answered" /\ IsSearch(s)
        /\ UNCHANGED <<there, opened, opening, typed, marked>>
    BY <1>6 DEF TakeSearch, IsSearch
  <2>2. calls'[s].state = "none" /\ \A t \in Slots \ {s} : calls'[t] = calls[t]
    BY <2>1, Freed, NewCalls DEF PaletteInv
  <2>3. \A t \in Slots : calls'[t].state = "answered" => calls'[t].data.lost \subseteq Sources
    BY <2>2 DEF OfferInv
  <2>4. CASE calls[s].arg.active
    <3>1. /\ remote' = [commands |-> Kept(Things, found), of |-> calls[s].arg.of]
          /\ missing' = calls[s].data.lost /\ shifted' = TRUE
      BY <1>6, <2>4 DEF TakeSearch
    <3>2. missing' \subseteq Sources
      BY <2>1, <3>1 DEF OfferInv
    <3>3. calls[s].arg.of = opening
      BY <2>1, <2>4 DEF PaletteInv, IsOut, IsSearch
    <3> HIDE DEF found
    <3>4. remote'.commands \in Seq(Range(Things))
      BY <3>1, PaletteAssumption, Reading!KeptIs, SameArrays
    <3>5. remote'.of \in 0..opening'
      BY <2>1, <3>1, <3>3 DEF OfferInv
    <3> QED BY <2>1, <2>3, <3>1, <3>2, <3>4, <3>5 DEF OfferInv, MarkedIsOffered
  <2>5. CASE ~calls[s].arg.active
    <3>1. UNCHANGED <<remote, missing, shifted>>
      BY <1>6, <2>5 DEF TakeSearch
    <3>2. Results' = Results
      BY <2>1, <3>1 DEF Results, All
    <3>3. MarkedIsOffered'
      BY <2>1, <3>1, <3>2 DEF OfferInv, MarkedIsOffered
    <3> QED BY <2>1, <2>3, <3>1, <3>3, OfferKept DEF OfferInv
  <2> QED BY <2>4, <2>5
<1> QED BY <1>1, <1>2, <1>3, <1>4, <1>5, <1>6 DEF PaletteNext

-----------------------------------------------------------------------------
(***************************************************************************)
(* The agents page.                                                        *)
(***************************************************************************)
OfDialog(call) ==
  call.kind \in {"card", "register"} \/ (call.kind = "list" /\ call.arg = "dialog")
OfRegistry(call) == call.kind \in {"list", "delete", "register"}

AgentCallOK(call) ==
  /\ call.kind \in {"free", "list", "health", "delete", "register", "card"}
  /\ call.kind \in {"delete", "register", "card"} => call.arg \in Agents \cup {None}
  /\ call.state = "answered" =>
       /\ call.kind = "list" => call.data \in [agents : SUBSET Agents, at : 0..changes]
       /\ call.kind \in {"delete", "register"} => call.data \in 0..changes

AgentTypes ==
  /\ registry \subseteq Agents /\ changes \in 0..MaxChanges
  /\ list \in [agents : SUBSET Agents, at : 0..MaxChanges]
  /\ address \in Agents \cup {None} /\ card \in Agents \cup {None}
  /\ own \in 0..changes
  /\ \A s \in Slots : AgentCallOK(calls[s])

\* The dialog has one request at a time, also when it was closed meanwhile.
AgentFlags ==
  /\ loading => \E s \in Slots : calls[s].kind = "list"
  /\ checking => \E s \in Slots : calls[s].kind = "health"
  /\ busy => \E s \in Slots : OfDialog(calls[s])
  /\ ~busy => \A s \in Slots : ~OfDialog(calls[s])
  /\ \A s, t \in Slots : OfDialog(calls[s]) /\ OfDialog(calls[t]) => s = t

\* The card shown, and the one that is on its way, is of the address, unless
\* the dialog was emptied.
CardInv ==
  /\ card # None => address \in {card, None}
  /\ \A s \in Slots : calls[s].kind = "card" => address \in {calls[s].arg, None}

\* Unless changes were made together there is one at a time; the list that will
\* be taken, or was, is not older than the last of them.
OwnInv ==
  ~hasty =>
    /\ \A s, t \in Slots : OfRegistry(calls[s]) /\ OfRegistry(calls[t]) => s = t
    /\ \A s \in Slots : calls[s].kind = "list" /\ calls[s].state = "answered"
                          => calls[s].data.at >= own
    /\ (\A s \in Slots : calls[s].kind # "list") => failed \/ list.at >= own

AgentsInv == CallsOK /\ AgentTypes /\ AgentFlags /\ CardInv /\ OwnInv

\* What was answered stays possible when the registry changes.
LEMMA AnswersStay ==
  ASSUME changes \in Nat, changes' \in {changes, changes + 1},
         NEW s \in Slots, calls'[s] = calls[s], AgentCallOK(calls[s])
  PROVE  AgentCallOK(calls[s])'
<1>1. 0..changes \subseteq 0..changes'
  OBVIOUS
<1>2. \A d : d \in [agents : SUBSET Agents, at : 0..changes]
               => d \in [agents : SUBSET Agents, at : 0..changes']
  BY <1>1
<1> QED BY <1>1, <1>2 DEF AgentCallOK

\* Steps that make no request and take no answer.
LEMMA AgentsQuiet ==
  ASSUME AgentsInv, \/ Elsewhere \/ Search \/ TurnPage \/ OpenDialog \/ CloseDialog
                    \/ \E a \in Agents : Type(a)
  PROVE  AgentsInv'
<1>1. UNCHANGED <<calls, list, loading, checking, failed, busy, own, hasty>>
  BY DEF Elsewhere, Search, TurnPage, OpenDialog, CloseDialog, Type, shownAgents, dialog
<1>2. /\ registry' \subseteq Agents /\ changes' \in 0..MaxChanges
      /\ changes' \in {changes, changes + 1}
  <2>1. CASE Elsewhere
    BY <2>1, AgentsAssumption DEF Elsewhere, SetRegistry, AgentsInv, AgentTypes
  <2>2. CASE ~Elsewhere
    BY <2>2 DEF Search, TurnPage, OpenDialog, CloseDialog, Type, AgentsInv, AgentTypes
  <2> QED BY <2>1, <2>2
<1>3. address' \in Agents \cup {None} /\ card' \in Agents \cup {None} /\ CardInv'
  <2>1. CASE UNCHANGED <<address, card>>
    BY <1>1, <2>1 DEF AgentsInv, AgentTypes, CardInv
  <2>2. CASE CloseDialog
    BY <1>1, <2>2 DEF CloseDialog, CardInv
  <2>3. CASE \E a \in Agents : Type(a)
    <3>1. \A s \in Slots : calls[s].kind # "card"
      BY <2>3 DEF Type, AgentsInv, AgentFlags, OfDialog
    <3> QED BY <1>1, <2>3, <3>1 DEF Type, CardAfterTyping, CardInv
  <2> QED BY <2>1, <2>2, <2>3 DEF Elsewhere, Search, TurnPage, OpenDialog, dialog
<1>4. AgentTypes'
  <2>1. changes \in Nat /\ own \in 0..changes'
    BY <1>2 DEF AgentsInv, AgentTypes
  <2>2. \A s \in Slots : AgentCallOK(calls[s])'
    BY <1>1, <1>2, <2>1, AnswersStay DEF AgentsInv, AgentTypes
  <2> QED BY <1>1, <1>2, <1>3, <2>1, <2>2 DEF AgentsInv, AgentTypes, AgentCallOK
<1> QED BY <1>1, <1>3, <1>4 DEF AgentsInv, CallsOK, AgentFlags, OwnInv

\* Steps that make a request.
LEMMA AgentsAsk ==
  ASSUME AgentsInv, CheckHealth \/ FetchCard \/ Save \/ \E a \in Agents : Delete(a)
  PROVE  AgentsInv'
<1>0. CallsOK
  BY DEF AgentsInv
<1>1. UNCHANGED <<registry, changes, list, loading, failed, address, own>>
  BY DEF CheckHealth, FetchCard, Save, Delete, shownAgents, dialog
<1>2. CASE CheckHealth
  <2>1. Make("health", None) /\ checking' = TRUE /\ UNCHANGED <<card, busy, hasty>>
    BY <1>2 DEF CheckHealth, dialog
  <2>2. CallsOK'
    BY <1>0, <2>1, Made
  <2>3. PICK s \in Slots :
          /\ calls[s].kind = "free" /\ calls'[s].kind = "health" /\ calls'[s].state = "asked"
          /\ \A t \in Slots \ {s} : calls'[t] = calls[t]
    BY <1>0, <2>1, Made
  <2>4. AgentTypes'
    BY <1>1, <2>1, <2>3 DEF AgentsInv, AgentTypes, AgentCallOK
  <2>5. AgentFlags' /\ CardInv' /\ OwnInv'
    BY <1>1, <2>1, <2>3 DEF AgentsInv, AgentFlags, CardInv, OwnInv, OfDialog, OfRegistry
  <2> QED BY <2>2, <2>4, <2>5 DEF AgentsInv
<1>3. CASE FetchCard
  <2>1. /\ Make("card", address) /\ busy' = TRUE /\ card' = None /\ ~busy
        /\ UNCHANGED <<checking, hasty>> /\ address \in Agents \cup {None}
    BY <1>3 DEF FetchCard, AgentsInv, AgentTypes
  <2>2. CallsOK'
    BY <1>0, <2>1, Made
  <2>3. PICK s \in Slots :
          /\ calls[s].kind = "free" /\ calls'[s].kind = "card" /\ calls'[s].arg = address
          /\ calls'[s].state = "asked" /\ \A t \in Slots \ {s} : calls'[t] = calls[t]
    BY <1>0, <2>1, Made
  <2>4. AgentTypes'
    BY <1>1, <2>1, <2>3 DEF AgentsInv, AgentTypes, AgentCallOK
  <2>5. \A t \in Slots : ~OfDialog(calls[t])
    BY <2>1 DEF AgentsInv, AgentFlags
  <2>6. AgentFlags'
    BY <1>1, <2>1, <2>3, <2>5 DEF AgentsInv, AgentFlags, OfDialog
  <2>7. CardInv' /\ OwnInv'
    BY <1>1, <2>1, <2>3, <2>5 DEF AgentsInv, CardInv, OwnInv, OfDialog, OfRegistry
  <2> QED BY <2>2, <2>4, <2>6, <2>7 DEF AgentsInv
<1>4. CASE Save \/ \E a \in Agents : Delete(a)
  <2>1. PICK kind \in {"register", "delete"}, arg \in Agents \cup {None} :
          /\ Make(kind, arg)
          /\ kind = "register" => ~busy /\ busy' = TRUE
          /\ kind = "delete" => busy' = busy
    BY <1>4 DEF Save, Delete, dialog, AgentsInv, AgentTypes
  <2>2. UNCHANGED <<checking, card>> /\ hasty' = (Changing \/ (hasty /\ list.at < own))
    BY <1>4 DEF Save, Delete, dialog
  <2>3. CallsOK'
    BY <1>0, <2>1, Made
  <2>4. PICK s \in Slots :
          /\ calls[s].kind = "free" /\ calls'[s].kind = kind /\ calls'[s].arg = arg
          /\ calls'[s].state = "asked" /\ \A t \in Slots \ {s} : calls'[t] = calls[t]
    BY <1>0, <2>1, Made
  <2>5. AgentTypes'
    BY <1>1, <2>2, <2>4 DEF AgentsInv, AgentTypes, AgentCallOK
  <2>6. AgentFlags'
    <3>1. CASE kind = "register"
      <4>1. \A t \in Slots : ~OfDialog(calls[t])
        BY <2>1, <3>1 DEF AgentsInv, AgentFlags
      <4> QED BY <1>1, <2>1, <2>2, <2>4, <3>1, <4>1 DEF AgentsInv, AgentFlags, OfDialog
    <3>2. CASE kind = "delete"
      BY <1>1, <2>1, <2>2, <2>4, <3>2 DEF AgentsInv, AgentFlags, OfDialog
    <3> QED BY <3>1, <3>2
  <2>7. CardInv'
    BY <1>1, <2>2, <2>4 DEF AgentsInv, CardInv
  <2>8. OwnInv'
    <3> SUFFICES ASSUME ~hasty' PROVE OwnInv'
      BY DEF OwnInv
    <3>1. ~Changing /\ (~hasty \/ ~(list.at < own))
      BY <2>2
    <3>2. \A t \in Slots : ~OfRegistry(calls[t])
      BY <3>1 DEF Changing, Flying, OnTheirWay, OfRegistry
    <3>3. list.at \in Int /\ own \in Int
      BY AgentsAssumption DEF AgentsInv, AgentTypes
    <3>4. failed \/ list.at >= own
      BY <3>1, <3>2, <3>3 DEF AgentsInv, OwnInv, OfRegistry
    <3> QED BY <1>1, <2>4, <3>2, <3>4 DEF OwnInv, OfRegistry
  <2> QED BY <2>3, <2>5, <2>6, <2>7, <2>8 DEF AgentsInv
<1> QED BY <1>2, <1>3, <1>4

\* The backend answers, or a request is lost.
LEMMA AgentsServed ==
  ASSUME AgentsInv, NEW s \in Slots, ServeAgents(s) \/ LoseAgents(s)
  PROVE  AgentsInv'
<1>0. CallsOK
  BY DEF AgentsInv
<1>1. UNCHANGED <<list, loading, checking, failed, address, card, busy, own, hasty>>
  BY DEF ServeAgents, LoseAgents, agentsVars, shownAgents, dialog
<1>2. ASSUME CallsOK', calls'[s].kind = calls[s].kind, calls'[s].arg = calls[s].arg,
             \A t \in Slots \ {s} : calls'[t] = calls[t],
             registry' \subseteq Agents, changes' \in 0..MaxChanges,
             changes' \in {changes, changes + 1}, AgentCallOK(calls[s])',
             calls[s].kind = "list" /\ calls'[s].state = "answered" => calls'[s].data.at >= own
      PROVE  AgentsInv'
  <2>1. changes \in Nat /\ own \in 0..changes'
    BY <1>2 DEF AgentsInv, AgentTypes
  <2>2. ASSUME NEW t \in Slots \ {s}
        PROVE  AgentCallOK(calls[t])'
    BY <1>2, <2>1, <2>2, AnswersStay DEF AgentsInv, AgentTypes
  <2>3. AgentTypes'
    BY <1>1, <1>2, <2>1, <2>2 DEF AgentsInv, AgentTypes
  <2>4. AgentFlags' /\ CardInv'
    BY <1>1, <1>2 DEF AgentsInv, AgentFlags, CardInv, OfDialog
  <2>5. OwnInv'
    BY <1>1, <1>2 DEF AgentsInv, OwnInv, OfRegistry
  <2> QED BY <1>2, <2>3, <2>4, <2>5 DEF AgentsInv
<1>3. AgentCallOK(calls[s])
  BY DEF AgentsInv, AgentTypes
<1>4. CASE LoseAgents(s)
  <2>1. /\ CallsOK' /\ calls'[s].kind = calls[s].kind /\ calls'[s].arg = calls[s].arg
        /\ calls'[s].state = "failed" /\ \A t \in Slots \ {s} : calls'[t] = calls[t]
    BY <1>0, <1>4, Lost DEF LoseAgents
  <2>2. registry' = registry /\ changes' = changes
    BY <1>4 DEF LoseAgents, agentsVars
  <2>3. AgentCallOK(calls[s])'
    BY <1>3, <2>1, <2>2 DEF AgentCallOK
  <2> QED BY <1>2, <2>1, <2>2, <2>3 DEF AgentsInv, AgentTypes
<1>5. CASE Waits(s, "list") /\ ServeAgents(s)
  <2> DEFINE d == [agents |-> registry, at |-> changes]
  <2>1. calls[s].kind = "list" /\ Answer(s, d) /\ registry' = registry /\ changes' = changes
    BY <1>5 DEF Waits, ServeAgents
  <2>2. d \in [agents : SUBSET Agents, at : 0..changes] /\ d.at >= own
    BY AgentsAssumption DEF AgentsInv, AgentTypes
  <2> HIDE DEF d
  <2>3. /\ CallsOK' /\ calls'[s].kind = calls[s].kind /\ calls'[s].arg = calls[s].arg
        /\ calls'[s].data = d /\ \A t \in Slots \ {s} : calls'[t] = calls[t]
    BY <1>0, <2>1, AnswerGiven
  <2>4. AgentCallOK(calls[s])'
    BY <1>3, <2>1, <2>2, <2>3 DEF AgentCallOK
  <2> QED BY <1>2, <2>1, <2>2, <2>3, <2>4 DEF AgentsInv, AgentTypes
<1>6. CASE (Waits(s, "delete") \/ Waits(s, "register")) /\ ServeAgents(s)
  <2>1. /\ calls[s].kind \in {"delete", "register"} /\ Answer(s, changes')
        /\ changes < MaxChanges /\ changes' = changes + 1
        /\ \/ registry' = registry \ {calls[s].arg}
           \/ registry' = registry \cup {calls[s].arg} /\ calls[s].arg # None
    BY <1>6 DEF Waits, ServeAgents, SetRegistry
  <2>2. /\ registry' \subseteq Agents /\ changes' \in 0..MaxChanges /\ changes' \in 0..changes'
    BY <1>3, <2>1, AgentsAssumption DEF AgentCallOK, AgentsInv, AgentTypes
  <2>3. /\ CallsOK' /\ calls'[s].kind = calls[s].kind /\ calls'[s].arg = calls[s].arg
        /\ calls'[s].data = changes' /\ \A t \in Slots \ {s} : calls'[t] = calls[t]
    BY <1>0, <2>1, AnswerGiven
  <2>4. AgentCallOK(calls[s])'
    BY <1>3, <2>1, <2>2, <2>3 DEF AgentCallOK
  <2> QED BY <1>2, <2>1, <2>2, <2>3, <2>4
<1> QED BY <1>4, <1>5, <1>6 DEF ServeAgents

\* Health and a card are taken.
LEMMA AgentsInformed ==
  ASSUME AgentsInv, NEW s \in Slots, TakeHealth(s) \/ TakeCard(s)
  PROVE  AgentsInv'
<1>0. CallsOK
  BY DEF AgentsInv
<1>1. /\ UNCHANGED <<registry, changes, list, loading, address, own, hasty>>
      /\ Turn(s, Free) /\ (failed => failed')
  <2>1. CASE TakeHealth(s)
    <3>1. failed' \in {failed, TRUE}
      BY <2>1 DEF TakeHealth
    <3>2. failed => failed'
      BY <3>1, Zenon
    <3> QED BY <2>1, <3>2 DEF TakeHealth, dialog
  <2>2. CASE TakeCard(s)
    BY <2>2 DEF TakeCard, shownAgents
  <2> QED BY <2>1, <2>2
<1>2. /\ CallsOK' /\ calls'[s] = Free /\ calls'[s].kind = "free"
      /\ \A t \in Slots \ {s} : calls'[t] = calls[t]
  BY <1>0, <1>1, Freed, NewCalls
<1>3. \A t \in Slots : AgentCallOK(calls[t])'
  BY <1>1, <1>2, NewCalls DEF AgentsInv, AgentTypes, AgentCallOK
<1>4. CASE TakeHealth(s)
  <2>1. checking' = FALSE /\ UNCHANGED <<card, busy>> /\ calls[s].kind = "health"
    BY <1>4 DEF TakeHealth, dialog, Waits
  <2>2. AgentTypes'
    BY <1>1, <1>3, <2>1 DEF AgentsInv, AgentTypes
  <2>3. AgentFlags' /\ CardInv'
    BY <1>1, <1>2, <2>1 DEF AgentsInv, AgentFlags, CardInv, OfDialog
  <2>4. OwnInv'
    BY <1>1, <1>2, <2>1 DEF AgentsInv, OwnInv, OfRegistry
  <2> QED BY <1>2, <2>2, <2>3, <2>4 DEF AgentsInv
<1>5. CASE TakeCard(s)
  <2>1. /\ busy' = FALSE /\ UNCHANGED <<checking, failed>> /\ calls[s].kind = "card"
        /\ card' \in {calls[s].arg, None}
    BY <1>5 DEF TakeCard, Waits
  <2>2. AgentTypes'
    BY <1>1, <1>3, <2>1 DEF AgentsInv, AgentTypes, AgentCallOK
  <2>3. \A t \in Slots : ~OfDialog(calls'[t])
    BY <1>2, <2>1 DEF AgentsInv, AgentFlags, OfDialog
  <2>4. AgentFlags'
    BY <1>1, <1>2, <2>1, <2>3 DEF AgentsInv, AgentFlags, OfDialog
  <2>5. CardInv'
    BY <1>1, <2>1, <2>3 DEF AgentsInv, CardInv, OfDialog
  <2>6. OwnInv'
    BY <1>1, <1>2, <2>1 DEF AgentsInv, OwnInv, OfRegistry
  <2> QED BY <1>2, <2>2, <2>4, <2>5, <2>6 DEF AgentsInv
<1> QED BY <1>4, <1>5

\* A change is told to be made, and the list asked for again, or it failed.
LEMMA AgentsChanged ==
  ASSUME AgentsInv, NEW s \in Slots, TakeDelete(s) \/ TakeRegister(s)
  PROVE  AgentsInv'
<1>0. CallsOK /\ AgentCallOK(calls[s])
  BY DEF AgentsInv, AgentTypes
<1>1. /\ calls[s].kind \in {"delete", "register"}
      /\ UNCHANGED <<registry, changes, list, checking, address, card, hasty>>
  BY DEF TakeDelete, TakeRegister, Settles, shownAgents, dialog
<1>2. CASE Succeeded(s)
  <2> DEFINE then == IF calls[s].kind = "register" THEN "dialog" ELSE None
  <2>1. /\ Turn(s, Asked("list", then)) /\ loading' = TRUE /\ failed' = FALSE
        /\ own' = calls[s].data /\ busy' = busy
    BY <1>1, <1>2 DEF TakeDelete, TakeRegister, Settles, Reload, dialog
  <2>2. then = "dialog" <=> calls[s].kind = "register"
    BY AgentsAssumption
  <2>3. calls[s].data \in 0..changes
    BY <1>0, <1>1, <1>2 DEF AgentCallOK, Succeeded
  <2> HIDE DEF then
  <2>4. /\ CallsOK' /\ calls'[s].kind = "list" /\ calls'[s].arg = then
        /\ calls'[s].state = "asked" /\ \A t \in Slots \ {s} : calls'[t] = calls[t]
    BY <1>0, <2>1, GoesOn
  <2>5. AgentTypes'
    BY <1>1, <2>1, <2>3, <2>4 DEF AgentsInv, AgentTypes, AgentCallOK
  <2>6. \A t \in Slots : OfDialog(calls'[t]) <=> OfDialog(calls[t])
    BY <1>1, <2>2, <2>4 DEF OfDialog
  <2>7. AgentFlags'
    BY <1>1, <2>1, <2>4, <2>6 DEF AgentsInv, AgentFlags
  <2>8. CardInv' /\ OwnInv'
    BY <1>1, <2>1, <2>4 DEF AgentsInv, CardInv, OwnInv, OfRegistry
  <2> QED BY <2>4, <2>5, <2>7, <2>8 DEF AgentsInv
<1>3. CASE ~Succeeded(s)
  <2>1. /\ Turn(s, Free) /\ UNCHANGED <<loading, failed, own>>
        /\ calls[s].kind = "delete" => busy' = busy
        /\ calls[s].kind = "register" => busy' = FALSE
    BY <1>1, <1>3 DEF TakeDelete, TakeRegister, Settles, dialog
  <2>2. /\ CallsOK' /\ calls'[s] = Free /\ calls'[s].kind = "free"
        /\ \A t \in Slots \ {s} : calls'[t] = calls[t]
    BY <1>0, <2>1, Freed, NewCalls
  <2>3. \A t \in Slots : AgentCallOK(calls[t])'
    BY <1>1, <2>2, NewCalls DEF AgentsInv, AgentTypes, AgentCallOK
  <2>4. AgentTypes'
    BY <1>1, <2>1, <2>3 DEF AgentsInv, AgentTypes
  <2>5. AgentFlags'
    <3>1. CASE calls[s].kind = "delete"
      BY <1>1, <2>1, <2>2, <3>1 DEF AgentsInv, AgentFlags, OfDialog
    <3>2. CASE calls[s].kind = "register"
      <4>1. \A t \in Slots : ~OfDialog(calls'[t])
        BY <2>2, <3>2 DEF AgentsInv, AgentFlags, OfDialog
      <4> QED BY <1>1, <2>1, <2>2, <3>2, <4>1 DEF AgentsInv, AgentFlags
    <3> QED BY <1>1, <3>1, <3>2
  <2>6. CardInv' /\ OwnInv'
    BY <1>1, <2>1, <2>2 DEF AgentsInv, CardInv, OwnInv, OfRegistry
  <2> QED BY <2>2, <2>4, <2>5, <2>6 DEF AgentsInv
<1> QED BY <1>2, <1>3

\* The list is taken, and health is checked when there are more or fewer.
LEMMA AgentsListed ==
  ASSUME AgentsInv, NEW s \in Slots, TakeList(s)
  PROVE  AgentsInv'
<1>0. CallsOK /\ AgentCallOK(calls[s])
  BY DEF AgentsInv, AgentTypes
<1> DEFINE closes == calls[s].arg = "dialog"
           new == IF Succeeded(s) THEN calls[s].data ELSE list
           checks == CountChanged(list.agents, new.agents) /\ new.agents # {}
<1>1. /\ calls[s].kind = "list" /\ loading' = FALSE /\ list' = new
      /\ failed' = (failed \/ ~Succeeded(s))
      /\ checking' = (checking \/ checks)
      /\ Turn(s, IF checks THEN Asked("health", None) ELSE Free)
      /\ busy' = (busy /\ ~closes)
      /\ address' = IF closes THEN None ELSE address
      /\ card' = IF closes THEN None ELSE card
      /\ UNCHANGED <<registry, changes, own, hasty>>
  BY DEF TakeList, Settles, ListSettled
<1>2. new \in [agents : SUBSET Agents, at : 0..MaxChanges]
  <2>1. CASE Succeeded(s)
    <3>1. new \in [agents : SUBSET Agents, at : 0..changes] /\ changes \in 0..MaxChanges
      BY <1>0, <1>1, <2>1 DEF AgentCallOK, Succeeded, AgentsInv, AgentTypes
    <3> QED BY <3>1, AgentsAssumption
  <2>2. CASE ~Succeeded(s)
    BY <2>2 DEF AgentsInv, AgentTypes
  <2> QED BY <2>1, <2>2
<1>3. ~hasty /\ Succeeded(s) => new.at >= own
  BY <1>1 DEF AgentsInv, OwnInv, Succeeded
<1> HIDE DEF checks, new
<1>4. /\ CallsOK' /\ calls'[s].kind = (IF checks THEN "health" ELSE "free")
      /\ calls'[s].state # "answered"
      /\ \A t \in Slots \ {s} : calls'[t] = calls[t]
  <2>1. CASE checks
    BY <1>0, <1>1, <2>1, GoesOn
  <2>2. CASE ~checks
    BY <1>0, <1>1, <2>2, Freed, NewCalls
  <2> QED BY <2>1, <2>2
<1>5. AgentTypes'
  <2>1. \A t \in Slots : AgentCallOK(calls[t])'
    BY <1>1, <1>4 DEF AgentsInv, AgentTypes, AgentCallOK
  <2> QED BY <1>1, <1>2, <2>1 DEF AgentsInv, AgentTypes
<1>6. AgentFlags'
  <2>1. \A t \in Slots : OfDialog(calls'[t]) <=> OfDialog(calls[t]) /\ t # s
    BY <1>4 DEF OfDialog
  <2>2. closes <=> OfDialog(calls[s])
    BY <1>1 DEF OfDialog
  <2>3. checking' => \E t \in Slots : calls'[t].kind = "health"
    BY <1>1, <1>4 DEF AgentsInv, AgentFlags
  <2>4. busy' <=> \E t \in Slots : OfDialog(calls'[t])
    BY <1>1, <2>1, <2>2 DEF AgentsInv, AgentFlags
  <2> QED BY <1>1, <2>1, <2>3, <2>4 DEF AgentsInv, AgentFlags
<1>7. CardInv'
  BY <1>1, <1>4 DEF AgentsInv, CardInv
<1>8. OwnInv'
  <2> SUFFICES ASSUME ~hasty PROVE OwnInv'
    BY <1>1 DEF OwnInv
  <2>1. \A t \in Slots : ~OfRegistry(calls'[t])
    BY <1>1, <1>4 DEF AgentsInv, OwnInv, OfRegistry
  <2> QED BY <1>1, <1>3, <2>1 DEF OwnInv, OfRegistry
<1> QED BY <1>4, <1>5, <1>6, <1>7, <1>8 DEF AgentsInv

LEMMA AgentsStep ==
  ASSUME AgentsInv, AgentsNext
  PROVE  AgentsInv'
<1>1. CASE \/ Elsewhere \/ Search \/ TurnPage \/ OpenDialog \/ CloseDialog
           \/ \E a \in Agents : Type(a)
  BY <1>1, AgentsQuiet
<1>2. CASE CheckHealth \/ FetchCard \/ Save \/ \E a \in Agents : Delete(a)
  BY <1>2, AgentsAsk
<1>3. CASE \E s \in Slots : ServeAgents(s) \/ LoseAgents(s)
  BY <1>3, AgentsServed
<1>4. CASE \E s \in Slots : TakeHealth(s) \/ TakeCard(s)
  BY <1>4, AgentsInformed
<1>5. CASE \E s \in Slots : TakeDelete(s) \/ TakeRegister(s)
  BY <1>5, AgentsChanged
<1>6. CASE \E s \in Slots : TakeList(s)
  BY <1>6, AgentsListed
<1> QED BY <1>1, <1>2, <1>3, <1>4, <1>5, <1>6 DEF AgentsNext

LEMMA AgentsShow ==
  ASSUME AgentsInv
  PROVE  AgentsSpinnersEnd /\ OwnAgentChangesAreShown /\ CardIsOfTheAddress
<1>1. AgentsSpinnersEnd
  BY DEF AgentsInv, AgentFlags, AgentsSpinnersEnd, OfDialog, Flying, OnTheirWay
<1>2. OwnAgentChangesAreShown
  BY DEF AgentsInv, OwnInv, OwnAgentChangesAreShown, Changing, Flying, OnTheirWay
<1>3. CardIsOfTheAddress
  BY DEF AgentsInv, CardInv, CardIsOfTheAddress
<1> QED BY <1>1, <1>2, <1>3

\* Any set of agents has a number; only that of none is 0.
LEMMA Numbers ==
  ASSUME NEW S \in SUBSET Agents
  PROVE  /\ IsFiniteSet(S) /\ Cardinality(S) \in Nat
         /\ Cardinality(S) <= Cardinality(Agents) /\ (Cardinality(S) = 0 <=> S = {})
BY AgentsAssumption, FS_Subset, FS_CardinalityType, FS_EmptySet

PagesInv == page \in 1..Cardinality(Agents) /\ PageShowsAgents

\* The first page is a page, and shows some agents if there are any.
LEMMA FirstPage ==
  ASSUME list'.agents \in SUBSET Agents, page' = 1
  PROVE  PagesInv'
<1>1. Cardinality(Agents) \in Nat \ {0}
  BY AgentsAssumption, FS_CardinalityType, FS_EmptySet
<1>2. list'.agents # {} => Cardinality(list'.agents) > 0
  BY Numbers
<1>3. (page' - 1) * PageSize = 0
  BY AgentsAssumption
<1>4. PageShowsAgents'
  BY <1>2, <1>3 DEF PageShowsAgents, OnPage, Filtered
<1> QED BY <1>1, <1>4 DEF PagesInv

LEMMA PagesStep ==
  ASSUME AgentsInv, PagesInv, AgentsNext
  PROVE  PagesInv'
<1>0. list.agents \in SUBSET Agents /\ list'.agents \in SUBSET Agents
  BY AgentsStep DEF AgentsInv, AgentTypes
<1>1. CASE UNCHANGED shownAgents
  BY <1>1 DEF shownAgents, PagesInv, PageShowsAgents, OnPage, Filtered
<1>2. CASE Search
  BY <1>0, <1>2, FirstPage DEF Search
<1>3. CASE TurnPage
  <2>1. PICK p \in 1..Cardinality(Filtered) :
          /\ (p - 1) * PageSize < Cardinality(Filtered)
          /\ page' = p /\ UNCHANGED <<list, query>>
    BY <1>3 DEF TurnPage
  <2>2. Filtered \in SUBSET Agents /\ Filtered' = Filtered
    BY <1>0, <2>1 DEF Filtered
  <2>3. Cardinality(Filtered) \in Nat /\ Cardinality(Filtered) <= Cardinality(Agents)
        /\ Cardinality(Agents) \in Nat
    BY <2>2, Numbers
  <2>4. page' \in 1..Cardinality(Agents)
    BY <2>1, <2>3
  <2>5. OnPage'
    <3>1. (p - 1) * PageSize \in Nat
      BY AgentsAssumption
    <3> QED BY <2>1, <2>2, <2>3, <3>1 DEF OnPage
  <2> QED BY <2>4, <2>5 DEF PagesInv, PageShowsAgents
<1>4. ASSUME NEW s \in Slots, TakeList(s)
      PROVE  PagesInv'
  <2>1. CASE Cardinality(list.agents) # Cardinality(list'.agents)
    BY <1>0, <1>4, <2>1, FirstPage DEF TakeList, CountChanged
  <2>2. CASE Cardinality(list.agents) = Cardinality(list'.agents)
    <3>1. page' = page /\ query' = query
      BY <1>4, <2>2 DEF TakeList, CountChanged
    <3>2. list'.agents # {} => list.agents # {}
      BY <1>0, <2>2, Numbers
    <3> QED BY <2>2, <3>1, <3>2 DEF PagesInv, PageShowsAgents, OnPage, Filtered
  <2> QED BY <2>1, <2>2
<1>5. CASE Elsewhere \/ CheckHealth \/ OpenDialog \/ CloseDialog \/ FetchCard \/ Save
           \/ \E a \in Agents : Delete(a) \/ Type(a)
  BY <1>1, <1>5 DEF Elsewhere, CheckHealth, OpenDialog, CloseDialog, FetchCard, Save, Delete, Type
<1>6. CASE \E s \in Slots : ServeAgents(s) \/ LoseAgents(s) \/ TakeHealth(s)
                            \/ TakeDelete(s) \/ TakeCard(s) \/ TakeRegister(s)
  BY <1>1, <1>6 DEF ServeAgents, LoseAgents, TakeHealth, TakeDelete, TakeCard, TakeRegister,
                    agentsVars, shownAgents
<1> QED BY <1>2, <1>3, <1>4, <1>5, <1>6 DEF AgentsNext

-----------------------------------------------------------------------------
(***************************************************************************)
(* The parser of the stream of events.                                     *)
(***************************************************************************)
Chars == [kind : {"none", "comment", "first", "second", "cr", "lf"}, event : Nat]
\* How many characters of a record are before the ends of its lines.
Content(c) == IF c = Comment THEN 1 ELSE 2

\* The text of a record, character by character.
LEMMA TextIs ==
  ASSUME ending \in Endings, NEW c \in Nat
  PROVE  LET t == Text(c) l == Content(c) d == Len(ending)
         IN /\ l \in {1, 2} /\ d \in {1, 2} /\ t \in Seq(Chars) /\ Len(t) = l + d + d
            /\ c = Comment => l = 1 /\ t[1] = Char("comment", 0)
            /\ c # Comment => l = 2 /\ t[1] = Char("first", c) /\ t[2] = Char("second", c)
            /\ d = 1 => /\ ending \in {<<LF>>, <<CR>>}
                        /\ t[l + 1] = ending[1] /\ t[l + 2] = ending[1]
            /\ d = 2 => /\ ending = <<CR, LF>>
                        /\ t[l + 1] = CR /\ t[l + 2] = LF /\ t[l + 3] = CR /\ t[l + 4] = LF
<1> DEFINE com == Char("comment", 0)
           a == Char("first", c)
           b == Char("second", c)
           t == Text(c)
<1>1. com \in Chars /\ a \in Chars /\ b \in Chars /\ CR \in Chars /\ LF \in Chars
  BY DEF Char, Chars, CR, LF
<1>2. t = (IF c = Comment THEN <<com>> ELSE <<a, b>>) \o ending \o ending
  BY DEF Text
<1> HIDE DEF com, a, b, t
<1>3. CASE ending = <<LF>>
  <2>1. Len(ending) = 1
    BY <1>3
  <2>2. CASE c = Comment
    BY <1>1, <1>2, <1>3, <2>2 DEF Content, com, t
  <2>3. CASE c # Comment
    BY <1>1, <1>2, <1>3, <2>3 DEF Content, a, b, t
  <2> QED BY <2>2, <2>3
<1>4. CASE ending = <<CR>>
  <2>2. CASE c = Comment
    BY <1>1, <1>2, <1>4, <2>2 DEF Content, com, t
  <2>3. CASE c # Comment
    BY <1>1, <1>2, <1>4, <2>3 DEF Content, a, b, t
  <2> QED BY <2>2, <2>3
<1>5. CASE ending = <<CR, LF>>
  <2>2. CASE c = Comment
    BY <1>1, <1>2, <1>5, <2>2 DEF Content, com, t
  <2>3. CASE c # Comment
    BY <1>1, <1>2, <1>5, <2>3 DEF Content, a, b, t
  <2> QED BY <2>2, <2>3
<1> QED BY <1>3, <1>4, <1>5 DEF Endings

\* A parser has these fields, whatever they hold.
ParserFields == {"line", "data", "out", "behind"}
IsParser(p) == p = [f \in ParserFields |-> p[f]]

\* What a character does.
TakesIn(p, char, q) ==
  /\ IsParser(q) /\ q.behind = char
  /\ char = LF /\ p.behind = CR => q.line = p.line /\ q.data = p.data /\ q.out = p.out
  /\ char \in {CR, LF} /\ ~(char = LF /\ p.behind = CR) =>
       /\ q.line = <<>>
       /\ p.line = <<>> => q.data = <<>> /\ q.out = p.out \o Dispatched(p.data)
       /\ p.line # <<>> /\ p.line[1].kind = "comment" => q.data = p.data /\ q.out = p.out
       /\ p.line # <<>> /\ p.line[1].kind # "comment" =>
            /\ q.data = Append(p.data, IF Len(p.line) = 2 THEN p.line[1].event ELSE Comment)
            /\ q.out = p.out
  /\ char \notin {CR, LF} => q.line = Append(p.line, char) /\ q.data = p.data /\ q.out = p.out

\* This is what consuming one does.
LEMMA CharTaken ==
  ASSUME NEW p, IsParser(p), NEW char, NEW q, q = ConsumeChar(p, char)
  PROVE  TakesIn(p, char, q)
<1> USE DEF TakesIn
<1> DEFINE r == IF char = LF /\ p.behind = CR THEN p
                ELSE IF char \in {CR, LF} THEN ConsumeLine(p)
                ELSE [p EXCEPT !.line = Append(@, char)]
<1>1. q = [r EXCEPT !.behind = char]
  BY DEF ConsumeChar
<1>2. CASE char = LF /\ p.behind = CR
  BY <1>1, <1>2 DEF IsParser, ParserFields
<1>3. CASE char \in {CR, LF} /\ ~(char = LF /\ p.behind = CR)
  <2>1. r = ConsumeLine(p)
    BY <1>3
  <2>2. CASE p.line = <<>>
    <3>1. r = [p EXCEPT !.data = <<>>, !.out = p.out \o Dispatched(p.data)]
      BY <2>1, <2>2 DEF ConsumeLine, DataAfterBlank
    <3> HIDE DEF r
    <3> QED BY <1>1, <1>3, <2>2, <3>1 DEF IsParser, ParserFields
  <2>3. CASE p.line # <<>> /\ p.line[1].kind = "comment"
    <3>1. r = [p EXCEPT !.line = <<>>]
      BY <2>1, <2>3 DEF ConsumeLine
    <3> HIDE DEF r
    <3> QED BY <1>1, <1>3, <2>3, <3>1 DEF IsParser, ParserFields
  <2>4. CASE p.line # <<>> /\ p.line[1].kind # "comment"
    <3> DEFINE e == IF Len(p.line) = 2 THEN p.line[1].event ELSE Comment
    <3>1. r = [p EXCEPT !.line = <<>>, !.data = Append(p.data, e)]
      BY <2>1, <2>4 DEF ConsumeLine
    <3> HIDE DEF r
    <3> QED BY <1>1, <1>3, <2>4, <3>1 DEF IsParser, ParserFields
  <2> QED BY <2>2, <2>3, <2>4
<1>4. CASE char \notin {CR, LF}
  <2>1. r = [p EXCEPT !.line = Append(p.line, char)]
    BY <1>4
  <2> HIDE DEF r
  <2> QED BY <1>1, <1>4, <2>1 DEF IsParser, ParserFields
<1> QED BY <1>2, <1>3, <1>4

\* Records are numbered as they come, or have no data.
RecordsOK ==
  /\ records \in Seq(Nat) /\ Len(records) <= MaxRecords
  /\ \A i \in 1..Len(records) : records[i] \in {Comment, i}
  /\ ending \in Endings

\* The text of the first i records, where it ends, and their events.
Upto(i) == FlattenSeq([j \in 1..i |-> Text(records[j])])
At(i) == Len(Upto(i))
Taken(i) == Kept(SubSeq(records, 1, i), Events)
EventOf(c) == IF c = Comment THEN <<>> ELSE <<c>>

\* The text of a record is not empty.
LEMMA RecordText ==
  ASSUME RecordsOK, NEW i \in 1..Len(records)
  PROVE  /\ records[i] \in Nat /\ Text(records[i]) \in Seq(Chars)
         /\ Len(Text(records[i])) \in Nat \ {0}
<1>1. records[i] \in Nat /\ ending \in Endings
  BY DEF RecordsOK
<1> DEFINE t == Text(records[i])
           l == Content(records[i])
           d == Len(ending)
<1>2. l \in {1, 2} /\ d \in {1, 2} /\ t \in Seq(Chars) /\ Len(t) = l + d + d
  BY <1>1, TextIs
<1> HIDE DEF t, l, d
<1>3. Len(t) \in Nat \ {0}
  BY <1>2
<1> QED BY <1>1, <1>2, <1>3 DEF t

\* Text is added record by record.
LEMMA Geometry ==
  ASSUME RecordsOK
  PROVE  LET n == Len(records)
         IN /\ n \in Nat /\ Upto(0) = <<>> /\ At(0) = 0 /\ Upto(n) = Stream
            /\ \A i \in 0..n : Upto(i) \in Seq(Chars) /\ At(i) \in Nat
            /\ \A i \in 0..(n - 1) : /\ Upto(i + 1) = Upto(i) \o Text(records[i + 1])
                                     /\ At(i + 1) = At(i) + Len(Text(records[i + 1]))
                                     /\ At(i) < At(i + 1)
<1> DEFINE n == Len(records)
           ss == [j \in 1..n |-> Text(records[j])]
<1>1. n \in Nat /\ DOMAIN records = 1..n
  BY DEF RecordsOK
<1>2. ss \in [1..n -> Seq(Chars)]
  BY RecordText
<1>3. \A i \in 0..n : Reading!Flat(ss, i) = Upto(i)
  <2> SUFFICES ASSUME NEW i \in 0..n
               PROVE  Reading!Flat(ss, i) = Upto(i)
    OBVIOUS
  <2>1. [j \in 1..i |-> ss[j]] = [j \in 1..i |-> Text(records[j])]
    BY <1>1
  <2> QED BY <2>1, SameArrays DEF Upto, Reading!Flat
<1>4. Upto(n) = Stream
  BY <1>1 DEF Upto, Stream
<1> HIDE DEF ss, n
<1>5. /\ Reading!Flat(ss, 0) = <<>>
      /\ \A k \in 0..n : Reading!Flat(ss, k) \in Seq(Chars)
      /\ \A k \in 0..(n - 1) : Reading!Flat(ss, k + 1) = Reading!Flat(ss, k) \o ss[k + 1]
  BY <1>1, <1>2, Reading!FlatGrows
<1>6. Upto(0) = <<>> /\ At(0) = 0
  BY <1>1, <1>3, <1>5 DEF At
<1>7. \A i \in 0..n : Upto(i) \in Seq(Chars) /\ At(i) \in Nat
  BY <1>3, <1>5 DEF At
<1>8. ASSUME NEW i \in 0..(n - 1)
      PROVE  /\ Upto(i + 1) = Upto(i) \o Text(records[i + 1])
             /\ At(i + 1) = At(i) + Len(Text(records[i + 1]))
             /\ At(i) < At(i + 1)
  <2>1. i \in 0..n /\ i + 1 \in 0..n /\ i + 1 \in 1..n
    BY <1>1
  <2>2. ss[i + 1] = Text(records[i + 1])
    BY <2>1 DEF ss
  <2>3. Upto(i + 1) = Upto(i) \o Text(records[i + 1])
    BY <1>3, <1>5, <2>1, <2>2
  <2>4. Text(records[i + 1]) \in Seq(Chars) /\ Len(Text(records[i + 1])) \in Nat \ {0}
    BY <2>1, RecordText DEF n
  <2>5. At(i + 1) = At(i) + Len(Text(records[i + 1]))
    BY <1>7, <2>1, <2>3, <2>4 DEF At
  <2> QED BY <1>7, <2>1, <2>3, <2>4, <2>5
<1> QED BY <1>1, <1>4, <1>6, <1>7, <1>8 DEF n

\* What comes later does not change what was there.
LEMMA Ahead ==
  ASSUME RecordsOK, NEW i \in 0..Len(records), NEW j \in i..Len(records)
  PROVE  At(i) <= At(j) /\ \A k \in 1..At(i) : Upto(j)[k] = Upto(i)[k]
<1> DEFINE n == Len(records)
           Same(m) == At(i) <= At(m) /\ \A k \in 1..At(i) : Upto(m)[k] = Upto(i)[k]
           S == {m \in Nat : i + m <= n => Same(i + m)}
<1>1. n \in Nat /\ i \in Nat
  BY Geometry
<1>2. 0 \in S
  <2>1. Same(i)
    BY Geometry
  <2> QED BY <1>1, <2>1
<1>3. ASSUME NEW m \in S
      PROVE  m + 1 \in S
  <2> SUFFICES ASSUME i + (m + 1) <= n
               PROVE  Same(i + (m + 1))
    OBVIOUS
  <2> DEFINE a == i + m
  <2>1. a \in 0..(n - 1) /\ a \in 0..n /\ i + (m + 1) = a + 1 /\ a + 1 \in 0..n
    BY <1>1
  <2>2. At(i) <= At(a) /\ \A k \in 1..At(i) : Upto(a)[k] = Upto(i)[k]
    BY <2>1
  <2> DEFINE t == Text(records[a + 1])
  <2>3. Upto(a + 1) = Upto(a) \o t /\ At(a) < At(a + 1)
    BY <2>1, Geometry
  <2>4. Upto(a) \in Seq(Chars) /\ At(a) \in Nat /\ At(i) \in Nat /\ At(a + 1) \in Nat
    BY <1>1, <2>1, Geometry
  <2>5. t \in Seq(Chars)
    BY <2>1, RecordText
  <2> HIDE DEF a, t
  <2>6. \A k \in 1..At(i) : Upto(a + 1)[k] = Upto(a)[k]
    BY <2>2, <2>3, <2>4, <2>5 DEF At
  <2>7. Same(a + 1)
    BY <2>2, <2>3, <2>4, <2>6
  <2> QED BY <2>1, <2>7
<1> HIDE DEF S
<1>4. S = Nat
  <2>1. S \in SUBSET Nat
    BY DEF S
  <2> QED BY <1>2, <1>3, <2>1, Reading!AllNumbers
<1>5. j - i \in S /\ i + (j - i) = j /\ j <= n
  BY <1>1, <1>4
<1>6. Same(j)
  <2>1. i + (j - i) <= n => Same(i + (j - i))
    BY <1>5 DEF S
  <2> QED BY <1>5, <2>1
<1> QED BY <1>6

\* A character of a record is in the stream.
LEMMA CharAt ==
  ASSUME RecordsOK, NEW i \in 0..(Len(records) - 1), NEW t, t = Text(records[i + 1]),
         NEW o \in 1..Len(t)
  PROVE  At(i) + o \in 1..Len(Stream) /\ Stream[At(i) + o] = t[o]
<1> DEFINE n == Len(records)
<1>1. n \in Nat /\ i \in 0..n /\ i + 1 \in 0..n /\ i + 1 \in 1..n /\ n \in (i + 1)..n
  BY Geometry
<1>2. Upto(i + 1) = Upto(i) \o t /\ At(i + 1) = At(i) + Len(t)
  BY Geometry
<1>3. Upto(i) \in Seq(Chars) /\ At(i) \in Nat /\ t \in Seq(Chars) /\ Len(t) \in Nat
  BY <1>1, Geometry, RecordText
<1>4. Upto(i + 1)[At(i) + o] = t[o]
  BY <1>2, <1>3 DEF At
<1>5. At(i + 1) <= At(n) /\ \A k \in 1..At(i + 1) : Upto(n)[k] = Upto(i + 1)[k]
  BY <1>1, Ahead
<1>6. Upto(n) = Stream /\ At(n) \in Nat /\ At(n) = Len(Stream)
  BY <1>1, Geometry DEF At
<1> DEFINE u == At(i) + o
<1>7. u \in 1..At(i + 1) /\ At(i + 1) \in Nat
  BY <1>2, <1>3
<1> HIDE DEF u
<1>8. u \in 1..Len(Stream) /\ Stream[u] = Upto(i + 1)[u]
  BY <1>5, <1>6, <1>7
<1> QED BY <1>4, <1>8 DEF u

\* One more event, if the record has one.
LEMMA EventAdded ==
  ASSUME NEW a \in Seq(Events), NEW c, c # Comment => c \in Events
  PROVE  /\ a \o EventOf(c) = IF c = Comment THEN a ELSE Append(a, c)
         /\ a \o EventOf(c) \in Seq(Events) /\ EventOf(c) \in Seq(Events)
<1>1. CASE c = Comment
  BY <1>1 DEF EventOf
<1>2. CASE c # Comment
  <2>1. EventOf(c) = <<c>> /\ c \in Events
    BY <1>2 DEF EventOf
  <2>2. a \o <<c>> = Append(a, c) /\ Append(a, c) \in Seq(Events)
    BY <2>1
  <2> QED BY <1>2, <2>1, <2>2
<1> QED BY <1>1, <1>2

\* Events are added record by record.
LEMMA TakenGrows ==
  ASSUME RecordsOK
  PROVE  LET n == Len(records)
         IN /\ Taken(0) = <<>> /\ Taken(n) = Sent
            /\ \A i \in 0..n : Taken(i) \in Seq(Events)
            /\ \A i \in 0..(n - 1) : /\ Taken(i + 1) = Taken(i) \o EventOf(records[i + 1])
                                     /\ EventOf(records[i + 1]) \in Seq(Events)
<1> DEFINE n == Len(records)
<1>1. records \in Seq(Nat) /\ n \in Nat /\ n <= MaxRecords /\ MaxRecords \in Nat
  BY SSEAssumption DEF RecordsOK
<1>2. Taken(0) = <<>>
  <2>1. SubSeq(records, 1, 0) = <<>>
    BY <1>1
  <2> QED BY <2>1, Reading!KeptNone, SameArrays DEF Taken
<1>3. Taken(n) = Sent
  <2>1. SubSeq(records, 1, n) = records
    BY <1>1
  <2> QED BY <2>1 DEF Taken, Sent
<1>4. ASSUME NEW i \in 0..(n - 1)
      PROVE  /\ Taken(i + 1) = IF records[i + 1] = Comment THEN Taken(i) ELSE Append(Taken(i), records[i + 1])
             /\ EventOf(records[i + 1]) \in Seq(Events)
  <2> DEFINE s == SubSeq(records, 1, i)
             e == records[i + 1]
  <2>1. s \in Seq(Nat) /\ e \in Nat /\ SubSeq(records, 1, i + 1) = Append(s, e)
    BY <1>1
  <2>2. e \in Events <=> e # Comment
    BY <1>1, <2>1 DEF RecordsOK, Events, Comment
  <2> HIDE DEF s, e
  <2>5. Reading!Kept(Append(s, e), Events)
          = IF e \in Events THEN Append(Reading!Kept(s, Events), e) ELSE Reading!Kept(s, Events)
    BY <2>1, Reading!KeptMore
  <2>3. Kept(Append(s, e), Events) = IF e \in Events THEN Append(Kept(s, Events), e) ELSE Kept(s, Events)
    BY <2>5, SameArrays
  <2>4. EventOf(e) \in Seq(Events)
    BY <2>2 DEF EventOf
  <2> QED BY <2>1, <2>2, <2>3, <2>4 DEF Taken, s, e
<1> DEFINE S == {m \in Nat : m <= n => Taken(m) \in Seq(Events)}
<1>5. 0 \in S
  <2>1. <<>> \in Seq(Events)
    OBVIOUS
  <2> QED BY <1>2, <2>1
<1>6. ASSUME NEW m \in S
      PROVE  m + 1 \in S
  <2> SUFFICES ASSUME m + 1 <= n
               PROVE  Taken(m + 1) \in Seq(Events)
    OBVIOUS
  <2>1. m \in 0..(n - 1) /\ Taken(m) \in Seq(Events)
    BY <1>1
  <2>2. records[m + 1] # Comment => records[m + 1] \in Events
    BY <1>1, <2>1 DEF RecordsOK, Events, Comment
  <2>4. Taken(m) \o EventOf(records[m + 1])
          = IF records[m + 1] = Comment THEN Taken(m) ELSE Append(Taken(m), records[m + 1])
    BY <2>1, <2>2, EventAdded
  <2>5. Taken(m + 1)
          = IF records[m + 1] = Comment THEN Taken(m) ELSE Append(Taken(m), records[m + 1])
    BY <1>4, <2>1
  <2>3. Taken(m + 1) = Taken(m) \o EventOf(records[m + 1])
    BY <2>4, <2>5, Zenon
  <2> QED BY <2>1, <2>2, <2>3, EventAdded
<1>7. \A i \in 0..n : Taken(i) \in Seq(Events)
  <2> HIDE DEF S
  <2>1. S \in SUBSET Nat
    BY DEF S
  <2>2. S = Nat
    BY <1>5, <1>6, <2>1, Reading!AllNumbers
  <2> QED BY <1>1, <2>2 DEF S
<1>8. ASSUME NEW i \in 0..(n - 1)
      PROVE  Taken(i + 1) = Taken(i) \o EventOf(records[i + 1])
  <2>1. records[i + 1] # Comment => records[i + 1] \in Events
    BY <1>1 DEF RecordsOK, Events, Comment
  <2>2. Taken(i) \in Seq(Events)
    BY <1>1, <1>7
  <2>4. Taken(i) \o EventOf(records[i + 1])
          = IF records[i + 1] = Comment THEN Taken(i) ELSE Append(Taken(i), records[i + 1])
    BY <2>1, <2>2, EventAdded
  <2>5. Taken(i + 1)
          = IF records[i + 1] = Comment THEN Taken(i) ELSE Append(Taken(i), records[i + 1])
    BY <1>4
  <2> QED BY <2>4, <2>5, Zenon
<1> QED BY <1>2, <1>3, <1>4, <1>7, <1>8

\* The events of fewer records are the first of those of more.
LEMMA TakenFirst ==
  ASSUME RecordsOK, NEW i \in 0..Len(records), NEW j \in i..Len(records)
  PROVE  IsPrefix(Taken(i), Taken(j))
<1> DEFINE n == Len(records)
           Same(m) == Len(Taken(i)) <= Len(Taken(m)) /\ \A k \in 1..Len(Taken(i)) : Taken(m)[k] = Taken(i)[k]
           S == {m \in Nat : i + m <= n => Same(i + m)}
<1>1. n \in Nat /\ i \in Nat
  BY Geometry
<1>2. 0 \in S
  <2>1. Same(i)
    BY TakenGrows
  <2> QED BY <1>1, <2>1
<1>3. ASSUME NEW m \in S
      PROVE  m + 1 \in S
  <2> SUFFICES ASSUME i + (m + 1) <= n
               PROVE  Same(i + (m + 1))
    OBVIOUS
  <2> DEFINE a == i + m
             e == EventOf(records[a + 1])
  <2>1. a \in 0..(n - 1) /\ a \in 0..n /\ i + (m + 1) = a + 1 /\ a + 1 \in 0..n
    BY <1>1
  <2>2. Same(a)
    BY <2>1
  <2>3. Taken(a + 1) = Taken(a) \o e /\ e \in Seq(Events)
    BY <2>1, TakenGrows
  <2>4. Taken(a) \in Seq(Events) /\ Taken(i) \in Seq(Events)
    BY <1>1, <2>1, TakenGrows
  <2> HIDE DEF a, e
  <2>7. Same(a + 1)
    BY <2>2, <2>3, <2>4
  <2> QED BY <2>1, <2>7
<1> HIDE DEF S
<1>4. S = Nat
  <2>1. S \in SUBSET Nat
    BY DEF S
  <2> QED BY <1>2, <1>3, <2>1, Reading!AllNumbers
<1>5. j - i \in S /\ i + (j - i) = j /\ j <= n
  BY <1>1, <1>4
<1>6. Same(j)
  <2>1. i + (j - i) <= n => Same(i + (j - i))
    BY <1>5 DEF S
  <2> QED BY <1>5, <2>1
<1>7. Taken(i) \in Seq(Events) /\ Taken(j) \in Seq(Events)
  BY <1>1, TakenGrows
<1> QED BY <1>6, <1>7 DEF IsPrefix

\* i records and o characters of the next were read.
Place(i, o) ==
  /\ i \in 0..Len(records) /\ o \in Nat
  /\ IF i = Len(records) THEN o = 0 ELSE o < Len(Text(records[i + 1]))

\* Where the parser may then be: the line has begun, the event is collected, or
\* it was given to the caller, which is early if CR and LF came in two chunks.
MayBe(p, i, o) ==
  LET c == records[i + 1]
      l == Content(c)
      d == Len(ending)
  IN /\ o = 0 \/ o > l => p.line = <<>>
     /\ o = 1 => p.line = <<IF c = Comment THEN Char("comment", 0) ELSE Char("first", c)>>
     /\ o = 2 /\ l = 2 => p.line = <<Char("first", c), Char("second", c)>>
     /\ \/ o <= l /\ p.data = <<>> /\ p.out = Taken(i)
        \/ o > l /\ o <= l + d /\ p.data = EventOf(c) /\ p.out = Taken(i)
        \/ o > l + 1 /\ p.data = <<>> /\ p.out = Taken(i) \o EventOf(c)

\* No line ends in CR where all end in LF.
IsBehind(p) == p.behind = CR => ending # <<LF>>

\* One event is given to the caller, no data is not.
LEMMA Dispatching ==
  /\ Dispatched(<<>>) = <<>>
  /\ \A c : Dispatched(EventOf(c)) = EventOf(c)
<1>1. Dispatched(<<>>) = <<>>
  BY DEF Dispatched
<1>2. ASSUME NEW c
      PROVE  Dispatched(EventOf(c)) = EventOf(c)
  <2>1. CASE c = Comment
    BY <1>1, <2>1 DEF EventOf
  <2>2. CASE c # Comment
    <3>1. EventOf(c) = <<c>>
      BY <2>2 DEF EventOf
    <3> QED BY <2>2, <3>1 DEF Dispatched
  <2> QED BY <2>1, <2>2
<1> QED BY <1>1, <1>2

\* Characters of different kinds differ.
LEMMA CharKinds ==
  /\ CR # LF /\ \A k, n : Char(k, n).kind = k /\ Char(k, n).event = n
  /\ \A n : \A k \in {"comment", "first", "second"} : Char(k, n) \notin {CR, LF}
BY DEF CR, LF, Char

\* What Append does.
LEMMA OneCharMore ==
  ASSUME NEW S, NEW s \in Seq(S), NEW b \in S
  PROVE  /\ Append(s, b) \in Seq(S) /\ Len(Append(s, b)) = Len(s) + 1
         /\ \A k \in 1..Len(s) : Append(s, b)[k] = s[k]
         /\ Append(s, b)[Len(s) + 1] = b
OBVIOUS

\* A line of one character gets a second.
LEMMA TwoChars ==
  ASSUME NEW a, NEW b
  PROVE  Append(<<a>>, b) = <<a, b>>
<1> DEFINE S == {a, b}
           s == <<a>>
           u == <<a, b>>
           v == Append(s, b)
<1>1. s \in Seq(S) /\ u \in Seq(S) /\ b \in S /\ Len(s) = 1 /\ Len(u) = 2
  OBVIOUS
<1>2. s[1] = a /\ u[1] = a /\ u[2] = b
  OBVIOUS
<1> HIDE DEF S, s, u
<1>3. /\ v \in Seq(S) /\ Len(v) = Len(s) + 1
      /\ \A k \in 1..Len(s) : v[k] = s[k]
      /\ v[Len(s) + 1] = b
  BY <1>1, OneCharMore
<1> HIDE DEF v
<1>4. Len(v) = 2 /\ v[1] = a /\ v[2] = b
  BY <1>1, <1>2, <1>3
<1>5. \A k \in 1..2 : u[k] = v[k]
  BY <1>2, <1>4
<1>6. u = v
  BY <1>1, <1>3, <1>4, <1>5
<1> QED BY <1>6 DEF s, u, v

\* One character brings the parser to the next place.
LEMMA CharStep ==
  ASSUME RecordsOK, NEW i \in 0..(Len(records) - 1), NEW o \in Nat,
         o < Len(Text(records[i + 1])),
         NEW p, IsParser(p), IsBehind(p), MayBe(p, i, o),
         NEW q, q = ConsumeChar(p, Text(records[i + 1])[o + 1])
  PROVE  IsParser(q) /\ IsBehind(q) /\ MayBe(q, i, o + 1)
<1> DEFINE c == records[i + 1]
           t == Text(c)
           l == Content(c)
           d == Len(ending)
           char == t[o + 1]
           e == EventOf(c)
           out == Taken(i)
<1>1. c \in Nat /\ ending \in Endings /\ i \in 0..Len(records)
  <2>1. Len(records) \in Nat
    BY Geometry
  <2> QED BY <2>1 DEF RecordsOK
<1>2. /\ l \in {1, 2} /\ d \in {1, 2} /\ Len(t) = l + d + d
      /\ c = Comment => l = 1 /\ t[1] = Char("comment", 0)
      /\ c # Comment => l = 2 /\ t[1] = Char("first", c) /\ t[2] = Char("second", c)
      /\ d = 1 => /\ ending \in {<<LF>>, <<CR>>}
                  /\ t[l + 1] = ending[1] /\ t[l + 2] = ending[1]
      /\ d = 2 => /\ ending = <<CR, LF>>
                  /\ t[l + 1] = CR /\ t[l + 2] = LF /\ t[l + 3] = CR /\ t[l + 4] = LF
  BY <1>1, TextIs
<1>3. /\ IsParser(q) /\ q.behind = char
      /\ char = LF /\ p.behind = CR => q.line = p.line /\ q.data = p.data /\ q.out = p.out
      /\ char \in {CR, LF} /\ ~(char = LF /\ p.behind = CR) =>
           /\ q.line = <<>>
           /\ p.line = <<>> => q.data = <<>> /\ q.out = p.out \o Dispatched(p.data)
           /\ p.line # <<>> /\ p.line[1].kind = "comment" => q.data = p.data /\ q.out = p.out
           /\ p.line # <<>> /\ p.line[1].kind # "comment" =>
                /\ q.data = Append(p.data, IF Len(p.line) = 2 THEN p.line[1].event ELSE Comment)
                /\ q.out = p.out
      /\ char \notin {CR, LF} => q.line = Append(p.line, char) /\ q.data = p.data /\ q.out = p.out
  <2>1. q = ConsumeChar(p, char)
    OBVIOUS
  <2> HIDE DEF char
  <2>2. TakesIn(p, char, q)
    BY <2>1, CharTaken
  <2> QED BY <2>2 DEF TakesIn
<1>4. /\ o = 0 \/ o > l => p.line = <<>>
      /\ o = 1 => p.line = <<IF c = Comment THEN Char("comment", 0) ELSE Char("first", c)>>
      /\ o = 2 /\ l = 2 => p.line = <<Char("first", c), Char("second", c)>>
      /\ \/ o <= l /\ p.data = <<>> /\ p.out = out
         \/ o > l /\ o <= l + d /\ p.data = e /\ p.out = out
         \/ o > l + 1 /\ p.data = <<>> /\ p.out = out \o e
  BY DEF MayBe
<1>5. out \in Seq(Events) /\ e \in Seq(Events) /\ (c # Comment => e = <<c>>) /\ (c = Comment => e = <<>>)
  BY <1>1, TakenGrows DEF EventOf
<1>6. Dispatched(<<>>) = <<>> /\ Dispatched(e) = e
  BY Dispatching
<1>7. \/ /\ q.line = <<>> /\ o >= l
         /\ \/ o + 1 <= l + d /\ q.data = e /\ q.out = out
            \/ o > l /\ q.data = <<>> /\ q.out = out \o e
      \/ /\ q.line = Append(p.line, char) /\ o < l
         /\ q.data = <<>> /\ q.out = out
  <2> HIDE DEF t, c, l, d, char, e, out
  <2>1. CASE o < l
    <3>1. char \notin {CR, LF}
      BY <1>2, <2>1, CharKinds DEF char
    <3> QED BY <1>2, <1>3, <1>4, <2>1, <3>1
  <2>2. CASE o = l
    <3>1. char \in {CR, LF} /\ ~(char = LF /\ p.behind = CR)
      <4>1. CASE d = 1
        <5>1. char = ending[1] /\ ending \in {<<LF>>, <<CR>>}
          BY <1>2, <2>2, <4>1 DEF char
        <5> QED BY <5>1, CharKinds DEF IsBehind
      <4>2. CASE d = 2
        <5>1. char = CR
          BY <1>2, <2>2, <4>2 DEF char
        <5> QED BY <5>1, CharKinds
      <4> QED BY <1>2, <4>1, <4>2
    <3>2. p.data = <<>> /\ p.out = out
      BY <1>2, <1>4, <2>2
    <3>3. CASE c = Comment
      <4>1. p.line = <<Char("comment", 0)>>
        BY <1>2, <1>4, <2>2, <3>3
      <4>2. p.line # <<>> /\ p.line[1].kind = "comment"
        BY <4>1, CharKinds
      <4> QED BY <1>2, <1>3, <1>5, <2>2, <3>1, <3>2, <3>3, <4>2
    <3>4. CASE c # Comment
      <4>1. p.line = <<Char("first", c), Char("second", c)>>
        BY <1>2, <1>4, <2>2, <3>4
      <4>2. p.line # <<>> /\ p.line[1].kind = "first" /\ Len(p.line) = 2 /\ p.line[1].event = c
        BY <4>1, CharKinds
      <4>3. q.line = <<>> /\ q.data = <<c>> /\ q.out = out
        BY <1>3, <3>1, <3>2, <4>2
      <4>4. q.data = e
        BY <1>5, <3>4, <4>3
      <4> QED BY <1>2, <2>2, <4>3, <4>4
    <3> QED BY <3>3, <3>4
  <2>3. CASE o > l
    <3>1. char \in {CR, LF} /\ p.line = <<>>
      <4>1. CASE d = 1
        <5>1. char = ending[1] /\ ending \in {<<LF>>, <<CR>>}
          BY <1>2, <2>3, <4>1 DEF char, t, c
        <5> QED BY <1>4, <2>3, <5>1
      <4>2. CASE d = 2
        <5>1. o = l + 1 \/ o = l + 2 \/ o = l + 3
          BY <1>2, <2>3, <4>2 DEF t, c
        <5>2. char \in {CR, LF}
          BY <1>2, <4>2, <5>1 DEF char
        <5> QED BY <1>4, <2>3, <5>2
      <4> QED BY <1>2, <4>1, <4>2
    <3>2. \/ o <= l + d /\ p.data = e /\ p.out = out
          \/ o > l + 1 /\ p.data = <<>> /\ p.out = out \o e
      BY <1>2, <1>4, <2>3
    <3>3. CASE ~(char = LF /\ p.behind = CR)
      <4>1. q.line = <<>> /\ q.data = <<>> /\ q.out = p.out \o Dispatched(p.data)
        BY <1>3, <3>1, <3>3
      <4>2. q.out = out \o e
        <5>1. (out \o e) \o <<>> = out \o e
          BY <1>5
        <5> QED BY <1>6, <3>2, <4>1, <5>1
      <4>3. o >= l
        BY <1>2, <2>3
      <4> QED BY <2>3, <4>1, <4>2, <4>3
    <3>4. CASE char = LF /\ p.behind = CR
      <4>1. q.line = <<>> /\ q.data = p.data /\ q.out = p.out
        BY <1>3, <3>1, <3>4
      <4>2. d = 2
        <5> SUFFICES ASSUME d = 1 PROVE FALSE
          BY <1>2
        <5>1. char = ending[1] /\ ending \in {<<LF>>, <<CR>>}
          BY <1>2, <2>3 DEF char, t, c
        <5> QED BY <3>4, <5>1, CharKinds DEF IsBehind
      <4>3. o = l + 1 \/ o = l + 3
        <5>1. o = l + 1 \/ o = l + 2 \/ o = l + 3
          BY <1>2, <2>3, <4>2 DEF t, c
        <5>2. o # l + 2
          BY <1>2, <3>4, <4>2, CharKinds DEF char
        <5> QED BY <5>1, <5>2
      <4> QED BY <1>2, <2>3, <3>2, <4>1, <4>2, <4>3
    <3> QED BY <3>3, <3>4
  <2> QED BY <1>2, <2>1, <2>2, <2>3
<1>8. MayBe(q, i, o + 1)
  <2> HIDE DEF t, l, d, char, e, out
  <2>1. CASE o >= l
    <3>1. q.line = <<>> /\ o + 1 > l /\ o + 1 # 0 /\ ~(o + 1 = 1) /\ ~(o + 1 = 2 /\ l = 2)
      BY <1>2, <1>7, <2>1
    <3>2. \/ o + 1 > l /\ o + 1 <= l + d /\ q.data = e /\ q.out = out
          \/ o + 1 > l + 1 /\ q.data = <<>> /\ q.out = out \o e
      BY <1>2, <1>7, <2>1
    <3> QED BY <3>1, <3>2 DEF MayBe, l, d, e, out
  <2>2. CASE o < l
    <3>1. q.line = Append(p.line, char) /\ q.data = <<>> /\ q.out = out
      BY <1>2, <1>7, <2>2
    <3>2. CASE o = 0
      <4>4. p.line = <<>> /\ char = t[1]
        BY <1>4, <3>2 DEF char
      <4>1. q.line = <<char>> /\ char = t[1]
        BY <3>1, <4>4
      <4>2. q.line = <<IF c = Comment THEN Char("comment", 0) ELSE Char("first", c)>>
        BY <1>2, <4>1
      <4>3. o + 1 = 1 /\ o + 1 <= l /\ ~(o + 1 > l)
        BY <1>2, <3>2
      <4> QED BY <3>1, <4>2, <4>3 DEF MayBe, l, d, e, out
    <3>3. CASE o = 1
      <4>1. l = 2 /\ c # Comment
        BY <1>2, <2>2, <3>3
      <4>2. q.line = <<Char("first", c), Char("second", c)>>
        <5>1. p.line = <<Char("first", c)>>
          BY <1>4, <3>3, <4>1
        <5>2. char = Char("second", c)
          BY <1>2, <3>3, <4>1 DEF char
        <5>3. Append(<<Char("first", c)>>, Char("second", c)) = <<Char("first", c), Char("second", c)>>
          BY TwoChars
        <5> QED BY <3>1, <5>1, <5>2, <5>3, Zenon
      <4>3. o + 1 = 2 /\ o + 1 <= l /\ ~(o + 1 > l)
        BY <3>3, <4>1
      <4> QED BY <3>1, <4>2, <4>3 DEF MayBe, l, d, e, out
    <3> QED BY <1>2, <2>2, <3>2, <3>3
  <2> QED BY <1>2, <2>1, <2>2
<1>9. IsBehind(q)
  <2> SUFFICES ASSUME char = CR PROVE ending # <<LF>>
    BY <1>3 DEF IsBehind
  <2> SUFFICES ASSUME ending = <<LF>> PROVE FALSE
    OBVIOUS
  <2>1. d = 1 /\ ending[1] = LF
    OBVIOUS
  <2> HIDE DEF t, c, l, d, char, e, out
  <2>2. o = 0 \/ o = 1 \/ o = l \/ o = l + 1
    BY <1>2, <2>1 DEF t, c
  <2> QED BY <1>2, <2>1, <2>2, CharKinds DEF char
<1> QED BY <1>3, <1>8, <1>9

\* The parser after f characters.
Good(p, f) ==
  /\ IsParser(p) /\ IsBehind(p)
  /\ \E i \in 0..Len(records), o \in Nat : Place(i, o) /\ f = At(i) + o /\ MayBe(p, i, o)

\* A record has one or two such characters.
LEMMA ContentIs == \A c : Content(c) \in {1, 2}
BY DEF Content

\* Where the parser is in the stream.
LEMMA PlaceIn ==
  ASSUME RecordsOK, NEW i \in 0..Len(records), NEW o \in Nat, Place(i, o)
  PROVE  LET n == Len(records)
         IN /\ At(i) + o \in 0..Len(Stream)
            /\ i = n => o = 0 /\ At(i) + o = Len(Stream)
            /\ i # n => /\ i \in 0..(n - 1) /\ o < Len(Text(records[i + 1]))
                        /\ At(i) + o < At(i + 1)
<1> DEFINE n == Len(records)
<1>1. n \in Nat /\ Upto(n) = Stream /\ At(n) = Len(Stream) /\ At(n) \in Nat /\ At(i) \in Nat
  BY Geometry DEF At
<1>2. CASE i = n
  BY <1>1, <1>2 DEF Place
<1>3. CASE i # n
  <2>1. i \in 0..(n - 1) /\ o < Len(Text(records[i + 1])) /\ i + 1 \in 0..n /\ n \in (i + 1)..n
    BY <1>1, <1>3 DEF Place
  <2>2. At(i + 1) = At(i) + Len(Text(records[i + 1])) /\ At(i + 1) <= At(n) /\ At(i + 1) \in Nat
    BY <2>1, Geometry, Ahead
  <2>3. Len(Text(records[i + 1])) \in Nat
    BY <2>1, <1>1, RecordText
  <2> QED BY <1>1, <1>3, <2>1, <2>2, <2>3
<1> QED BY <1>2, <1>3

\* The parser is where it should be after one more character.
LEMMA GoodStep ==
  ASSUME RecordsOK, NEW f \in Nat, f < Len(Stream), NEW p, Good(p, f),
         NEW q, q = ConsumeChar(p, Stream[f + 1])
  PROVE  Good(q, f + 1)
<1> DEFINE n == Len(records)
<1>1. PICK i \in 0..n, o \in Nat : Place(i, o) /\ f = At(i) + o /\ MayBe(p, i, o)
  BY DEF Good
<1>2. n \in Nat /\ At(i) \in Nat
  BY Geometry
<1>3. i \in 0..(n - 1) /\ o < Len(Text(records[i + 1]))
  BY <1>1, PlaceIn
<1> DEFINE t == Text(records[i + 1])
           l == Content(records[i + 1])
           d == Len(ending)
<1>4. i + 1 \in 0..n /\ i + 1 \in 1..n /\ i \in 0..n
  BY <1>2, <1>3
<1>5. Len(t) \in Nat /\ o + 1 \in 1..Len(t)
  BY <1>3, <1>4, RecordText
<1>6. Stream[f + 1] = t[o + 1]
  <2>1. Stream[At(i) + (o + 1)] = t[o + 1]
    BY <1>3, <1>5, CharAt
  <2>2. At(i) + (o + 1) = f + 1
    BY <1>1, <1>2
  <2> QED BY <2>1, <2>2
<1>7. IsParser(q) /\ IsBehind(q) /\ MayBe(q, i, o + 1)
  <2>1. IsParser(p) /\ IsBehind(p)
    BY DEF Good
  <2>2. q = ConsumeChar(p, Text(records[i + 1])[o + 1])
    BY <1>6
  <2> QED BY <1>1, <1>3, <2>1, <2>2, CharStep
<1>8. CASE o + 1 < Len(t)
  <2>1. Place(i, o + 1)
    BY <1>2, <1>3, <1>8 DEF Place
  <2>2. f + 1 = At(i) + (o + 1) /\ o + 1 \in Nat
    BY <1>1, <1>2
  <2> QED BY <1>4, <1>7, <2>1, <2>2 DEF Good
<1>9. CASE o + 1 = Len(t)
  <2>1. RecordsOK /\ records[i + 1] \in Nat /\ ending \in Endings
    BY <1>4 DEF RecordsOK
  <2>2. l \in {1, 2} /\ d \in {1, 2} /\ Len(t) = l + d + d
    BY <2>1, TextIs
  <2>3. q.line = <<>> /\ q.data = <<>> /\ q.out = Taken(i) \o EventOf(records[i + 1])
    <3> HIDE DEF t, l, d
    <3>1. o + 1 > l /\ o + 1 > l + 1 /\ ~(o + 1 <= l) /\ ~(o + 1 <= l + d)
      BY <1>9, <2>2
    <3> QED BY <1>7, <3>1 DEF MayBe, l, d
  <2>4. q.out = Taken(i + 1)
    BY <1>3, <2>3, TakenGrows
  <2>5. MayBe(q, i + 1, 0)
    <3>1. Content(records[(i + 1) + 1]) \in {1, 2}
      BY ContentIs
    <3> QED BY <2>3, <2>4, <3>1 DEF MayBe
  <2>6. Place(i + 1, 0)
    <3>1. i + 1 # n => Len(Text(records[(i + 1) + 1])) \in Nat \ {0}
      BY <1>2, <1>4, RecordText
    <3> QED BY <1>4, <3>1 DEF Place
  <2>7. f + 1 = At(i + 1) + 0
    <3>1. At(i + 1) = At(i) + Len(t) /\ At(i + 1) \in Nat
      BY <1>3, <1>4, Geometry
    <3> QED BY <1>1, <1>2, <1>5, <1>9, <3>1
  <2> QED BY <1>4, <1>7, <2>5, <2>6, <2>7 DEF Good
<1> QED BY <1>5, <1>8, <1>9

\* A chunk brings the parser to where the chunk ends.
LEMMA ChunkStep ==
  ASSUME RecordsOK, NEW f \in Nat, NEW u \in (f + 1)..Len(Stream), Good(Parser, f)
  PROVE  Good(Consume(SubSeq(Stream, f + 1, u)), u)
<1> DEFINE chunk == SubSeq(Stream, f + 1, u)
           n == u - f
<1>1. Stream \in Seq(Chars) /\ Len(Stream) \in Nat
  <2>1. Len(records) \in 0..Len(records) /\ Upto(Len(records)) = Stream
    BY Geometry
  <2>2. Stream \in Seq(Chars)
    BY <2>1, Geometry
  <2> QED BY <2>2
<1>2. n \in Nat /\ DOMAIN chunk = 1..n /\ \A k \in 1..n : chunk[k] = Stream[f + k] /\ f + k <= Len(Stream)
  <2>1. u \in Nat /\ n \in Nat /\ u <= Len(Stream) /\ f + n = u
    BY <1>1
  <2> DEFINE a == f + 1
  <2>2. \A i \in a..u : Stream[i] \in Chars
    BY <1>1, <2>1
  <2>3. a \in Int /\ u \in Int /\ a <= u /\ u - a + 1 = n
    BY <2>1
  <2> HIDE DEF a
  <2>4. /\ SubSeq(Stream, a, u) \in Seq(Chars) /\ Len(SubSeq(Stream, a, u)) = n
        /\ \A k \in 1..n : SubSeq(Stream, a, u)[k] = Stream[a + k - 1]
    BY <2>2, <2>3, SubSeqProperties
  <2>5. chunk = SubSeq(Stream, a, u)
    BY DEF a
  <2> HIDE DEF chunk, n
  <2>6. DOMAIN chunk = 1..n
    BY <2>4, <2>5
  <2>7. \A k \in 1..n : chunk[k] = Stream[f + k] /\ f + k <= Len(Stream)
    BY <1>1, <2>1, <2>4, <2>5 DEF a
  <2> QED BY <2>1, <2>6, <2>7
<1>3. Consume(chunk) = Reading!After(Parser, chunk)
  BY DEF Consume, Reading!After, Reading!FoldLeft, Reading!MapThenFoldSet, Reading!Max,
         FoldLeft, MapThenFoldSet, Max
<1> HIDE DEF chunk, n
<1>4. PICK g : Reading!Through(g, Parser, chunk, n) /\ Reading!After(Parser, chunk) = g[1..n]
  BY <1>2, Reading!FoldIs
<1>5. g[1..0] = Parser /\ \A k \in Nat : k < n => g[1..(k + 1)] = ConsumeChar(g[1..k], chunk[k + 1])
  BY <1>4 DEF Reading!Through
<1> DEFINE S == {k \in Nat : k <= n => Good(g[1..k], f + k)}
<1>6. 0 \in S
  BY <1>5
<1>7. ASSUME NEW k \in S
      PROVE  k + 1 \in S
  <2> SUFFICES ASSUME k + 1 <= n
               PROVE  Good(g[1..(k + 1)], f + (k + 1))
    OBVIOUS
  <2>1. k \in Nat /\ k < n /\ k + 1 \in 1..n /\ Good(g[1..k], f + k)
    BY <1>2
  <2> DEFINE a == f + k
  <2>2. a \in Nat /\ a < Len(Stream) /\ a + 1 = f + (k + 1)
    BY <1>1, <1>2, <2>1
  <2>3. g[1..(k + 1)] = ConsumeChar(g[1..k], Stream[a + 1])
    BY <1>2, <1>5, <2>1, <2>2
  <2>4. Good(g[1..k], a)
    BY <2>1
  <2> HIDE DEF a
  <2>5. Good(g[1..(k + 1)], a + 1)
    BY <2>2, <2>3, <2>4, GoodStep
  <2> QED BY <2>2, <2>5
<1> HIDE DEF S
<1>8. S = Nat
  <2>1. S \in SUBSET Nat
    BY DEF S
  <2> QED BY <1>6, <1>7, <2>1, Reading!AllNumbers
<1>9. Good(g[1..n], f + n)
  BY <1>2, <1>8 DEF S
<1>10. f + n = u /\ u \in Nat
  BY <1>1 DEF n
<1> QED BY <1>3, <1>4, <1>9, <1>10 DEF chunk

\* What was read and given to the caller.
ReadTo(f, done, p) ==
  \E i \in 0..Len(records), o \in Nat :
    /\ Place(i, o) /\ f = At(i) + o
    /\ done => p.line = <<>> /\ (p.out = Taken(i) \/ (i # Len(records) /\ p.out = Taken(i + 1)))
    /\ ~done => MayBe(p, i, o)

\* What always holds of the parser and its stream.
SSEInv == RecordsOK /\ finished \in BOOLEAN /\ ReadTo(fed, finished, Parser)

\* The events that are due are those of the records before this place.
LEMMA DueIs ==
  ASSUME RecordsOK, NEW i \in 0..Len(records), NEW o \in Nat, Place(i, o), fed = At(i) + o
  PROVE  Due = Taken(i)
<1> DEFINE n == Len(records)
           S == {j \in DOMAIN records : Len(FlattenSeq([k \in 1..j |-> Text(records[k])])) <= fed}
<1>1. n \in Nat /\ DOMAIN records = 1..n /\ At(i) \in Nat
  BY Geometry DEF RecordsOK
<1>2. \A j \in 1..n : j \in S <=> At(j) <= fed
  BY <1>1 DEF At, Upto
<1>3. \A j \in 1..n : At(j) <= fed <=> j <= i
  <2> SUFFICES ASSUME NEW j \in 1..n
               PROVE  At(j) <= fed <=> j <= i
    OBVIOUS
  <2>1. At(j) \in Nat
    BY <1>1, Geometry
  <2>2. CASE j <= i
    <3>1. j \in 0..n /\ i \in j..n
      BY <1>1, <2>2
    <3>2. At(j) <= At(i)
      BY <3>1, Ahead
    <3> QED BY <1>1, <2>1, <2>2, <3>2
  <2>3. CASE j > i
    <3>1. i # n /\ i + 1 \in 0..n /\ j \in (i + 1)..n
      <4>1. i \in Nat /\ j \in Nat /\ j <= n /\ i < j
        BY <1>1, <2>3
      <4> HIDE DEF n
      <4> QED BY <1>1, <4>1
    <3>2. At(i) + o < At(i + 1) /\ At(i + 1) <= At(j) /\ At(i + 1) \in Nat
      BY <3>1, PlaceIn, Ahead, Geometry
    <3> QED BY <1>1, <2>1, <2>3, <3>2
  <2> QED BY <1>1, <2>2, <2>3
<1>4. S = 1..i
  <2>1. S \subseteq 1..n
    BY <1>1
  <2>2. i \in Nat /\ i <= n
    BY <1>1
  <2> HIDE DEF S, n
  <2>3. \A j \in 1..n : j \in S <=> j <= i
    BY <1>2, <1>3
  <2>4. \A j \in 1..i : j \in 1..n /\ j <= i
    BY <1>1, <2>2
  <2>5. \A j \in 1..n : j <= i => j \in 1..i
    BY <1>1, <2>2
  <2> QED BY <2>1, <2>3, <2>4, <2>5, Zenon
<1>5. Cardinality(S) = i
  <2>1. Cardinality(1..i) = i
    BY <1>1, FS_Interval
  <2> QED BY <1>4, <2>1
<1>6. Due = Kept(SubSeq(records, 1, Cardinality(S)), Events)
  BY DEF Due
<1> HIDE DEF S
<1> QED BY <1>5, <1>6 DEF Taken

\* What this says about the events given to the caller.
LEMMA ReadShows ==
  ASSUME SSEInv
  PROVE  SSETypeOK /\ ChunksDoNotMatter
<1> DEFINE n == Len(records)
<1>1. PICK i \in 0..n, o \in Nat :
        /\ Place(i, o) /\ fed = At(i) + o
        /\ finished => buffer = <<>> /\ (delivered = Taken(i) \/ (i # n /\ delivered = Taken(i + 1)))
        /\ ~finished => MayBe(Parser, i, o)
  BY DEF SSEInv, ReadTo, Parser
<1>2. RecordsOK /\ finished \in BOOLEAN /\ n \in Nat
  BY Geometry DEF SSEInv
<1> DEFINE l == Content(records[i + 1])
<1>3. l \in {1, 2}
  BY ContentIs
<1>4. i # n => Taken(i + 1) = Taken(i) \o EventOf(records[i + 1])
  <2>1. i # n => i \in 0..(n - 1)
    BY <1>2
  <2> QED BY <1>2, <2>1, TakenGrows
<1>5. i = n => o = 0
  BY <1>1 DEF Place
<1> HIDE DEF l
<1>6. delivered = Taken(i) \/ (i # n /\ delivered = Taken(i + 1))
  <2>1. CASE finished
    BY <1>1, <2>1
  <2>2. CASE ~finished
    <3>1. delivered = Taken(i) \/ (o > l /\ delivered = Taken(i) \o EventOf(records[i + 1]))
      <4>1. MayBe(Parser, i, o)
        BY <1>1, <2>2
      <4>2. \/ delivered = Taken(i)
            \/ o > l + 1 /\ delivered = Taken(i) \o EventOf(records[i + 1])
        BY <4>1 DEF MayBe, Parser, l
      <4> QED BY <1>3, <4>2
    <3> QED BY <1>3, <1>4, <1>5, <3>1
  <2> QED BY <2>1, <2>2
<1>7. Len(buffer) <= 2
  <2>1. CASE finished
    BY <1>1, <2>1
  <2>2. CASE ~finished
    <3>1. MayBe(Parser, i, o)
      BY <1>1, <2>2
    <3>2. /\ o = 0 \/ o > l => buffer = <<>>
          /\ o = 1 => Len(buffer) = 1
          /\ o = 2 /\ l = 2 => Len(buffer) = 2
      BY <3>1 DEF MayBe, Parser, l
    <3>3. o = 0 \/ o > l \/ o = 1 \/ (o = 2 /\ l = 2)
      BY <1>3
    <3>4. buffer = <<>> => Len(buffer) = 0
      OBVIOUS
    <3>5. Len(buffer) \in {0, 1, 2}
      BY <3>2, <3>3, <3>4, Zenon
    <3> DEFINE b == Len(buffer)
    <3>6. b \in {0, 1, 2}
      BY <3>5
    <3> HIDE DEF b
    <3>7. b <= 2
      BY <3>6
    <3> QED BY <3>7 DEF b
  <2> QED BY <2>1, <2>2
<1>8. fed \in 0..Len(Stream)
  BY <1>1, <1>2, PlaceIn
<1>9. PICK j \in i..n : j \in 0..n /\ n \in j..n /\ delivered = Taken(j)
  <2>1. i \in i..n /\ i \in 0..n /\ n \in i..n
    BY <1>2
  <2>2. i # n => i + 1 \in i..n /\ i + 1 \in 0..n /\ n \in (i + 1)..n
    BY <1>2
  <2> QED BY <1>6, <2>1, <2>2
<1>10. \A k \in DOMAIN delivered : delivered[k] \in Events
  <2>1. delivered \in Seq(Events)
    BY <1>2, <1>9, TakenGrows
  <2> QED BY <2>1
<1>11. IsPrefix(Due, delivered)
  <2>1. Due = Taken(i)
    BY <1>1, <1>2, DueIs
  <2> QED BY <1>2, <1>9, <2>1, TakenFirst
<1>12. IsPrefix(delivered, Sent)
  <2>1. Sent = Taken(n)
    BY <1>2, TakenGrows
  <2> QED BY <1>2, <1>9, <2>1, TakenFirst
<1> QED BY <1>7, <1>8, <1>10, <1>11, <1>12 DEF SSETypeOK, ChunksDoNotMatter

\* Nothing was read in the beginning.
LEMMA ReadBegins ==
  ASSUME SSEInit
  PROVE  SSEInv
<1>1. RecordsOK
  <2>1. PICK n \in 0..MaxRecords : records \in {r \in [1..n -> 0..n] : \A i \in 1..n : r[i] \in {Comment, i}}
    BY DEF SSEInit
  <2>2. n \in Nat /\ records \in [1..n -> 0..n]
    BY <2>1, SSEAssumption
  <2>3. records \in Seq(Nat) /\ Len(records) = n
    BY <2>2
  <2> QED BY <2>1, <2>2, <2>3, SSEAssumption DEF RecordsOK, SSEInit
<1>2. Len(records) \in Nat /\ 0 \in 0..Len(records) /\ At(0) = 0 /\ Taken(0) = <<>>
  BY <1>1, Geometry, TakenGrows
<1>3. Place(0, 0)
  <2>1. 0 # Len(records) => Len(Text(records[0 + 1])) \in Nat \ {0}
    BY <1>1, <1>2, RecordText
  <2> QED BY <1>2, <2>1 DEF Place
<1>4. fed = 0 /\ buffer = <<>> /\ data = <<>> /\ delivered = <<>> /\ finished = FALSE
  BY DEF SSEInit
<1>5. MayBe(Parser, 0, 0)
  <2>1. Content(records[0 + 1]) \in {1, 2}
    BY ContentIs
  <2> QED BY <1>2, <1>4, <2>1 DEF MayBe, Parser
<1>6. ReadTo(fed, finished, Parser)
  BY <1>2, <1>3, <1>4, <1>5 DEF ReadTo
<1> QED BY <1>1, <1>4, <1>6 DEF SSEInv

\* The stream itself does not change.
LEMMA SameStream ==
  ASSUME UNCHANGED <<records, ending>>
  PROVE  /\ Stream' = Stream /\ (RecordsOK' <=> RecordsOK)
         /\ \A f, done, p : ReadTo(f, done, p)' <=> ReadTo(f, done, p)
<1>1. records' = records /\ ending' = ending
  OBVIOUS
<1>2. \A c : Text(c)' = Text(c)
  BY <1>1 DEF Text
<1>3. \A i : Upto(i)' = Upto(i)
  BY <1>1, <1>2 DEF Upto
<1>4. \A i : At(i)' = At(i) /\ Taken(i)' = Taken(i)
  BY <1>1, <1>3 DEF At, Taken
<1>5. \A i, o : Place(i, o)' <=> Place(i, o)
  BY <1>1, <1>2 DEF Place
<1>6. \A p, i, o : MayBe(p, i, o)' <=> MayBe(p, i, o)
  <2> SUFFICES ASSUME NEW p, NEW i, NEW o
               PROVE  MayBe(p, i, o)' <=> MayBe(p, i, o)
    OBVIOUS
  <2>1. Taken(i)' = Taken(i)
    BY <1>4
  <2> QED BY <1>1, <2>1 DEF MayBe
<1>7. Stream' = Stream
  BY <1>1, <1>2 DEF Stream
<1>8. RecordsOK' <=> RecordsOK
  BY <1>1 DEF RecordsOK
<1>9. \A f, done, p : ReadTo(f, done, p)' <=> ReadTo(f, done, p)
  BY <1>1, <1>4, <1>5, <1>6 DEF ReadTo
<1> QED BY <1>7, <1>8, <1>9

\* A step in which nothing is read.
LEMMA ReadRests ==
  ASSUME SSEInv, UNCHANGED parserVars
  PROVE  SSEInv'
<1>1. UNCHANGED <<records, ending, fed, buffer, data, delivered, finished>>
  BY DEF parserVars
<1>2. Parser' = Parser
  BY <1>1 DEF Parser
<1>3. RecordsOK' /\ ReadTo(fed, finished, Parser)'
  <2>1. \A x, y, z : ReadTo(x, y, z)' <=> ReadTo(x, y, z)
    BY <1>1, SameStream
  <2> QED BY <1>1, <1>2, <2>1, SameStream DEF SSEInv
<1> QED BY <1>1, <1>3 DEF SSEInv

\* What is left of a line in the end.
LEMMA LastLine ==
  ASSUME NEW line, NEW lines, NEW out, NEW behind, line # <<>>
  PROVE  LET p == ConsumeLine([line |-> line, data |-> lines, out |-> out, behind |-> behind])
         IN /\ p.out = out
            /\ line[1].kind = "comment" => p.data = lines
            /\ line[1].kind # "comment" /\ Len(line) = 2 => p.data = Append(lines, line[1].event)
            /\ line[1].kind # "comment" /\ Len(line) = 1 => p.data = Append(lines, Comment)
<1> DEFINE p == [line |-> line, data |-> lines, out |-> out, behind |-> behind]
           q == ConsumeLine(p)
           word == IF Len(line) = 2 THEN line[1].event ELSE Comment
<1>1. CASE line[1].kind = "comment"
  <2>1. q = [p EXCEPT !.line = <<>>]
    BY <1>1 DEF ConsumeLine
  <2>2. q.out = out /\ q.data = lines
    BY <2>1
  <2> HIDE DEF q
  <2> QED BY <1>1, <2>2 DEF q
<1>2. CASE line[1].kind # "comment"
  <2>1. q = [p EXCEPT !.line = <<>>, !.data = Append(@, word)]
    BY <1>2 DEF ConsumeLine
  <2> HIDE DEF word
  <2>2. q.out = out /\ q.data = Append(lines, word)
    BY <2>1
  <2> HIDE DEF q
  <2>3. Len(line) = 1 => Len(line) # 2
    OBVIOUS
  <2>4. (Len(line) = 2 => word = line[1].event) /\ (Len(line) = 1 => word = Comment)
    BY <2>3, Zenon DEF word
  <2> QED BY <1>2, <2>2, <2>4 DEF q
<1> QED BY <1>1, <1>2

\* A chunk, or the end of the stream.
LEMMA ReadStep ==
  ASSUME SSEInv, SSENext
  PROVE  SSEInv'
<1>1. RecordsOK /\ finished \in BOOLEAN /\ ReadTo(fed, finished, Parser)
  BY DEF SSEInv
<1>2. UNCHANGED <<records, ending>>
  BY DEF SSENext, Push, Finish
<1>3. finished = FALSE
  BY <1>1 DEF SSENext, Push, Finish
<1>4. PICK i \in 0..Len(records), o \in Nat : Place(i, o) /\ fed = At(i) + o /\ MayBe(Parser, i, o)
  BY <1>1, <1>3 DEF ReadTo
<1>5. fed \in Nat
  BY <1>1, <1>4, Geometry
<1>6. finished' \in BOOLEAN /\ ReadTo(fed', finished', Parser')
  <2>1. CASE Push
    <3>1. PICK u \in (fed + 1)..Len(Stream) :
            LET parser == Consume(SubSeq(Stream, fed + 1, u))
            IN /\ fed' = u
               /\ buffer' = parser.line /\ data' = parser.data /\ delivered' = parser.out
      BY <2>1 DEF Push
    <3> DEFINE parser == Consume(SubSeq(Stream, fed + 1, u))
    <3>2. fed' = u /\ buffer' = parser.line /\ data' = parser.data /\ delivered' = parser.out
      BY <3>1
    <3>3. finished' = FALSE
      BY <1>3, <2>1 DEF Push
    <3>4. Good(Parser, fed)
      <4>1. IsParser(Parser) /\ IsBehind(Parser)
        BY DEF IsParser, ParserFields, Parser, IsBehind, CR, Char
      <4> QED BY <1>4, <4>1 DEF Good
    <3>5. Good(parser, u)
      BY <1>1, <1>5, <3>4, ChunkStep
    <3> HIDE DEF parser
    <3>6. PICK j \in 0..Len(records), r \in Nat : Place(j, r) /\ u = At(j) + r /\ MayBe(parser, j, r)
      BY <3>5 DEF Good
    <3>7. MayBe(Parser', j, r)
      BY <3>2, <3>6 DEF MayBe, Parser
    <3> QED BY <3>2, <3>3, <3>6, <3>7 DEF ReadTo
  <2>2. CASE Finish
    <3> DEFINE last == IF buffer = <<>> THEN Parser ELSE ConsumeLine(Parser)
               c == records[i + 1]
               l == Content(c)
               e == EventOf(c)
               out == Taken(i)
    <3>1. /\ finished' = TRUE /\ fed' = fed /\ buffer' = <<>>
          /\ delivered' = last.out \o Dispatched(last.data)
      BY <2>2 DEF Finish
    <3>2. /\ o = 0 \/ o > l => buffer = <<>>
          /\ o = 1 => buffer = <<IF c = Comment THEN Char("comment", 0) ELSE Char("first", c)>>
          /\ o = 2 /\ l = 2 => buffer = <<Char("first", c), Char("second", c)>>
          /\ \/ o <= l /\ data = <<>> /\ delivered = out
             \/ o > l /\ data = e /\ delivered = out
             \/ o > l + 1 /\ data = <<>> /\ delivered = out \o e
      BY <1>4 DEF MayBe, Parser
    <3>3. l \in {1, 2} /\ (c # Comment => l = 2) /\ (c = Comment => l = 1)
      BY DEF Content
    <3>4. Len(records) \in Nat /\ (o # 0 => i # Len(records)) /\ out \in Seq(Events)
      BY <1>1, <1>4, Geometry, TakenGrows DEF Place
    <3>5. i # Len(records) => Taken(i + 1) = out \o e /\ out \o e \in Seq(Events)
      <4>1. i # Len(records) => i \in 0..(Len(records) - 1) /\ i + 1 \in 0..Len(records)
        BY <3>4
      <4> QED BY <1>1, <4>1, TakenGrows
    <3>6. /\ Dispatched(<<>>) = <<>> /\ Dispatched(e) = e /\ (c # Comment => e = <<c>>)
          /\ Dispatched(<<Comment>>) = <<>>
      BY Dispatching DEF EventOf, Dispatched
    <3>7. out \o <<>> = out /\ (i # Len(records) => (out \o e) \o <<>> = out \o e)
      BY <3>4, <3>5
    <3> HIDE DEF c, l, e, out, last
    <3>8. delivered' = out \/ (i # Len(records) /\ delivered' = out \o e)
      <4>1. CASE o = 0 \/ o > l
        <5>1. last.data = data /\ last.out = delivered
          BY <3>2, <4>1 DEF last, Parser
        <5>2. o > l => i # Len(records)
          BY <3>3, <3>4
        <5>3. \/ o <= l /\ delivered' = out \o <<>>
              \/ o > l /\ delivered' = out \o e
              \/ o > l /\ delivered' = (out \o e) \o <<>>
          <6>1. delivered' = delivered \o Dispatched(data)
            BY <3>1, <5>1
          <6>2. \/ o <= l /\ data = <<>> /\ delivered = out
                \/ o > l /\ data = e /\ delivered = out
                \/ o > l + 1 /\ data = <<>> /\ delivered = out \o e
            BY <3>2
          <6>3. o > l + 1 => o > l
            BY <3>3
          <6> QED BY <3>6, <6>1, <6>2, <6>3, Zenon
        <5> QED BY <3>7, <5>2, <5>3
      <4>2. CASE o = 1
        <5>1. o <= l /\ ~(o > l) /\ ~(o > l + 1) /\ i # Len(records)
          BY <3>3, <3>4, <4>2
        <5>2. data = <<>> /\ delivered = out
          BY <3>2, <5>1
        <5>3. CASE c = Comment
          <6>1. buffer = <<Char("comment", 0)>>
            BY <3>2, <4>2, <5>3
          <6>2. buffer # <<>> /\ buffer[1].kind = "comment"
            BY <6>1, CharKinds
          <6>3. last.data = data /\ last.out = delivered
            BY <6>2, LastLine DEF last, Parser
          <6> QED BY <3>1, <3>6, <3>7, <5>2, <6>3
        <5>4. CASE c # Comment
          <6>1. buffer = <<Char("first", c)>>
            BY <3>2, <4>2, <5>4
          <6>2. buffer # <<>> /\ buffer[1].kind # "comment" /\ Len(buffer) = 1
            BY <6>1, CharKinds
          <6>3. last.data = Append(data, Comment) /\ last.out = delivered
            BY <6>2, LastLine DEF last, Parser
          <6>4. Append(<<>>, Comment) = <<Comment>>
            OBVIOUS
          <6> QED BY <3>1, <3>6, <3>7, <5>2, <6>3, <6>4
        <5> QED BY <5>3, <5>4
      <4>3. CASE o = 2 /\ l = 2
        <5>1. o <= l /\ ~(o > l) /\ ~(o > l + 1) /\ i # Len(records) /\ c # Comment
          BY <3>3, <3>4, <4>3
        <5>2. data = <<>> /\ delivered = out /\ e = <<c>>
          BY <3>2, <3>6, <5>1
        <5>3. buffer = <<Char("first", c), Char("second", c)>>
          BY <3>2, <4>3
        <5>4. buffer # <<>> /\ buffer[1].kind # "comment" /\ Len(buffer) = 2 /\ buffer[1].event = c
          BY <5>3, CharKinds
        <5>5. last.data = Append(data, c) /\ last.out = delivered
          BY <5>4, LastLine DEF last, Parser
        <5>6. Append(<<>>, c) = <<c>>
          OBVIOUS
        <5>7. delivered' = out \o e
          BY <3>1, <3>6, <5>2, <5>5, <5>6
        <5> QED BY <5>1, <5>7
      <4>4. o = 0 \/ o > l \/ o = 1 \/ (o = 2 /\ l = 2)
        BY <3>3
      <4> QED BY <4>1, <4>2, <4>3, <4>4
    <3>9. (Parser').line = <<>> /\ (Parser').out = delivered'
      BY <3>1 DEF Parser
    <3>10. \/ (Parser').out = Taken(i)
           \/ (i # Len(records) /\ (Parser').out = Taken(i + 1))
      BY <3>5, <3>8, <3>9 DEF out
    <3> QED BY <1>4, <3>1, <3>9, <3>10 DEF ReadTo
  <2> QED BY <2>1, <2>2 DEF SSENext
<1>7. RecordsOK' /\ ReadTo(fed, finished, Parser)'
  <2>1. RecordsOK'
    BY <1>1, <1>2, SameStream
  <2>2. \A x, y, z : ReadTo(x, y, z)' <=> ReadTo(x, y, z)
    BY <1>2, SameStream
  <2> QED BY <1>6, <2>1, <2>2
<1> QED BY <1>6, <1>7 DEF SSEInv

-----------------------------------------------------------------------------
(***************************************************************************)
(* The console. A behaviour is the visit of one part: only its invariant   *)
(* is of interest, and only its steps change what that speaks of.          *)
(***************************************************************************)
ConsoleInv ==
  /\ part \in Visits
  /\ In("agents", AgentsInv /\ PagesInv)
  /\ In("tasks", TasksInv)
  /\ In("overview", OverviewInv)
  /\ In("model", HostInv)
  /\ In("tests", TestsInv)
  /\ In("settings", SettingsInv)
  /\ In("palette", PaletteInv /\ OfferInv)
  /\ In("events", EventsInv /\ FeedInv)
  /\ SSEInv

\* A part that asks for something when it is shown begins with that request.
LEMMA BeginsWith ==
  ASSUME NEW c, IsCall(c), c.kind # "free", NEW p \in Visits, part = p, Asks[p] = c,
         \E s \in Slots : calls = [NoCalls EXCEPT ![s] = Asks[part]]
  PROVE  CallsOK /\ \E s \in Slots : calls[s] = c /\ \A t \in Slots \ {s} : calls[t].kind = "free"
BY Begun

LEMMA AgentsBegin == Init /\ part = "agents" => AgentsInv /\ PagesInv
<1> SUFFICES ASSUME Init, part = "agents"
             PROVE  AgentsInv /\ PagesInv
  OBVIOUS
<1> DEFINE c == Asked("list", None)
<1>1. IsCall(c) /\ c.kind = "list" /\ c.arg = None /\ c.state = "asked"
  BY NewCalls
<1>2. Asks["agents"] = c
  BY DEF Asks
<1> HIDE DEF c
<1>3. CallsOK /\ \E s \in Slots : calls[s] = c /\ \A t \in Slots \ {s} : calls[t].kind = "free"
  BY <1>1, <1>2, BeginsWith DEF Init, Visits
<1>4. AgentsInit
  BY DEF Init
<1>5. AgentTypes
  BY <1>1, <1>3, <1>4, AgentsAssumption
     DEF AgentsInit, AgentTypes, AgentCallOK, CallsOK, Free
<1>6. AgentFlags /\ CardInv /\ OwnInv
  BY <1>1, <1>3, <1>4, AgentsAssumption
     DEF AgentsInit, AgentFlags, CardInv, OwnInv, OfDialog, OfRegistry
<1>7. Cardinality(Agents) \in Nat \ {0}
  BY AgentsAssumption, FS_CardinalityType, FS_EmptySet
<1>8. PagesInv
  BY <1>4, <1>7 DEF AgentsInit, PagesInv, PageShowsAgents
<1> QED BY <1>3, <1>5, <1>6, <1>8 DEF AgentsInv

LEMMA TasksBegin == Init /\ part = "tasks" => TasksInv
<1> SUFFICES ASSUME Init, part = "tasks"
             PROVE  TasksInv
  OBVIOUS
<1> DEFINE c == Asked("list", selected)
<1>1. IsCall(c) /\ c.kind = "list" /\ c.arg = selected /\ c.state = "asked"
  BY NewCalls
<1>2. Asks["tasks"] = c
  BY DEF Asks, Refresh
<1> HIDE DEF c
<1>3. CallsOK /\ \E s \in Slots : calls[s] = c /\ \A t \in Slots \ {s} : calls[t].kind = "free"
  BY <1>1, <1>2, BeginsWith DEF Init, Visits
<1>4. TasksInit
  BY DEF Init
<1>5. TasksTypeOK /\ IsRead(shown.run, shown)
  BY <1>4, TasksAssumption DEF TasksInit, TasksTypeOK, NoRun, IsRead
<1>6. TaskCalls /\ TasksSpinnersEnd /\ SelectedInv
  BY <1>1, <1>3, <1>4
     DEF TasksInit, TaskCalls, TasksSpinnersEnd, SelectedInv, IsRefresh, Flying, OnTheirWay
<1> QED BY <1>3, <1>5, <1>6 DEF TasksInv

LEMMA OverviewBegins == Init /\ part = "overview" => OverviewInv
<1> SUFFICES ASSUME Init, part = "overview"
             PROVE  OverviewInv
  OBVIOUS
<1> DEFINE c == Load(seen)
<1>1. /\ IsCall(c) /\ c.kind = "load" /\ c.arg = seen /\ c.state = "asked"
      /\ c.data = [p \in Parts |-> Open]
  BY NewLoads
<1>2. Asks["overview"] = c
  BY DEF Asks
<1> HIDE DEF c
<1>3. CallsOK /\ \E s \in Slots : calls[s] = c /\ \A t \in Slots \ {s} : calls[t].kind = "free"
  BY <1>1, <1>2, BeginsWith DEF Init, Visits
<1>4. OverviewInit
  BY DEF Init
<1>5. news \in 1..MaxNews /\ seen \in Ages
  BY <1>4, OverviewAssumption DEF OverviewInit, Empty, NotRead, Ages, Parts
<1>6. \A p \in Parts : ~Answers(c.data, p)
  BY <1>1 DEF Answers
<1>7. OverviewTypes /\ OverviewSpinnersEnd /\ LoadsInv
  BY <1>1, <1>3, <1>4, <1>5, <1>6
     DEF OverviewInit, OverviewTypes, OverviewSpinnersEnd, LoadsInv, IsOut, Loading, OnTheirWay
<1> QED BY <1>3, <1>7 DEF OverviewInv

LEMMA ModelBegins == Init /\ part = "model" => HostInv
<1> SUFFICES ASSUME Init, part = "model"
             PROVE  HostInv
  OBVIOUS
<1> DEFINE c == Asked("get", None)
<1>1. IsCall(c) /\ c.kind = "get" /\ c.arg = None /\ c.state = "asked"
  BY NewCalls
<1>2. Asks["model"] = c
  BY DEF Asks
<1> HIDE DEF c
<1>3. CallsOK /\ \E s \in Slots : calls[s] = c /\ \A t \in Slots \ {s} : calls[t].kind = "free"
  BY <1>1, <1>2, BeginsWith DEF Init, Visits
<1>4. HostModelInit
  BY DEF Init
<1>5. HostTypes
  BY <1>1, <1>3, <1>4, HostModelAssumption DEF HostModelInit, HostTypes, IsOut
<1>6. HostFlags /\ KeyInv /\ ConfigInv
  BY <1>1, <1>3, <1>4 DEF HostModelInit, HostFlags, KeyInv, ConfigInv, IsOut, IsWrite
<1> QED BY <1>3, <1>5, <1>6 DEF HostInv

LEMMA TestsBegin == Init /\ part = "tests" => TestsInv
<1> SUFFICES ASSUME Init, part = "tests"
             PROVE  TestsInv
  OBVIOUS
<1> DEFINE c == Asked("test", "mcp")
<1>1. IsCall(c) /\ c.kind = "test" /\ c.arg = "mcp" /\ c.state = "asked"
  BY NewCalls
<1>2. Asks["tests"] = c
  BY DEF Asks
<1> HIDE DEF c
<1>3. CallsOK
  BY <1>1, <1>2, BeginsWith DEF Init, Visits
<1>4. PICK s \in Slots : calls[s] = c /\ \A t \in Slots \ {s} : calls[t].kind = "free"
  BY <1>1, <1>2, BeginsWith DEF Init, Visits
<1>5. ConnectionTestsInit
  BY DEF Init
<1>6. ConnectionTestsTypeOK
  BY <1>5, ConnectionTestsAssumption DEF ConnectionTestsInit, ConnectionTestsTypeOK
<1>7. /\ \A t \in Targets : testing[t] <=> t = "mcp"
      /\ \A t \in Targets \ {"mcp"} : results[t] = tests[t]
  BY <1>5 DEF ConnectionTestsInit
<1>8. TestsAreAnswered
  BY <1>7 DEF TestsAreAnswered
<1> QED BY <1>1, <1>3, <1>4, <1>6, <1>7, <1>8 DEF TestsInv, IsTest, Targets

LEMMA SettingsBegin == Init /\ part = "settings" => SettingsInv
BY StoredParses DEF Init, SettingsInit, SettingsInv, SettingsSurvive

LEMMA PaletteBegins == Init /\ part = "palette" => PaletteInv /\ OfferInv
<1> SUFFICES ASSUME Init, part = "palette"
             PROVE  PaletteInv /\ OfferInv
  OBVIOUS
<1>1. Asks["palette"] = Free
  BY DEF Asks
<1>2. calls = NoCalls
  BY <1>1 DEF Init, NoCalls
<1>3. CallsOK /\ \A s \in Slots : ~IsOut(s)
  BY <1>2, NewCalls DEF NoCalls, CallsOK, IsOut
<1>4. PaletteInv
  BY <1>3 DEF Init, PaletteInit, PaletteInv
<1>5. PaletteInit /\ \A s \in Slots : calls[s].state # "answered"
  BY <1>2, NewCalls DEF Init, NoCalls
<1>6. OfferInv
  BY <1>5, OfferBegins
<1> QED BY <1>4, <1>6

LEMMA EventsBegin == Init /\ part = "events" => EventsInv /\ FeedInv
<1> SUFFICES ASSUME Init, part = "events"
             PROVE  EventsInv /\ FeedInv
  OBVIOUS
<1> DEFINE c == Asked("feed", None)
<1>1. IsCall(c) /\ c.kind = "feed" /\ c.state = "asked"
  BY NewCalls
<1>2. Asks["events"] = c
  BY DEF Asks
<1> HIDE DEF c
<1>3. CallsOK /\ \E s \in Slots : calls[s] = c /\ \A t \in Slots \ {s} : calls[t].kind = "free"
  BY <1>1, <1>2, BeginsWith DEF Init, Visits
<1>4. EventsInv
  BY <1>1, <1>3 DEF Init, EventsInit, EventsInv, EventsSpinnersEnd, Flying, OnTheirWay
<1>5. EventsInit /\ calls = [s \in Slots |-> calls[s]]
  BY <1>3 DEF Init, CallsOK
<1>6. \A s \in Slots : calls[s].state # "answered"
  BY <1>1, <1>3, NewCalls DEF CallsOK
<1>7. FeedInv
  BY <1>5, <1>6, FeedBegins
<1> QED BY <1>4, <1>7

LEMMA ConsoleBegins == Init => ConsoleInv
BY AgentsBegin, TasksBegin, OverviewBegins, ModelBegins, TestsBegin, SettingsBegin,
   PaletteBegins, EventsBegin, ReadBegins DEF ConsoleInv, In, Init

\* A step in which nothing happens.
LEMMA NothingHappens == ConsoleInv /\ UNCHANGED consoleVars => ConsoleInv'
<1> SUFFICES ASSUME ConsoleInv, UNCHANGED consoleVars
             PROVE  ConsoleInv'
  OBVIOUS
<1>0. part' = part /\ calls' = calls
  BY DEF consoleVars
<1>1. In("agents", AgentsInv /\ PagesInv)'
  BY <1>0 DEF consoleVars, agentsVars, ConsoleInv, In, AgentsInv, CallsOK, AgentTypes, AgentCallOK,
              AgentFlags, CardInv, OwnInv, PagesInv, PageShowsAgents, OnPage, Filtered
<1>2. In("tasks", TasksInv)'
  BY <1>0 DEF consoleVars, tasksVars, ConsoleInv, In, TasksInv, CallsOK, TasksTypeOK, TaskCalls,
              IsRead, TasksSpinnersEnd, SelectedInv, IsRefresh, Flying, OnTheirWay
<1>3. In("overview", OverviewInv)'
  BY <1>0 DEF consoleVars, overviewVars, ConsoleInv, In, OverviewInv, CallsOK, OverviewTypes,
              OverviewSpinnersEnd, LoadsInv, IsOut, Ages, Loading, OnTheirWay
<1>4. In("model", HostInv)'
  BY <1>0 DEF consoleVars, hostVars, ConsoleInv, In, HostInv, CallsOK, HostTypes, HostFlags,
              KeyInv, ConfigInv, IsOut, IsWrite, Public, Resolve
<1>5. In("tests", TestsInv)'
  BY <1>0 DEF consoleVars, testVars, ConsoleInv, In, TestsInv, CallsOK, ConnectionTestsTypeOK,
              TestsAreAnswered, IsTest
<1>6. In("settings", SettingsInv)'
  BY <1>0 DEF consoleVars, settingsVars, ConsoleInv, In, SettingsInv, SettingsSurvive
<1>7. In("palette", PaletteInv /\ OfferInv)'
  <2>1. In("palette", PaletteInv)'
    BY <1>0 DEF consoleVars, paletteVars, ConsoleInv, In, PaletteInv, CallsOK, IsOut, IsSearch
  <2>2. In("palette", OfferInv)'
    BY <1>0, OfferRests DEF consoleVars, ConsoleInv, In
  <2> QED BY <2>1, <2>2 DEF In
<1>8. In("events", EventsInv /\ FeedInv)'
  <2>1. In("events", EventsInv)'
    BY <1>0 DEF consoleVars, eventVars, ConsoleInv, In, EventsInv, CallsOK, EventsSpinnersEnd,
                Flying, OnTheirWay
  <2>2. In("events", FeedInv)'
    BY <1>0, FeedRests DEF consoleVars, ConsoleInv, In
  <2> QED BY <2>1, <2>2 DEF In
<1>9. SSEInv' /\ part' \in Visits
  BY <1>0, ReadRests DEF consoleVars, ConsoleInv
<1> QED BY <1>1, <1>2, <1>3, <1>4, <1>5, <1>6, <1>7, <1>8, <1>9 DEF ConsoleInv

\* The step of a part keeps what holds of that part; the other parts are not
\* visited.
LEMMA ConsoleGoesOn == ConsoleInv /\ [Next]_consoleVars => ConsoleInv'
<1> SUFFICES ASSUME ConsoleInv, [Next]_consoleVars
             PROVE  ConsoleInv'
  OBVIOUS
<1> USE DEF ConsoleInv, In
<1>0. part' \in Visits /\ (UNCHANGED parserVars => SSEInv')
  BY ReadRests DEF Next, consoleVars, VisitAgents, VisitTasks, VisitOverview, VisitModel,
     VisitTests, VisitSettings, VisitPalette, VisitEvents, VisitStream
<1>1. CASE VisitAgents
  BY <1>0, <1>1, AgentsStep, PagesStep DEF VisitAgents
<1>2. CASE VisitTasks
  BY <1>0, <1>2, TasksStep DEF VisitTasks
<1>3. CASE VisitOverview
  BY <1>0, <1>3, OverviewStep DEF VisitOverview
<1>4. CASE VisitModel
  BY <1>0, <1>4, HostStep DEF VisitModel
<1>5. CASE VisitTests
  BY <1>0, <1>5, TestsStep DEF VisitTests
<1>6. CASE VisitSettings
  BY <1>0, <1>6, SettingsStep DEF VisitSettings
<1>7. CASE VisitPalette
  BY <1>0, <1>7, PaletteStep, OfferStep DEF VisitPalette
<1>8. CASE VisitEvents
  <2>1. CallsOK
    BY <1>8 DEF VisitEvents, EventsInv
  <2> QED BY <1>0, <1>8, <2>1, EventsStep, FeedStep DEF VisitEvents
<1>9. CASE VisitStream
  BY <1>0, <1>9, ReadStep DEF VisitStream
<1>10. CASE UNCHANGED consoleVars
  BY <1>10, NothingHappens
<1> QED BY <1>1, <1>2, <1>3, <1>4, <1>5, <1>6, <1>7, <1>8, <1>9, <1>10 DEF Next

THEOREM ConsoleInvariant == Spec => []ConsoleInv
BY ConsoleBegins, ConsoleGoesOn, PTL DEF Spec

-----------------------------------------------------------------------------
(***************************************************************************)
(* What follows.                                                           *)
(***************************************************************************)

\* Whatever requests fail, get lost or cross, a page that shows that it waits
\* has a request under way that will end that.
THEOREM NoPageWaitsForNothing == Spec => []SpinnersEnd
<1>1. ConsoleInv => SpinnersEnd
  <2> SUFFICES ASSUME ConsoleInv
               PROVE  SpinnersEnd
    OBVIOUS
  <2>1. TasksInv => TasksSpinnersEnd
    BY DEF TasksInv
  <2>2. OverviewInv => OverviewSpinnersEnd
    BY DEF OverviewInv
  <2>3. TestsInv => ConnectionTestsSpinnersEnd
    BY DEF TestsInv, IsTest, ConnectionTestsSpinnersEnd, OnTheirWay
  <2>4. EventsInv => EventsSpinnersEnd
    BY DEF EventsInv
  <2> QED BY <2>1, <2>2, <2>3, <2>4, AgentsShow, HostShows, PaletteShows
          DEF ConsoleInv, SpinnersEnd, In
<1> QED BY <1>1, ConsoleInvariant, PTL

\* The user sees the changes that were made from the page: the list is not
\* older than the last of them, the configuration is the one the next Run gets
\* and its key the one that was entered, the settings are those last chosen.
THEOREM OwnChangesShow == Spec => []OwnChangesAreShown
<1>1. ConsoleInv => OwnChangesAreShown
  <2>1. SettingsInv => SettingsSurvive
    BY DEF SettingsInv
  <2> QED BY <2>1, AgentsShow, HostShows DEF ConsoleInv, OwnChangesAreShown, In
<1> QED BY <1>1, ConsoleInvariant, PTL

\* An answer that comes late is not shown as that of another question: the card
\* is of the address, the Run is the one selected, a test's result is of the
\* last test, the palette's commands were read at this opening.
THEOREM AnswersFit == Spec => []AnswersFitTheirQuestion
<1>1. ConsoleInv => AnswersFitTheirQuestion
  <2>1. TestsInv => TestsAreAnswered
    BY DEF TestsInv
  <2> QED BY <2>1, AgentsShow, SelectedShown, PaletteShows
          DEF ConsoleInv, AnswersFitTheirQuestion, In
<1> QED BY <1>1, ConsoleInvariant, PTL

\* What the dashboard and the lists of the workspace show is never replaced by
\* something older, unless loads were made together.
THEOREM ShownOnlyGetsNewer == Spec => ShownNeverGoesBack
<1>1. ConsoleInv /\ [Next]_consoleVars
        => [crowded' \/ (\A p \in Parts : seen'[p] >= seen[p])]_overviewVars
  BY OverviewStep
     DEF ConsoleInv, In, Next, consoleVars, VisitAgents, VisitTasks, VisitOverview, VisitModel,
         VisitTests, VisitSettings, VisitPalette, VisitEvents, VisitStream
<1> QED BY <1>1, ConsoleInvariant, PTL DEF Spec, ShownNeverGoesBack

\* While nothing is searched, the page of agents that is turned to has some if
\* there are any, however the list gets shorter, and its number stays one of a
\* page there can be.
THEOREM PageIsNotEmpty == Spec => [](part = "agents" => PageShowsAgents /\ AgentsTypeOK)
<1>1. ConsoleInv => (part = "agents" => PageShowsAgents /\ AgentsTypeOK)
  BY DEF ConsoleInv, In, PagesInv, AgentsInv, AgentTypes, AgentsTypeOK
<1> QED BY <1>1, ConsoleInvariant, PTL

\* What the parts show and keep is of its kind; nothing of it is what the code
\* could not show: a page that is not one, a configuration without its fields, a
\* mark beside the offered commands, a filter that was not chosen.
THEOREM TypesAreRight == Spec => []TypeOK
<1>1. ConsoleInv => TypeOK
  <2> SUFFICES ASSUME ConsoleInv
               PROVE  TypeOK
    OBVIOUS
  <2>1. PagesInv /\ AgentsInv => AgentsTypeOK
    BY DEF PagesInv, AgentsInv, AgentTypes, AgentsTypeOK
  <2>2. TasksInv => TasksTypeOK
    BY DEF TasksInv
  <2>3. OverviewInv => OverviewTypeOK
    BY DEF OverviewInv, OverviewTypes, OverviewTypeOK, Ages
  <2>4. HostInv => HostModelTypeOK
    BY DEF HostInv, HostTypes, HostModelTypeOK
  <2>5. TestsInv => ConnectionTestsTypeOK
    BY DEF TestsInv
  <2>6. SettingsInv => SettingsTypeOK
    BY ValidFields DEF SettingsInv, SettingsTypeOK
  <2> QED BY <2>1, <2>2, <2>3, <2>4, <2>5, <2>6, OfferShows, FeedShows, ReadShows
          DEF ConsoleInv, TypeOK, In
<1> QED BY <1>1, ConsoleInvariant, PTL

\* A list shows what it holds: the palette offers the best commands there are
\* and marks one of them, and each event of the feed is listed once, under the
\* latest state of its Run, in the order of the view, however many there are.
THEOREM ListsShow == Spec => []ListsShowWhatTheyHold
<1>1. ConsoleInv => ListsShowWhatTheyHold
  BY OfferShows, FeedShows DEF ConsoleInv, ListsShowWhatTheyHold, In, PagesInv
<1> QED BY <1>1, ConsoleInvariant, PTL

\* Wherever the text of a stream is cut into chunks and wherever it breaks off,
\* whichever ends its lines have: the caller is given the first of the events
\* that were sent, each once and in order, and none that was read is missing.
THEOREM ChunksMakeNoDifference == Spec => []ChunksDoNotMatter
<1>1. ConsoleInv => ChunksDoNotMatter
  BY ReadShows DEF ConsoleInv
<1> QED BY <1>1, ConsoleInvariant, PTL
=============================================================================
