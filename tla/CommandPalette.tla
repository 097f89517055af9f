--------------------------- MODULE CommandPalette ---------------------------
(***************************************************************************)
(* The command palette: it offers pages and, once they were read, agents,  *)
(* conversations and events. It is opened and closed at any time; what it  *)
(* read stays until it has read again. A command is known by how it fits   *)
(* what is searched; the language it is shown in is left out.              *)
(***************************************************************************)
EXTENDS Requests, Arrays, SequencesExt

CONSTANTS
  Things,        \* the agents, conversations and events there may be, in order
  StaticCommands,\* the commands that are always there
  Sources,       \* what is read
  SourceOf,      \* SourceOf[c]: where thing c is read
  Queries,       \* what may be typed; None is nothing
  Match,         \* Match[q][c]: how command c fits query q
  Limit,         \* commands offered at most
  MaxOpenings    \* bound: times the palette is opened

ASSUME PaletteAssumption ==
  /\ Limit \in Nat \ {0} /\ MaxOpenings \in Nat
  /\ Things \in Seq(Range(Things)) /\ StaticCommands \in Seq(Range(StaticCommands))

VARIABLES
  there,      \* the things there are
  opened, opening,     \* the palette is open; how often it was
  typed,      \* what is searched
  remote,     \* the commands read, and at which opening
  searching,  \* the loading flag
  missing,    \* the sources that failed
  marked,     \* the row that Enter opens, counted from 0
  shifted     \* commands arrived since the row was marked

paletteVars == <<there, opened, opening, typed, remote, searching, missing, marked, shifted>>

PaletteInit ==
  /\ there \in SUBSET Range(Things)
  /\ opened = FALSE /\ opening = 0 /\ typed = None
  /\ remote = [commands |-> <<>>, of |-> 0]
  /\ searching = FALSE /\ missing = {} /\ marked = 0 /\ shifted = FALSE

-----------------------------------------------------------------------------
Score(c, q) ==
  IF q = None THEN 1
  ELSE CASE Match[q][c] = "title" -> 140
         [] Match[q][c] = "start" -> 120
         [] Match[q][c] = "inside" -> 100
         [] Match[q][c] = "subtitle" -> 50
         [] Match[q][c] = "keyword" -> 25
         [] OTHER -> 0

Cut(commands) == SubSeq(commands, 1, IF Len(commands) < Limit THEN Len(commands) ELSE Limit)

Ranked(commands, q) ==
  LET score(i) == Score(commands[i], q)
      hits == {i \in DOMAIN commands : score(i) > 0}
      before(i, j) == score(i) > score(j) \/ (score(i) = score(j) /\ i < j)
  IN Arranged(commands, hits, {p \in hits \X hits : before(p[1], p[2])})

\* Mutant of searchCommands: the first commands are cut out, then ranked.
searchCutFirst(commands, q) == Ranked(Cut(commands), q)

\* The best come first, among equals those listed first.
searchCommands(commands, q) == Cut(Ranked(commands, q))

All == StaticCommands \o remote.commands
Results == searchCommands(All, typed)

-----------------------------------------------------------------------------
Thing(c) ==
  /\ c \in Range(Things)
  /\ there' = IF c \in there THEN there \ {c} ELSE there \cup {c}
  /\ UNCHANGED <<calls, opened, opening, typed, remote, searching, missing, marked, shifted>>

\* The requests of an opening are made together and settle together.
ServePalette(s) ==
  /\ Waits(s, "search")
  /\ \E lost \in SUBSET Sources : Answer(s, [there |-> there, lost |-> lost])
  /\ UNCHANGED paletteVars

\* The effect's cleanup: what is on its way is not taken any more.
Inactive(call) == IF call.kind = "search" THEN [call EXCEPT !.arg.active = FALSE] ELSE call

\* Mutant of Cleaned: nobody tells the requests.
CleanedNever == calls

Cleaned == [s \in Slots |-> Inactive(calls[s])]

Begin(s) ==
  /\ calls[s] = Free /\ opening < MaxOpenings
  /\ opening' = opening + 1
  /\ calls' = [Cleaned EXCEPT ![s] = Asked("search", [active |-> TRUE, of |-> opening'])]
  /\ typed' = None /\ marked' = 0 /\ shifted' = FALSE /\ searching' = TRUE

\* It is opened, or the language changes while it is open.
OpenPalette ==
  /\ \E s \in Slots : IsFree(s) /\ Begin(s)
  /\ opened' = TRUE
  /\ UNCHANGED <<there, remote, missing>>

ClosePalette ==
  /\ opened /\ opened' = FALSE
  /\ calls' = Cleaned
  /\ UNCHANGED <<there, opening, typed, remote, searching, missing, marked, shifted>>

TakeSearch(s) ==
  LET answer == calls[s].data
      found == {c \in answer.there : SourceOf[c] \notin answer.lost}
  IN /\ calls[s].kind = "search" /\ calls[s].state = "answered"
     /\ IF calls[s].arg.active
        THEN /\ remote' = [commands |-> Kept(Things, found), of |-> calls[s].arg.of]
             /\ missing' = answer.lost
             /\ searching' = FALSE
             /\ shifted' = TRUE
        ELSE UNCHANGED <<remote, missing, searching, shifted>>
     /\ Turn(s, Free)
     /\ UNCHANGED <<there, opened, opening, typed, marked>>

\* A step up from a row that is not offered any more may end on another such.
Moves(row) ==
  /\ opened /\ marked' = row
  /\ UNCHANGED <<calls, there, opened, opening, remote, searching, missing>>

Marks(row) == Moves(row) /\ shifted' = FALSE

\* Mutant of AfterTyping: the row stays.
AfterTypingKept == marked

\* The effect on the query.
AfterTyping == 0

TypeQuery(q) == q # typed /\ typed' = q /\ Marks(AfterTyping)

ArrowDown ==
  /\ Marks(IF marked + 1 < Len(Results) THEN marked + 1 ELSE Len(Results) - 1)
  /\ UNCHANGED typed
ArrowUp == Moves(IF marked > 0 THEN marked - 1 ELSE 0) /\ UNCHANGED <<typed, shifted>>
Hover(row) == row < Len(Results) /\ Marks(row) /\ UNCHANGED typed

\* Enter or a click: the command's page is opened and the palette closed.
Execute ==
  /\ marked + 1 \in DOMAIN Results
  /\ ClosePalette

PaletteNext ==
  \/ OpenPalette \/ ClosePalette \/ ArrowDown \/ ArrowUp \/ Execute
  \/ \E c \in Range(Things) : Thing(c)
  \/ \E q \in Queries \cup {None} : TypeQuery(q)
  \/ \E row \in 0..Limit - 1 : Hover(row)
  \/ \E s \in Slots : ServePalette(s) \/ TakeSearch(s)

-----------------------------------------------------------------------------
PaletteTypeOK ==
  /\ there \subseteq Range(Things) /\ remote.of \in 0..opening
  /\ missing \subseteq Sources /\ Len(Results) <= Limit
  /\ marked \in -1..Limit

PaletteSpinnersEnd == opened /\ searching => Flying({"search"})

\* A palette that is open and does not wait offers what was read at this
\* opening, never what an earlier one asked for.
PaletteIsOfThisOpening == opened /\ ~searching => remote.of = opening

\* No command that was left out fits better than one offered, and none is left
\* out while there is room.
BestAreOffered ==
  \A c \in Range(All) \ Range(Results) : Score(c, typed) > 0 =>
    /\ Len(Results) = Limit
    /\ \A d \in Range(Results) : Score(d, typed) >= Score(c, typed)

\* Enter opens one of the commands offered, if there are any, unless others
\* arrived since the row was marked.
MarkedIsOffered ==
  opened /\ ~shifted /\ Results # <<>> => marked + 1 \in DOMAIN Results
=============================================================================
