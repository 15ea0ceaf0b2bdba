--------------------------------- MODULE Tui ---------------------------------
(***************************************************************************)
(* The terminal interface (tui/model): Update handles one message at a     *)
(* time, a key or what a command sends when it is done, and commands run   *)
(* side by side: a request to the HTTP API is answered while keys go on    *)
(* changing the view, and the answer is handled by the view it meets.      *)
(*                                                                         *)
(* The detail view and the dialogue keep their state in screen: both are   *)
(* set anew when they open.  Texts are left out, and with them the rows    *)
(* that a search hides; so are the type filter, which works like the state *)
(* filter, and the cursor of the picker, from which any state may be set.  *)
(* There is one server, whichever host is connected to.                    *)
(***************************************************************************)
EXTENDS Integers, Sequences, FiniteSets, SequencesExt

CONSTANTS
    Slots,      \* bound: commands that run at once
    Listing,    \* the torrents in the order the server lists them
    States,     \* ValidStates
    Active,     \* the one that the list asks for at first
    Filters,    \* of the list: sets of states
    PageSize,
    MaxPage     \* bound: pages turned

Torrents == ToSet(Listing)

ASSUME TuiAssumption ==
    /\ Listing \in Seq(Torrents) /\ IsInjective(Listing)
    /\ {PageSize, MaxPage} \subseteq Nat \ {0}
    /\ Active \in States
    /\ Filters \subseteq SUBSET States

VARIABLES
    server,     \* state of each torrent, or Gone
    screen,     \* activeView, with the state of the detail view and the dialogue
    connected,  \* there is a client
    connecting, \* loading of the ConfigModel
    list,       \* the ListModel
    cmds,       \* what runs in each slot: a request, or a message on its way to Update
    had         \* history: states each torrent has had

configVars == <<connected, connecting>>
tuiVars == <<server, screen, configVars, list, cmds, had>>

Gone == "gone"
NoTorrent == [hash |-> "none", state |-> "none"]
Free == [kind |-> "free"]

Config == [view |-> "config"]
List == [view |-> "list"]
Closed == [view |-> "closed"]
Detail(torrent, loading, picker) ==
    [view |-> "detail", torrent |-> torrent, loading |-> loading, picker |-> picker]
Confirm(h, from) == [view |-> "confirm", hash |-> h, from |-> from]

\* Requests, and the messages that need no answer.
Fetch(l) == [kind |-> "fetch", page |-> l.page, filter |-> l.filter]
About(kind, h) == [kind |-> kind, hash |-> h]
Update(h, s) == [kind |-> "update", hash |-> h, state |-> s]
ToConfirm(h, from) == [kind |-> "toConfirm", hash |-> h, from |-> from]
Plain(kind) == [kind |-> kind]

Requests == {"connect", "fetch", "get", "delete", "update"}

NewList ==
    [rows |-> <<>>, page |-> 0, last |-> FALSE, loading |-> FALSE, cursor |-> 0,
     typing |-> FALSE, filter |-> {Active}]

TuiInit ==
    /\ server = [h \in Torrents |-> Active]
    /\ had = [h \in Torrents |-> {Active}]
    /\ list = NewList
    /\ connected \in BOOLEAN /\ connecting = FALSE
    /\ screen = IF connected THEN List ELSE Config
    /\ cmds \in [Slots -> IF connected THEN {Free, Fetch(NewList)} ELSE {Free}]
    /\ Cardinality({s \in Slots : cmds[s] # Free}) = IF connected THEN 1 ELSE 0

\* The elements of s that are in S, in their order.
Keep(s, S) ==
    LET kept[i \in 0 .. Len(s)] ==
          IF i = 0 THEN <<>>
          ELSE IF s[i] \in S THEN Append(kept[i - 1], s[i])
          ELSE kept[i - 1]
    IN  kept[Len(s)]

-----------------------------------------------------------------------------
(* The server.                                                             *)

Page(c) ==
    LET found == Keep(Listing, {h \in Torrents : server[h] \in c.filter})
    IN  SubSeq(found, c.page * PageSize + 1, Min({(c.page + 1) * PageSize, Len(found)}))

\* What the handler of a request does to the table.  To set the state of a torrent that
\* is gone is no error.
Effect(c) ==
    CASE c.kind = "delete" -> server' = [server EXCEPT ![c.hash] = Gone] /\ UNCHANGED had
      [] c.kind = "update" -> /\ server' = [server EXCEPT ![c.hash] = IF @ = Gone THEN Gone ELSE c.state]
                              /\ had' = [had EXCEPT ![c.hash] = @ \cup {c.state}]
      [] OTHER -> UNCHANGED <<server, had>>

Failure(c) == Plain(IF c.kind = "connect" THEN "refused" ELSE "error")

\* The message a command sends when its request is answered.
Result(c) ==
    CASE c.kind = "connect" -> Plain("connected")
      [] c.kind = "fetch" -> [kind |-> "rows", rows |-> Page(c)]
      [] c.kind = "get" -> IF server[c.hash] = Gone THEN Failure(c)
                           ELSE [kind |-> "torrent", hash |-> c.hash, state |-> server[c.hash]]
      [] c.kind = "delete" -> About("deleted", c.hash)
      [] c.kind = "update" -> [kind |-> "updated", hash |-> c.hash, state |-> c.state]

\* A request is answered; or it times out, handled or not.
ServerAnswers(s) ==
    LET c == cmds[s] IN
    /\ c.kind \in Requests
    /\ \/ Effect(c) /\ cmds' = [cmds EXCEPT ![s] = Result(c)]
       \/ /\ Effect(c) \/ UNCHANGED <<server, had>>
          /\ cmds' = [cmds EXCEPT ![s] = Failure(c)]
    /\ UNCHANGED <<screen, configVars, list>>

-----------------------------------------------------------------------------
(* Update, for the message of a command: those that App handles whatever   *)
(* the view, then those of the active view.                                *)

Then(s, cmd) == cmds' = [cmds EXCEPT ![s] = cmd] /\ UNCHANGED <<server, had>>

\* Faulty variant: the list is shown as it was left.
NavigateListAsLeft(s) ==
    /\ cmds[s].kind = "toList"
    /\ screen' = List
    /\ Then(s, Free)
    /\ UNCHANGED <<configVars, list>>

NavigateList(s) ==
    /\ cmds[s].kind = "toList"
    /\ screen' = List
    /\ Then(s, Fetch(list))
    /\ UNCHANGED <<configVars, list>>

\* SetLoading forgets the torrent of the last time.
NavigateDetail(s) ==
    /\ cmds[s].kind = "toDetail"
    /\ screen' = Detail(NoTorrent, TRUE, FALSE)
    /\ Then(s, About("get", cmds[s].hash))
    /\ UNCHANGED <<configVars, list>>

NavigateConfirmDelete(s) ==
    /\ cmds[s].kind = "toConfirm"
    /\ screen' = Confirm(cmds[s].hash, cmds[s].from)
    /\ Then(s, Free)
    /\ UNCHANGED <<configVars, list>>

ClientConnected(s) ==
    /\ cmds[s].kind = "connected"
    /\ connected' = TRUE
    /\ screen' = List
    /\ list' = NewList
    /\ Then(s, Fetch(NewList))
    /\ UNCHANGED connecting

\* RemoveTorrent: the cursor stays within the rows.
TorrentDeleted(s) ==
    LET rows == Keep(list.rows, Torrents \ {cmds[s].hash}) IN
    /\ cmds[s].kind = "deleted"
    /\ screen' = List
    /\ list' = [list EXCEPT !.rows = rows,
                            !.cursor = IF @ >= Len(rows) /\ @ > 0 THEN Len(rows) - 1 ELSE @]
    /\ Then(s, Free)
    /\ UNCHANGED configVars

TorrentsLoaded(s) ==
    /\ cmds[s].kind = "rows"
    /\ screen = List
    /\ list' = [list EXCEPT !.rows = cmds[s].rows, !.last = Len(cmds[s].rows) < PageSize,
                            !.loading = FALSE, !.cursor = 0]
    /\ Then(s, Free)
    /\ UNCHANGED <<screen, configVars>>

TorrentLoaded(s) ==
    /\ cmds[s].kind = "torrent"
    /\ screen.view = "detail"
    /\ screen' = [screen EXCEPT !.torrent = [hash |-> cmds[s].hash, state |-> cmds[s].state],
                                !.loading = FALSE]
    /\ Then(s, Free)
    /\ UNCHANGED <<configVars, list>>

\* Faulty variant: the new state is taken for that of the torrent shown.
StateUpdatedOfAny(s) ==
    /\ cmds[s].kind = "updated"
    /\ screen.view = "detail"
    /\ screen' = [screen EXCEPT !.picker = FALSE,
                    !.torrent = IF @ # NoTorrent THEN [@ EXCEPT !.state = cmds[s].state] ELSE @]
    /\ Then(s, Free)
    /\ UNCHANGED <<configVars, list>>

\* The picker closes, whichever torrent the answer is about.
StateUpdated(s) ==
    /\ cmds[s].kind = "updated"
    /\ screen.view = "detail"
    /\ screen' = [screen EXCEPT !.picker = FALSE,
                    !.torrent = IF @ # NoTorrent /\ @.hash = cmds[s].hash
                                THEN [@ EXCEPT !.state = cmds[s].state] ELSE @]
    /\ Then(s, Free)
    /\ UNCHANGED <<configVars, list>>

\* The configuration view shows why its request was refused.
Refused(s) ==
    /\ cmds[s].kind = "refused"
    /\ screen = Config
    /\ connecting' = FALSE
    /\ Then(s, Free)
    /\ UNCHANGED <<screen, connected, list>>

\* An error is shown by the active view, whose command it need not be.
Error(s) ==
    /\ cmds[s].kind = "error"
    /\ screen' = IF screen.view = "detail" THEN [screen EXCEPT !.loading = FALSE] ELSE screen
    /\ list' = IF screen = List THEN [list EXCEPT !.loading = FALSE] ELSE list
    /\ connecting' = (connecting /\ screen # Config)
    /\ Then(s, Free)
    /\ UNCHANGED connected

\* A view takes no notice of what another one asked for.
Dropped(s) ==
    /\ \/ cmds[s].kind = "rows" /\ screen # List
       \/ cmds[s].kind \in {"torrent", "updated"} /\ screen.view # "detail"
       \/ cmds[s].kind = "refused" /\ screen # Config
    /\ Then(s, Free)
    /\ UNCHANGED <<screen, configVars, list>>

Deliver(s) ==
    \/ NavigateList(s) \/ NavigateDetail(s) \/ NavigateConfirmDelete(s) \/ ClientConnected(s)
    \/ TorrentDeleted(s) \/ TorrentsLoaded(s) \/ TorrentLoaded(s) \/ StateUpdated(s)
    \/ Refused(s) \/ Error(s) \/ Dropped(s)

-----------------------------------------------------------------------------
(* Update, for a key.                                                      *)

\* A command starts in a free slot.
Starts(cmd) ==
    /\ \E s \in Slots : cmds[s] = Free /\ Then(s, cmd)
    /\ UNCHANGED connected

Runs(cmd) == Starts(cmd) /\ UNCHANGED connecting

\* Nothing is sent.
Quietly == UNCHANGED <<server, configVars, cmds, had>>

\* A change of the list that has it fetched again.
Fetches(l) == list' = [l EXCEPT !.loading = TRUE] /\ Runs(Fetch(l)) /\ UNCHANGED screen

\* ctrl+c, in any view, or q: the process ends, and what it was doing with it.
Quit ==
    /\ screen # Closed
    /\ screen' = Closed
    /\ list' = NewList
    /\ cmds' = [s \in Slots |-> Free]
    /\ connecting' = FALSE
    /\ UNCHANGED <<server, connected, had>>

OpenConfig ==
    /\ screen \notin {Config, Closed} /\ ~ list.typing
    /\ screen' = Config
    /\ Quietly /\ UNCHANGED list

\* Enter, and escape if there is a client.
ConfigKey ==
    /\ screen = Config
    /\ \/ connecting' = TRUE /\ Starts(Plain("connect"))
       \/ connected /\ Runs(Plain("toList"))
    /\ UNCHANGED <<screen, list>>

\* Enter and escape, while the search field has the focus.
SearchKey ==
    /\ screen = List /\ list.typing
    /\ list' = [list EXCEPT !.typing = FALSE]
    /\ Quietly /\ UNCHANGED screen

Table == screen = List /\ ~ list.typing

MoveCursor ==
    /\ Table
    /\ \/ list.cursor > 0 /\ list' = [list EXCEPT !.cursor = @ - 1]
       \/ list.cursor < Len(list.rows) - 1 /\ list' = [list EXCEPT !.cursor = @ + 1]
    /\ Quietly /\ UNCHANGED screen

Search ==
    /\ Table
    /\ list' = [list EXCEPT !.typing = TRUE]
    /\ Quietly /\ UNCHANGED screen

PageLeft == Table /\ list.page > 0 /\ Fetches([list EXCEPT !.page = @ - 1])

PageRight == Table /\ ~ list.last /\ list.page < MaxPage /\ Fetches([list EXCEPT !.page = @ + 1])

Filter == Table /\ \E f \in Filters \ {list.filter} : Fetches([list EXCEPT !.page = 0, !.filter = f])

Refresh == Table /\ Fetches(list)

\* Enter and d, on the row under the cursor.
Open ==
    /\ Table /\ list.cursor < Len(list.rows)
    /\ LET h == list.rows[list.cursor + 1] IN Runs(About("toDetail", h)) \/ Runs(ToConfirm(h, "list"))
    /\ UNCHANGED <<screen, list>>

\* In the detail view: back, the state picker, delete.
DetailKey ==
    /\ screen.view = "detail" /\ ~ screen.picker
    /\ \/ Runs(Plain("toList")) /\ UNCHANGED screen
       \/ screen' = [screen EXCEPT !.picker = TRUE] /\ Quietly
       \/ screen.torrent # NoTorrent /\ Runs(ToConfirm(screen.torrent.hash, "detail")) /\ UNCHANGED screen
    /\ UNCHANGED list

\* Enter on any state; the picker stays open until it is acknowledged.
PickerKey ==
    /\ screen.view = "detail" /\ screen.picker
    /\ \/ screen' = [screen EXCEPT !.picker = FALSE] /\ Quietly
       \/ /\ screen.torrent # NoTorrent
          /\ \E choice \in States : Runs(Update(screen.torrent.hash, choice))
          /\ UNCHANGED screen
    /\ UNCHANGED list

ConfirmKey ==
    /\ screen.view = "confirm"
    /\ \/ Runs(About("delete", screen.hash))
       \/ Runs(IF screen.from = "detail" THEN About("toDetail", screen.hash) ELSE Plain("toList"))
    /\ UNCHANGED <<screen, list>>

Key ==
    \/ Quit \/ OpenConfig \/ ConfigKey \/ SearchKey
    \/ MoveCursor \/ Search \/ PageLeft \/ PageRight \/ Filter \/ Refresh \/ Open
    \/ DetailKey \/ PickerKey \/ ConfirmKey

-----------------------------------------------------------------------------
TuiNext == Key \/ \E s \in Slots : ServerAnswers(s) \/ Deliver(s)

TuiSpec == TuiInit /\ [][TuiNext]_tuiVars

-----------------------------------------------------------------------------
(* Properties.                                                             *)

TuiTypeOK ==
    /\ server \in [Torrents -> States \cup {Gone}]
    /\ screen.view \in {"config", "list", "detail", "confirm", "closed"}
    /\ screen.view \in {"list", "detail", "confirm"} => connected
    /\ connecting \in BOOLEAN
    /\ list.rows \in Seq(Torrents) /\ list.cursor \in 0 .. PageSize - 1 /\ list.page \in 0 .. MaxPage
    /\ had \in [Torrents -> SUBSET States]

\* Whatever answers overtake each other, the detail view never shows a torrent in a state
\* that the server has not had it in, or acknowledged for it (tui/model/detail.go:64).
ShownStateWasReal ==
    /\ TuiTypeOK
    /\ screen.view = "detail" /\ screen.torrent # NoTorrent =>
         screen.torrent.state \in had[screen.torrent.hash]

\* A view is said to be loading, and nothing that could end it is under way.
InVain ==
    LET awaits(kinds) == \E s \in Slots : cmds[s].kind \in kinds IN
    \/ screen = List /\ list.loading /\ ~ awaits({"fetch", "rows", "error"})
    \/ screen.view = "detail" /\ screen.loading /\ ~ awaits({"get", "torrent", "error"})
    \/ screen = Config /\ connecting /\ ~ awaits({"connect", "connected", "refused", "error"})

\* An answer that came while another view was active is lost, but the view asks again when
\* it opens; with two exceptions (tui/model/app.go).  The list does not ask after a deletion
\* (105 and 134); and the configuration view may open as it was left, connecting, though the
\* answer has been: a refusal that met another view, or a connection, which opens the list
\* and leaves that view as it is (99 and 126).
NothingIsAwaitedInVain ==
    [][InVain' => \/ InVain
                  \/ \E s \in Slots : cmds[s].kind = "deleted" /\ cmds'[s] = Free
                  \/ screen # Config /\ screen' = Config /\ connecting]_tuiVars

=============
