-------------------------------- MODULE Serve --------------------------------
(***************************************************************************)
(* The process that "mgnx serve" starts (cmd/serve.go): it waits for the   *)
(* VPN's files, connects, starts the health and metrics servers, migrates  *)
(* the schema, and starts the file watcher, the DHT system, the workers    *)
(* and the API in one group.  A failure of one of them, a signal or the    *)
(* watcher cancels the context they share, and the process exits when all  *)
(* have returned.                                                          *)
(***************************************************************************)
EXTENDS GluetunFiles, Bootstrap

CONSTANTS
    Observers,  \* HTTP servers that start before the migrations: health and metrics
    Servers,    \* HTTP servers that start after them: the API
    Workers     \* what returns only when its context ends: indexer and scraper

ASSUME ServeAssumption == Observers \cap Servers = {} /\ Workers \cap (Observers \cup Servers) = {}

Services == Observers \cup Servers \cup Workers

VARIABLES
    main,       \* where RunE is: "files", "connect", "migrate", "launch", "wait", "exited"
    cancelled,  \* the context of the group has ended
    running,    \* services of the group that have not returned
    system      \* the goroutine of the DHT system: "off", "running", "returned"

processVars == <<main, cancelled, running, system>>
vars == <<filesVars, bootVars, processVars>>

Init ==
    /\ FilesInit /\ BootInit
    /\ main = "files" /\ cancelled = FALSE /\ running = {} /\ system = "off"

-----------------------------------------------------------------------------
(* RunE.                                                                   *)

ReadFiles ==
    /\ main = "files"
    /\ ReadSettled
    /\ UNCHANGED <<bootVars, processVars>>

FilesRead ==
    /\ main = "files"
    /\ SettledAll \/ reader = "failed"
    /\ main' = IF SettledAll THEN "connect" ELSE "exited"
    /\ UNCHANGED <<filesVars, bootVars, cancelled, running, system>>

\* The pool, the UDP socket and the DHT system; without them RunE returns.
Connect ==
    /\ main = "connect"
    /\ \/ main' = "exited" /\ UNCHANGED running
       \/ main' = "migrate" /\ running' = Observers
    /\ UNCHANGED <<filesVars, bootVars, cancelled, system>>

\* RunE returns on an error, or when an observer has failed, and takes the others with it.
Migrate ==
    /\ main = "migrate"
    /\ \/ main' = "exited" /\ UNCHANGED watcher
       \/ ~ cancelled /\ main' = "launch" /\ watcher' = "add"
    /\ UNCHANGED <<content, watched, event, readerVars, bootVars, cancelled, running, system>>

\* A tracker address that is not one ends RunE here.
Launch ==
    /\ main = "launch"
    /\ \/ main' = "exited" /\ UNCHANGED <<running, system, stage>>
       \/ /\ main' = "wait"
          /\ running' = running \cup Servers \cup Workers
          /\ system' = "running" /\ stage' = "start"
    /\ UNCHANGED <<filesVars, pending, live, known, queried, adding, populated, heard, cancelled>>

\* Wait returns, and RunE with it: always without an error.
Wait ==
    /\ main = "wait"
    /\ running = {} /\ system = "returned" /\ watcher = "returned"
    /\ main' = "exited"
    /\ UNCHANGED <<filesVars, bootVars, cancelled, running, system>>

\* Before Notify a signal ends the process at once; afterwards the first one cancels.
Signal ==
    /\ IF main = "wait"
       THEN ~ cancelled /\ cancelled' = TRUE /\ UNCHANGED main
       ELSE main # "exited" /\ main' = "exited" /\ UNCHANGED cancelled
    /\ UNCHANGED <<filesVars, bootVars, running, system>>

-----------------------------------------------------------------------------
(* The group.                                                              *)

Alive == main # "exited"

\* Faulty variant: the server only logs its error.
ServerFailsQuietly(s) ==
    /\ Alive
    /\ s \in running \ Workers
    /\ running' = running \ {s}
    /\ UNCHANGED <<filesVars, bootVars, main, cancelled, system>>

\* A server cannot bind its port, or stops serving: its error cancels the group.
ServerFails(s) ==
    /\ Alive
    /\ s \in running \ Workers
    /\ running' = running \ {s}
    /\ cancelled' = TRUE
    /\ UNCHANGED <<filesVars, bootVars, main, system>>

\* Shutdown makes Serve return; the requests in flight are not waited for.
ServerStops(s) ==
    /\ Alive
    /\ cancelled
    /\ s \in running \ Workers
    /\ running' = running \ {s}
    /\ UNCHANGED <<filesVars, bootVars, main, cancelled, system>>

\* A worker returns when each of its loops has seen that the context ended.
WorkerStops(s) ==
    /\ Alive
    /\ cancelled
    /\ s \in running \cap Workers
    /\ running' = running \ {s}
    /\ UNCHANGED <<filesVars, bootVars, main, cancelled, system>>

Watch ==
    /\ Alive
    /\ \/ (WatchAdd \/ NothingDrifted) /\ UNCHANGED cancelled
       \/ (DriftCancels \/ EventCancels) /\ cancelled' = TRUE
       \/ cancelled /\ WatchStops /\ UNCHANGED cancelled
    /\ UNCHANGED <<bootVars, main, running, system>>

BootStep ==
    /\ Alive /\ system = "running"
    /\ Boot \/ (cancelled /\ SeedCancelled)
    /\ UNCHANGED <<filesVars, processVars>>

TableChanges ==
    /\ Alive /\ system = "running"
    /\ Inbound \/ BucketRefresh \/ RefreshStaleBuckets \/ Evict
    /\ UNCHANGED <<filesVars, processVars>>

\* Start has failed: the error cancels the group, unless it is that of the context.
SystemFails ==
    /\ Alive
    /\ system = "running" /\ stage = "failed"
    /\ system' = "returned"
    /\ cancelled' = TRUE
    /\ UNCHANGED <<filesVars, bootVars, main, running>>

SystemStops ==
    /\ Alive
    /\ system = "running" /\ stage = "up"
    /\ cancelled
    /\ system' = "returned"
    /\ UNCHANGED <<filesVars, bootVars, main, cancelled, running>>

-----------------------------------------------------------------------------
(* The sidecar writes at any time; what it writes into a process that is   *)
(* already stopping no longer matters.                                     *)

Sidecar ==
    /\ Alive /\ ~ cancelled
    /\ \E f \in Files, c \in Contents : WriteInPlace(f, c) \/ Replace(f, c)
    /\ UNCHANGED <<bootVars, processVars>>

Group ==
    \/ \E s \in Services : ServerStops(s) \/ WorkerStops(s)
    \/ Watch \/ BootStep \/ SystemFails \/ SystemStops

RunE == ReadFiles \/ FilesRead \/ Connect \/ Migrate \/ Launch \/ Wait

Next ==
    \/ RunE \/ Group
    \/ \E s \in Services : ServerFails(s)
    \/ Signal \/ TableChanges \/ Sidecar

\* Goroutines are scheduled and queries return; nothing makes a server fail, a signal
\* arrive or a file change.
Spec ==
    /\ Init /\ [][Next]_vars
    /\ WF_vars(RunE) /\ WF_vars(Watch) /\ WF_vars(BootStep)
    /\ WF_vars(SystemFails) /\ WF_vars(SystemStops)
    /\ \A s \in Services : WF_vars(ServerStops(s)) /\ WF_vars(WorkerStops(s))

-----------------------------------------------------------------------------
TypeOK ==
    /\ FilesTypeOK /\ BootTypeOK
    /\ main \in {"files", "connect", "migrate", "launch", "wait", "exited"}
    /\ cancelled \in BOOLEAN
    /\ running \subseteq Services
    /\ system \in {"off", "running", "returned"}

\* While a value settles, and while the process runs on it, the file still says the same,
\* or an event is on its way, or no watch can see it: no change slips in between the
\* reading and the watching (gluetun/file.go:53 and 190).
ChangesAreNoticed ==
    /\ TypeOK
    /\ \A f \in watched :
         \/ reader = "settle" /\ f = Current
         \/ watcher = "watching"
         => content[f] = value[f] \/ f \in event

\* The start of the DHT comes to an end, whatever queries fail and whatever nodes the
\* answers name (dht/server/bootstrap.go:166).  And the process ends when a server has
\* failed, the DHT found no node, a signal came or a watched file changed: each of these
\* cancels the context, and then every goroutine of the group returns (cmd/serve.go:111).
StartsAndStops ==
    /\ system = "running" ~> stage \in {"up", "failed"}
    /\ /\ main = "wait"
       /\ \/ cancelled
          \/ stage = "failed"
          \/ ~ (Observers \cup Servers \subseteq running)
          \/ watcher = "watching" /\ \E f \in watched : content[f] # value[f]
       ~> main = "exited"

\* When the rounds are over, a query has been sent to each of the K closest of all the nodes
\* that any answer named: none is lost between an answer and the shortlist, by the limit of
\* a round or to a goroutine that adds nodes meanwhile (dht/server/bootstrap.go:50 and 171).
NearestWereAsked == stage \in {"count", "up"} => Nearest(K, named) \subseteq asked

\* A node that was asked is never taken for one that was not: the round waits for the
\* goroutines that could set its entry anew (dht/server/bootstrap.go:41 and 208).
AskedOnce == [][queried \subseteq queried']_queried

=============================================================================
