---------------------------- MODULE GluetunFiles ----------------------------
(***************************************************************************)
(* The files in which the VPN sidecar leaves the external address and the  *)
(* forwarded port (gluetun/file.go): readSettled waits for each in turn at *)
(* start-up, WatchFiles ends the process when one changes afterwards.      *)
(*                                                                         *)
(* The sidecar writes in place, which raises an event for a watched file,  *)
(* or renames another file over it or removes it, which raises none and    *)
(* leaves the watch behind with the old file.                              *)
(***************************************************************************)
EXTENDS Integers, Sequences

CONSTANTS
    Order,      \* the files, in the order in which they are read
    Values      \* contents that parse

ASSUME FilesAssumption == Order \in Seq(STRING) /\ Values # {}

Files == {Order[i] : i \in DOMAIN Order}

Missing == "missing"
Invalid == "invalid"
None == "none"

Contents == Values \cup {Missing, Invalid}

VARIABLES
    content,    \* of each file
    watched,    \* files that are watched where they are now
    event,      \* files with an event nobody has taken
    value,      \* of each file: what was read at start-up
    settling,   \* how many files have settled
    reader,     \* where readSettled is: "stat", "watch", "read", "settle", "failed"
    watcher     \* where WatchFiles is: "off", "add", "check", "watching", "returned"

readerVars == <<value, settling, reader>>
filesVars == <<content, watched, event, readerVars, watcher>>

FilesTypeOK ==
    /\ content \in [Files -> Contents]
    /\ watched \subseteq Files /\ event \subseteq Files
    /\ value \in [Files -> Values \cup {None}]
    /\ settling \in 0 .. Len(Order)
    /\ reader \in {"stat", "watch", "read", "settle", "failed"}
    /\ watcher \in {"off", "add", "check", "watching", "returned"}

FilesInit ==
    /\ content \in [Files -> Contents]
    /\ watched = {} /\ event = {}
    /\ value = [f \in Files |-> None]
    /\ settling = 0 /\ reader = "stat"
    /\ watcher = "off"

-----------------------------------------------------------------------------
(* The sidecar.                                                            *)

WriteInPlace(f, c) ==
    /\ c # Missing
    /\ content' = [content EXCEPT ![f] = c]
    /\ event' = IF f \in watched THEN event \cup {f} ELSE event
    /\ UNCHANGED <<watched, readerVars, watcher>>

Replace(f, c) ==
    /\ content' = [content EXCEPT ![f] = c]
    /\ watched' = watched \ {f}
    /\ UNCHANGED <<event, readerVars, watcher>>

-----------------------------------------------------------------------------
(* readSettled.                                                            *)

SettledAll == settling = Len(Order)

Current == Order[settling + 1]

Reads(place) == ~ SettledAll /\ reader = place

\* The watcher is closed with whatever it had to say.
CloseWatch(f) == watched' = watched \ {f} /\ event' = event \ {f}

\* waitForFile polls until the file is there.
Stat ==
    /\ Reads("stat")
    /\ content[Current] # Missing
    /\ reader' = "watch"
    /\ UNCHANGED <<content, watched, event, value, settling, watcher>>

AddWatch ==
    /\ Reads("watch")
    /\ IF content[Current] = Missing
       THEN reader' = "failed" /\ UNCHANGED watched
       ELSE reader' = "read" /\ watched' = watched \cup {Current}
    /\ UNCHANGED <<content, event, value, settling, watcher>>

\* What does not parse is read again later, from the beginning, until FileWaitTimeout.
ReadFile ==
    /\ Reads("read")
    /\ IF content[Current] \in Values
       THEN /\ value' = [value EXCEPT ![Current] = content[Current]]
            /\ reader' = "settle"
            /\ UNCHANGED <<watched, event>>
       ELSE /\ CloseWatch(Current)
            /\ reader' \in {"stat", "failed"}
            /\ UNCHANGED value
    /\ UNCHANGED <<content, settling, watcher>>

Unsettle ==
    /\ Reads("settle")
    /\ Current \in event
    /\ CloseWatch(Current)
    /\ reader' = "stat"
    /\ UNCHANGED <<content, value, settling, watcher>>

\* The settle time is over; an event may have come just before.
Settle ==
    /\ Reads("settle")
    /\ CloseWatch(Current)
    /\ settling' = settling + 1
    /\ reader' = "stat"
    /\ UNCHANGED <<content, value, watcher>>

\* FileWaitTimeout, while waiting for the file or for it to settle.
WaitTimeout ==
    /\ Reads("settle") \/ (Reads("stat") /\ content[Current] = Missing)
    /\ reader' = "failed"
    /\ UNCHANGED <<content, watched, event, value, settling, watcher>>

ReadSettled == Stat \/ AddWatch \/ ReadFile \/ Unsettle \/ Settle \/ WaitTimeout

-----------------------------------------------------------------------------
(* WatchFiles.  Its steps say whether they cancel the process.             *)

WatchAdd ==
    /\ watcher = "add"
    /\ watched' = {f \in Files : content[f] # Missing}
    /\ watcher' = "check"
    /\ UNCHANGED <<content, event, readerVars>>

\* Faulty variant: nothing is compared after the watches are added.
NoDrift == {}

\* A file that cannot be read is passed over.
Drifted == {f \in Files : content[f] \notin {Missing, value[f]}}

DriftCancels ==
    /\ watcher = "check"
    /\ Drifted # {}
    /\ watcher' = "returned"
    /\ UNCHANGED <<content, watched, event, readerVars>>

NothingDrifted ==
    /\ watcher = "check"
    /\ Drifted = {}
    /\ watcher' = "watching"
    /\ UNCHANGED <<content, watched, event, readerVars>>

EventCancels ==
    /\ watcher = "watching"
    /\ event # {}
    /\ watcher' = "returned"
    /\ UNCHANGED <<content, watched, event, readerVars>>

WatchStops ==
    /\ watcher = "watching"
    /\ watcher' = "returned"
    /\ UNCHANGED <<content, watched, event, readerVars>>

-----------------------------------------------------------------------------
\* The file was missing when it was to be watched, or was replaced since: no watch sees it.
Unwatched(f) == f \notin watched

=============================================================================
