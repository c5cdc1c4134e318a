----------------------------- MODULE FileWatcher -----------------------------
(***************************************************************************)
(* Discovery from a file (controlplane/file-client.go): Watch loads the    *)
(* file, sends it, and then starts a timer for each write event, whose     *)
(* function, in a goroutine of its own, loads the file again and sends it. *)
(* Stopping a timer does not stop a function that has begun, so several of *)
(* them may be under way, and one may send after Watch has returned and    *)
(* closed the channel.                                                     *)
(***************************************************************************)
EXTENDS MeshConfig

CONSTANTS
    Texts,       \* what an operator saves
    Empty,       \* the text of a file that has just been truncated
    Raw,         \* the tree that viper finds in a text
    MaxSaves,    \* bound: saves
    MaxReloads   \* bound: timer functions under way

Parse == [t \in Texts \cup {Empty} |-> ParseConfig(Raw[t])]

\* The texts that LoadConfig loads.
Valid == {t \in Texts \cup {Empty} : Validate(Parse[t])}

ASSUME TextAssumption == Empty \notin Texts \cup Valid
\* A file lists finitely many services, and an empty one none.
ASSUME RawAssumption == /\ Raw[Empty].services = Junk
                        /\ \A t \in Texts : IsFiniteSet(Ran(Parse[t].services))
ASSUME SavesAssumption == MaxSaves \in Nat /\ MaxReloads \in Nat

VARIABLES
    file,       \* the content of the file
    saves,      \* how often it has been saved
    watched,    \* fsnotify's watch is on this file
    events,     \* write events that have not been received
    wpc, wcfg,  \* Watch, and the text of the initial configuration
    timer,      \* reloadTimer is running
    reload,     \* the timer functions under way
    configChan, closed,
    ctxDone,
    proc        \* "up" or "panicked"

fileVars == <<file, saves>>
notifyVars == <<watched, events>>
watchVars == <<wpc, wcfg, timer>>
chanVars == <<configChan, closed>>
fileWatcherVars == <<fileVars, notifyVars, watchVars, reload, chanVars, ctxDone, proc>>

Slots == 1 .. MaxReloads
ChanCap == 1
Idle == [pc |-> "idle", cfg |-> Empty]
AnyText == Texts \cup {Empty}

WatcherTypeOK ==
    /\ file \in AnyText /\ saves \in 0 .. MaxSaves
    /\ watched \in BOOLEAN /\ events \in 0 .. 2
    /\ wpc \in {"add", "load", "send", "loop", "stopped"}
    /\ wcfg \in AnyText /\ timer \in BOOLEAN
    /\ reload \in [Slots -> [pc : {"idle", "load", "send"}, cfg : AnyText]]
    /\ configChan \in Seq(Texts) /\ Len(configChan) <= ChanCap
    /\ closed \in BOOLEAN /\ ctxDone \in BOOLEAN
    /\ proc \in {"up", "panicked"}

\* main calls Watch, with whatever is in the file.
WatcherInit ==
    /\ file \in AnyText /\ saves = 0
    /\ watched = FALSE /\ events = 0
    /\ wpc = "add" /\ wcfg = Empty /\ timer = FALSE
    /\ reload = [i \in Slots |-> Idle]
    /\ configChan = << >> /\ closed = FALSE
    /\ ctxDone = FALSE /\ proc = "up"

Up == proc = "up"
Room == Len(configChan) < ChanCap

-----------------------------------------------------------------------------
(* The operator saves the file; a save that is begun is finished *)

\* fsnotify holds one event until Watch receives it; the kernel keeps one more
\* and merges further ones into it.
Notify == events' = IF watched /\ events < 2 THEN events + 1 ELSE events

\* Opened for writing: the file is empty until the text is written.
SaveTruncate ==
    /\ saves < MaxSaves /\ file # Empty
    /\ file' = Empty
    /\ Notify
    /\ UNCHANGED <<saves, watched, watchVars, reload, chanVars, ctxDone, proc>>

SaveText(c) ==
    /\ saves < MaxSaves /\ file = Empty
    /\ file' = c /\ saves' = saves + 1
    /\ Notify
    /\ UNCHANGED <<watched, watchVars, reload, chanVars, ctxDone, proc>>

\* Renamed over: the watched file is gone, and fsnotify says Chmod or Remove,
\* never Write.
SaveRename(c) ==
    /\ saves < MaxSaves
    /\ file' = c /\ saves' = saves + 1
    /\ watched' = FALSE
    /\ UNCHANGED <<events, watchVars, reload, chanVars, ctxDone, proc>>

Save == SaveTruncate \/ \E c \in Texts : SaveText(c) \/ SaveRename(c)

-----------------------------------------------------------------------------
(* Watch *)

\* Every return closes fsnotify's watcher and the channel.
Stopped == /\ wpc' = "stopped" /\ closed' = TRUE
           /\ watched' = FALSE /\ events' = 0

\* NewWatcher or Add may fail.
AddWatch ==
    /\ Up /\ wpc = "add"
    /\ \/ watched' = TRUE /\ wpc' = "load" /\ UNCHANGED <<closed, events>>
       \/ Stopped
    /\ UNCHANGED <<fileVars, wcfg, timer, reload, configChan, ctxDone, proc>>

\* LoadConfig, for the first time: an invalid file ends Watch for good.
LoadInitial ==
    /\ Up /\ wpc = "load"
    /\ IF file \in Valid THEN wcfg' = file /\ wpc' = "send" /\ UNCHANGED <<closed, notifyVars>>
                         ELSE Stopped /\ UNCHANGED wcfg
    /\ UNCHANGED <<fileVars, timer, reload, configChan, ctxDone, proc>>

SendInitial ==
    /\ Up /\ wpc = "send"
    /\ \/ /\ Room /\ configChan' = Append(configChan, wcfg)
          /\ wpc' = "loop" /\ UNCHANGED <<closed, notifyVars>>
       \/ ctxDone /\ Stopped /\ UNCHANGED configChan
    /\ wcfg' = Empty
    /\ UNCHANGED <<fileVars, timer, reload, ctxDone, proc>>

\* Mutant: a timer that is running is left as it is and the event is forgotten
\* while a reload is under way.
TakeEventOnce ==
    /\ Up /\ wpc = "loop" /\ events > 0
    /\ events' = events - 1
    /\ timer' = (timer \/ \A i \in Slots : reload[i].pc = "idle")
    /\ UNCHANGED <<fileVars, watched, wpc, wcfg, reload, chanVars, ctxDone, proc>>

\* A write event stops the timer and starts another.
TakeEvent ==
    /\ Up /\ wpc = "loop" /\ events > 0
    /\ events' = events - 1
    /\ timer' = TRUE
    /\ UNCHANGED <<fileVars, watched, wpc, wcfg, reload, chanVars, ctxDone, proc>>

\* Mutant: Watch also returns when the watched file is gone.
StopWatchOnRemove ==
    /\ Up /\ wpc = "loop" /\ (ctxDone \/ ~watched)
    /\ Stopped
    /\ timer' = (timer /\ ~ctxDone)
    /\ UNCHANGED <<fileVars, wcfg, reload, configChan, ctxDone, proc>>

\* The context is done.  A timer that has not fired is stopped.
StopWatch ==
    /\ Up /\ wpc = "loop" /\ ctxDone
    /\ Stopped
    /\ timer' = FALSE
    /\ UNCHANGED <<fileVars, wcfg, reload, configChan, ctxDone, proc>>

Watch == AddWatch \/ LoadInitial \/ SendInitial \/ TakeEvent \/ StopWatch

-----------------------------------------------------------------------------
(* The function that AfterFunc runs *)

\* In a goroutine of its own: the first slot that is free.
FireTimer(i) ==
    /\ Up /\ timer /\ reload[i].pc = "idle"
    /\ \A j \in Slots : j < i => reload[j].pc # "idle"
    /\ timer' = FALSE
    /\ reload' = [reload EXCEPT ![i].pc = "load"]
    /\ UNCHANGED <<fileVars, notifyVars, wpc, wcfg, chanVars, ctxDone, proc>>

\* Two calls of LoadConfig write viper's global maps without a lock.
LoadsOverlap == \E i, j \in Slots : i # j /\ reload[i].pc = "load" /\ reload[j].pc = "load"

\* The process dies, with everything it had in memory.
Panic ==
    /\ proc' = "panicked"
    /\ watched' = FALSE /\ events' = 0 /\ timer' = FALSE
    /\ reload' = [i \in Slots |-> Idle] /\ configChan' = << >>
    /\ UNCHANGED <<wpc, wcfg, closed>>
Survives == UNCHANGED <<notifyVars, watchVars, closed, proc>>

\* LoadConfig of whatever the file contains now.
Reload(i) ==
    /\ Up /\ reload[i].pc = "load"
    /\ \/ LoadsOverlap /\ Panic
       \/ /\ reload' = [reload EXCEPT ![i] = IF file \in Valid THEN [pc |-> "send", cfg |-> file]
                                                              ELSE Idle]
          /\ UNCHANGED configChan /\ Survives
    /\ UNCHANGED <<fileVars, ctxDone>>

\* select: send if there is room, or panic if the channel is closed, or return
\* if the context is done.
SendReload(i) ==
    /\ Up /\ reload[i].pc = "send"
    /\ \/ closed /\ Panic
       \/ /\ ~closed /\ Room
          /\ configChan' = Append(configChan, reload[i].cfg)
          /\ reload' = [reload EXCEPT ![i] = Idle]
          /\ Survives
       \/ /\ ctxDone
          /\ reload' = [reload EXCEPT ![i] = Idle]
          /\ UNCHANGED configChan /\ Survives
    /\ UNCHANGED <<fileVars, ctxDone>>

TimerFunc(i) == FireTimer(i) \/ Reload(i) \/ SendReload(i)

\* SIGINT or SIGTERM.
Cancel ==
    /\ Up /\ ~ctxDone
    /\ ctxDone' = TRUE
    /\ UNCHANGED <<fileVars, notifyVars, watchVars, reload, chanVars, proc>>
=============================================================================
