----------------------------- MODULE CertWatcher -----------------------------
(***************************************************************************)
(* The sidecar's certificates (pkg/proxy/cert_watcher.go): three files in  *)
(* a directory that somebody rotates, the fsnotify watch on it, the        *)
(* debounced reload, and the configuration that connections take from it   *)
(* (listener.go).                                                          *)
(*                                                                         *)
(* A file's content is the rotation it belongs to.  A certificate and a    *)
(* key fit if they are of one rotation; tls.LoadX509KeyPair reads them one *)
(* after the other and refuses two that do not fit.  The CA is read later  *)
(* and fits anything.                                                      *)
(***************************************************************************)
EXTENDS Integers

CONSTANTS
    Writers,       \* who rotates: "files" one by one, or the kubelet's "volume"
    MaxRotations   \* bound: rotations

ASSUME WritersAssumption == Writers \subseteq {"files", "volume"}
ASSUME RotationsAssumption == MaxRotations \in Nat

Files == {"tls.crt", "tls.key", "ca.crt"}
Rotations == 0 .. MaxRotations

VARIABLES
    writer,      \* which kind of writer this directory has
    file,        \* the content of each file
    torn,        \* files that are being written: they do not parse
    watching,    \* watcher.Add has been called
    events,      \* files with an event that watch has not received
    timer,       \* debounceTimer is running
    reloadChan,  \* whether reloadChan (capacity 1) holds a signal
    pc,          \* NewCertWatcher, and then watch
    read,        \* what reload has read so far
    tlsConfig,   \* the configuration in use
    missed,      \* history: a file changed and watch was not told
    conn         \* an outbound connection

disk == <<writer, file, torn, events, missed>>
watcher == <<watching, timer, reloadChan>>
vars == <<disk, watcher, pc, read, tlsConfig, conn>>

NoRotation == -1
Config == [pair : Rotations \cup {NoRotation}, ca : Rotations \cup {NoRotation}]
NoConfig == [pair |-> NoRotation, ca |-> NoRotation]

TypeOK ==
    /\ writer \in {"files", "volume"}
    /\ file \in [Files -> Rotations]
    /\ torn \subseteq Files
    /\ watching \in BOOLEAN /\ missed \in BOOLEAN
    /\ events \subseteq Files
    /\ timer \in BOOLEAN /\ reloadChan \in BOOLEAN
    /\ pc \in {"cert", "key", "ca", "swap", "add", "select", "fatal"}
    /\ read \in [Files -> Rotations \cup {NoRotation}]
    /\ tlsConfig \in Config
    /\ conn \in [pc : {"idle", "dialling", "verified"}, config : Config,
                 ca : Rotations \cup {NoRotation}]

NothingRead == [f \in Files |-> NoRotation]
NoConn == [pc |-> "idle", config |-> NoConfig, ca |-> NoRotation]

Init ==
    /\ writer \in Writers
    /\ file = [f \in Files |-> 0] /\ torn = {}
    /\ watching = FALSE /\ events = {} /\ missed = FALSE
    /\ timer = FALSE /\ reloadChan = FALSE
    /\ pc = "cert" /\ read = NothingRead
    /\ tlsConfig = NoConfig
    /\ conn = NoConn

-----------------------------------------------------------------------------
(* The directory *)

Notify(f) == /\ events' = IF watching THEN events \cup {f} ELSE events
             /\ missed' = (missed \/ ~watching)

\* The files of a rotation are written one after the other, in any order: each
\* is truncated first, which is a write of its own ...
TruncateFile(f) ==
    /\ writer = "files" /\ pc # "fatal"
    /\ torn = {} /\ file[f] < MaxRotations
    /\ \A g \in Files : file[f] <= file[g]
    /\ torn' = {f}
    /\ Notify(f)
    /\ UNCHANGED <<writer, file, watcher, pc, read, tlsConfig, conn>>

\* ... and then filled.
WriteFile(f) ==
    /\ f \in torn
    /\ file' = [file EXCEPT ![f] = @ + 1]
    /\ torn' = torn \ {f}
    /\ Notify(f)
    /\ UNCHANGED <<writer, watcher, pc, read, tlsConfig, conn>>

\* A Secret volume: the kubelet moves the link ..data, through which all three
\* files are reached.  The events name ..data and the directory it points to, so
\* watch ignores them.
SwapVolume ==
    /\ writer = "volume" /\ pc # "fatal"
    /\ \A f \in Files : file[f] < MaxRotations
    /\ file' = [f \in Files |-> file[f] + 1]
    /\ missed' = TRUE
    /\ UNCHANGED <<writer, torn, events, watcher, pc, read, tlsConfig, conn>>

-----------------------------------------------------------------------------
(* reload, called by NewCertWatcher and then by watch *)

\* An error of the first reload ends the process, a later one is logged.
ReloadFails == pc' = IF watching THEN "select" ELSE "fatal"

\* One read of the three: the file's content if it parses and fits, else the
\* reload is over.
Read(f, fits, next) ==
    /\ IF f \notin torn /\ fits
         THEN pc' = next /\ read' = [read EXCEPT ![f] = file[f]]
         ELSE ReloadFails /\ read' = NothingRead
    /\ UNCHANGED <<disk, watcher, tlsConfig, conn>>

ReadCert == pc = "cert" /\ Read("tls.crt", TRUE, "key")
ReadKey == pc = "key" /\ Read("tls.key", file["tls.key"] = read["tls.crt"], "ca")
ReadCA == pc = "ca" /\ Read("ca.crt", TRUE, "swap")

\* Mutant: the configuration is edited in place and keeps its first CA.
SwapPairOnly ==
    /\ pc = "swap"
    /\ tlsConfig' = [pair |-> read["tls.crt"],
                     ca |-> IF watching THEN tlsConfig.ca ELSE read["ca.crt"]]
    /\ read' = NothingRead
    /\ pc' = IF watching THEN "select" ELSE "add"
    /\ UNCHANGED <<disk, watcher, conn>>

Swap ==
    /\ pc = "swap"
    /\ tlsConfig' = [pair |-> read["tls.crt"], ca |-> read["ca.crt"]]
    /\ read' = NothingRead
    /\ pc' = IF watching THEN "select" ELSE "add"
    /\ UNCHANGED <<disk, watcher, conn>>

\* NewCertWatcher watches the directory only now, after its reload.
AddWatch ==
    /\ pc = "add"
    /\ \/ watching' = TRUE /\ pc' = "select"
       \/ pc' = "fatal" /\ UNCHANGED watching
    /\ UNCHANGED <<disk, timer, reloadChan, read, tlsConfig, conn>>

-----------------------------------------------------------------------------
(* watch *)

\* Mutant: the filter forgets one of the three names.
HandledNoCA(f) == f # "ca.crt"

\* Writes and creations of the three files.
Handled(f) == f \in Files

\* The events case stops a timer that runs and starts another.
TakeEvent(f) ==
    /\ pc = "select" /\ f \in events
    /\ events' = events \ {f}
    /\ timer' = (timer \/ Handled(f))
    /\ UNCHANGED <<writer, file, torn, missed, watching, reloadChan, pc, read, tlsConfig, conn>>

\* The timer's function: a signal that is already there is enough.
TimerFires ==
    /\ timer
    /\ timer' = FALSE
    /\ reloadChan' = TRUE
    /\ UNCHANGED <<disk, watching, pc, read, tlsConfig, conn>>

StartReload ==
    /\ pc = "select" /\ reloadChan
    /\ reloadChan' = FALSE
    /\ pc' = "cert"
    /\ UNCHANGED <<disk, watching, timer, read, tlsConfig, conn>>

-----------------------------------------------------------------------------
(* handleOutboundConnection: GetConfig clones the configuration, and the    *)
(* handshake asks GetCAPool, which may be another one by then.              *)

Dial ==
    /\ watching /\ conn.pc = "idle"
    /\ conn' = [pc |-> "dialling", config |-> tlsConfig, ca |-> NoRotation]
    /\ UNCHANGED <<disk, watcher, pc, read, tlsConfig>>

\* Mutant: the pool is the one loaded at the start.
VerifyFirstCA ==
    /\ conn.pc = "dialling"
    /\ conn' = [conn EXCEPT !.pc = "verified", !.ca = 0]
    /\ UNCHANGED <<disk, watcher, pc, read, tlsConfig>>

VerifyPeer ==
    /\ conn.pc = "dialling"
    /\ conn' = [conn EXCEPT !.pc = "verified", !.ca = tlsConfig.ca]
    /\ UNCHANGED <<disk, watcher, pc, read, tlsConfig>>

Hangup ==
    /\ conn.pc = "verified"
    /\ conn' = NoConn
    /\ UNCHANGED <<disk, watcher, pc, read, tlsConfig>>

-----------------------------------------------------------------------------
Reload == ReadCert \/ ReadKey \/ ReadCA \/ Swap \/ AddWatch
Watch == (\E f \in Files : TakeEvent(f)) \/ StartReload

Next == \/ (\E f \in Files : TruncateFile(f) \/ WriteFile(f)) \/ SwapVolume
        \/ Reload \/ Watch \/ TimerFires
        \/ Dial \/ VerifyPeer \/ Hangup

Spec == Init /\ [][Next]_vars

\* The goroutine runs and takes what is ready, the timer fires.  Nothing is
\* assumed about who rotates and who connects; a timer that is restarted by
\* every event fires because rotations are finitely many.
Fairness == WF_vars(Reload) /\ WF_vars(Watch) /\ WF_vars(TimerFires)
FairSpec == Spec /\ Fairness

-----------------------------------------------------------------------------
(* Safety *)

Quiet == pc = "select" /\ events = {} /\ ~timer /\ ~reloadChan
OnDisk == [pair |-> file["tls.crt"], ca |-> file["ca.crt"]]
Complete == torn = {} /\ file["tls.crt"] = file["tls.key"]

\* Debouncing, the signal of capacity one and reloads refused in the middle of a
\* rotation lose nothing: a watcher at rest uses what is on disk, unless a file
\* changed unseen, before Add or behind the kubelet's link.
NoLostRotation == Quiet /\ Complete /\ ~missed => tlsConfig = OnDisk

\* A connection verifies its peer with a CA that is no older than the one it was
\* configured with, although it asks twice.
NeverOlder == conn.pc = "verified" => conn.ca >= conn.config.ca

\* Rotations take effect in their order, whatever reloads are refused: neither
\* part of the configuration goes back to an earlier one.
ConfigAdvances ==
    [][tlsConfig'.pair >= tlsConfig.pair /\ tlsConfig'.ca >= tlsConfig.ca]_vars

\* What makes NoLostRotation inductive: an event, a running timer or a signal is
\* outstanding for every change that reload has not read; without one, what
\* reload has read so far is still what is on disk, and a refused reload is
\* refused because the rotation is not complete.
Pending == events # {} \/ timer \/ reloadChan
ReadsAreFresh ==
    ~missed /\ ~Pending =>
        /\ pc \in {"key", "ca", "swap"} => read["tls.crt"] = file["tls.crt"]
        /\ pc = "swap" => read["ca.crt"] = file["ca.crt"]
        /\ pc \in {"add", "select"} /\ Complete => tlsConfig = OnDisk

\* What NeverOlder and ConfigAdvances rest on: contents go from the disk to reload, to the
\* configuration and to connections, and none of them is ahead of the one before.
InOrder ==
    /\ tlsConfig.pair <= file["tls.crt"] /\ tlsConfig.ca <= file["ca.crt"]
    /\ pc \in {"key", "ca", "swap"} =>
          tlsConfig.pair <= read["tls.crt"] /\ read["tls.crt"] <= file["tls.crt"]
    /\ pc = "swap" => tlsConfig.ca <= read["ca.crt"] /\ read["ca.crt"] <= file["ca.crt"]
    /\ conn.pc # "idle" => conn.config.ca <= tlsConfig.ca

\* What makes TypeOK inductive: a write that is begun was within the bound.
WithinBound == /\ \A f \in torn : file[f] < MaxRotations
               /\ writer = "volume" => torn = {}

IInv == TypeOK /\ WithinBound /\ ReadsAreFresh /\ InOrder /\ NeverOlder

-----------------------------------------------------------------------------
(* Liveness *)

\* A rotation that the watcher is told of is in effect in the end, certificate and
\* CA together, whatever reloads the debounced events have started half-way.
Follows == <>[](~missed /\ pc # "fatal") => <>[](Complete => tlsConfig = OnDisk)

\* listener.go:297 "mTLS enabled with automatic cert reload", cert_watcher.go:64
\* "K8s Secret updates trigger multiple events": a rotation after the watch has
\* begun is in effect in the end, that of the Secret volume which the injector
\* mounts too.
SecretUpdatesReload ==
    <>[](pc # "fatal") /\ [](watching \/ \A f \in Files : file[f] = 0)
        => <>[](Complete => tlsConfig = OnDisk)
=============================================================================
