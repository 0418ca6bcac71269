---------------------------- MODULE NetworkCard ----------------------------
(***************************************************************************)
(* The virtual network card: TunTapService with the goroutines that start  *)
(* and stop it (src/service/tuntap_service.go).                            *)
(*                                                                         *)
(* state and tapper are plain fields.  They are written by the user        *)
(* interface (domReady, Restart), by the read loop of the server link (an  *)
(* AuthAck starts the card unless it runs) and by readTap, which restarts  *)
(* the card when a read fails and closes whatever tapper holds when it     *)
(* ends.  A step ends where a goroutine may be held up: opening,           *)
(* configuring and closing a device run other programs, and a read blocks. *)
(*                                                                         *)
(* A slot of Devices is an opened device, and is used again once it is     *)
(* closed and no goroutine holds it.                                       *)
(***************************************************************************)
CONSTANTS
    Devices,      \* bound: devices held at the same time
    Readers,      \* bound: readTap goroutines at the same time
    NoDevice

ASSUME CardAssumption == NoDevice \notin Devices

VARIABLES
    platform,     \* which tuntap.TapDevice is built
    cardState,    \* TunTapService.state
    tapper,       \* TunTapService.tapper
    open,         \* the devices that are open
    readers,      \* where each readTap is, and the device it reads
    starts        \* where the user interface and the AuthAck handler are

cardVars == <<platform, cardState, tapper, open, readers, starts>>

CardStates == {"UnInit", "InitFailed", "InitOk", "Running", "Stop"}

Starters == {"ui", "ack"}

\* Before the test of the state, before the device is created, before it is
\* configured; Stop before and after it has set the state.
StartSteps == {"idle", "stop", "close", "test", "create", "setup"}

\* readTap before its first statement, before the test of the loop, in Read,
\* back with an error, after the sleep, in Stop, in createTap, in Up, in the
\* deferred function.
ReadSteps == {"none", "begin", "loop", "read", "failed", "slept", "closing",
              "recreate", "raise", "exit"}

Slot(at) == [at |-> at, dev |-> NoDevice]

CardInit ==
    /\ platform \in {"linux", "windows"}
    /\ cardState = "UnInit" /\ tapper = NoDevice /\ open = {}
    /\ readers = [r \in Readers |-> Slot("none")]
    /\ starts = [g \in Starters |-> "idle"]

-----------------------------------------------------------------------------
(***************************************************************************)
(* Devices.  On Windows a device is opened exclusively and Close always    *)
(* succeeds; on Linux a second queue of the interface is opened, and       *)
(* closing a descriptor twice is an error.                                 *)
(***************************************************************************)
Unused(d) == d \notin open /\ d # tapper /\ \A r \in Readers : readers[r].dev # d

\* createTap.
CreateTap ==
    /\ platform = "windows" => open = {}
    /\ \E d \in Devices : /\ Unused(d)
                          /\ tapper' = d /\ open' = open \cup {d}
    /\ cardState' = "InitOk"
    /\ UNCHANGED platform

\* Without a usable configuration tapper keeps what it has; when the device
\* cannot be created it becomes nil.
CreateTapFails ==
    /\ \/ cardState' = "UnInit" /\ UNCHANGED tapper
       \/ cardState' = "InitFailed" /\ tapper' = NoDevice
    /\ UNCHANGED <<platform, open>>

\* Close of a device that is already closed.
CloseFails == platform = "linux" /\ tapper \notin open

\* The second half of Stop: tapper is only forgotten when Close succeeds.
CloseTapper ==
    /\ open' = open \ {tapper}
    /\ tapper' = IF tapper # NoDevice /\ CloseFails THEN tapper ELSE NoDevice
    /\ UNCHANGED <<platform, cardState>>

-----------------------------------------------------------------------------
(***************************************************************************)
(* Start and Stop.                                                         *)
(***************************************************************************)
StartAt(g, step) == starts' = [starts EXCEPT ![g] = step]

\* domReady, or Restart once the other services are stopped.
CardCalled ==
    /\ starts["ui"] = "idle"
    /\ \/ StartAt("ui", "test")
       \/ StartAt("ui", "stop")
    /\ UNCHANGED <<platform, cardState, tapper, open, readers>>

\* ProcessAuthResponse asks for the state first.
CardAcked ==
    /\ starts["ack"] = "idle" /\ cardState # "Running"
    /\ StartAt("ack", "test")
    /\ UNCHANGED <<platform, cardState, tapper, open, readers>>

CardStopping ==
    /\ starts["ui"] = "stop"
    /\ cardState' = "Stop"
    /\ StartAt("ui", "close")
    /\ UNCHANGED <<platform, tapper, open, readers>>

\* Restart gives up when Stop fails, and leaves the services stopped.
CardStopped ==
    /\ starts["ui"] = "close"
    /\ CloseTapper
    /\ StartAt("ui", IF tapper' = NoDevice THEN "test" ELSE "idle")
    /\ UNCHANGED readers

CardTest(g) ==
    /\ starts[g] = "test"
    /\ StartAt(g, IF cardState = "Running" THEN "idle" ELSE "create")
    /\ UNCHANGED <<platform, cardState, tapper, open, readers>>

CardCreate(g) ==
    /\ starts[g] = "create"
    /\ \/ CreateTap /\ StartAt(g, "setup")
       \/ CreateTapFails /\ StartAt(g, "idle")
    /\ UNCHANGED readers

\* The address, mask and size are set; then readTap starts.  A device that was
\* forgotten meanwhile is a panic, which Start recovers and reports as success.
CardSetup(g) ==
    /\ starts[g] = "setup"
    /\ StartAt(g, "idle")
    /\ tapper # NoDevice
    /\ \E r \in Readers : /\ readers[r].at = "none"
                          /\ readers' = [readers EXCEPT ![r] = Slot("begin")]
    /\ UNCHANGED <<platform, cardState, tapper, open>>

\* Start returns early and leaves the device as it is; SetMac of Windows may
\* have closed it.
CardSetupFails(g) ==
    /\ starts[g] = "setup"
    /\ StartAt(g, "idle")
    /\ \/ open' = open
       \/ platform = "windows" /\ open' = open \ {tapper}
    /\ UNCHANGED <<platform, cardState, tapper, readers>>

-----------------------------------------------------------------------------
(***************************************************************************)
(* readTap.                                                                *)
(***************************************************************************)
ReadAt(r, at) == readers' = [readers EXCEPT ![r] = Slot(at)]

TapBegin(r) ==
    /\ readers[r].at = "begin"
    /\ cardState' = "Running"
    /\ ReadAt(r, "loop")
    /\ UNCHANGED <<platform, tapper, open, starts>>

\* A nil tapper is a panic; a closed one fails at once.
TapLoop(r) ==
    /\ readers[r].at = "loop"
    /\ readers' = [readers EXCEPT ![r] =
         IF cardState # "Running" \/ tapper = NoDevice THEN Slot("exit")
         ELSE [at |-> IF tapper \in open THEN "read" ELSE "failed", dev |-> tapper]]
    /\ UNCHANGED <<platform, cardState, tapper, open, starts>>

\* A frame of the local host; tapData2Net hands it to the runtime service.
TapFrame(r) ==
    /\ readers[r].at = "read" /\ readers[r].dev \in open
    /\ ReadAt(r, "loop")
    /\ UNCHANGED <<platform, cardState, tapper, open, starts>>

\* The interface goes down, or the device is closed under the reader.  Close on
\* Linux does not wake a reader that is parked in the poller.
TapFails(r) ==
    /\ readers[r].at = "read"
    /\ readers[r].dev \notin open => platform = "windows"
    /\ ReadAt(r, "failed")
    /\ UNCHANGED <<platform, cardState, tapper, open, starts>>

\* A plausible slip: a failed read is tried again.
TapFailedRetries(r) ==
    /\ readers[r].at = "failed"
    /\ ReadAt(r, IF cardState = "Running" THEN "loop" ELSE "exit")
    /\ UNCHANGED <<platform, cardState, tapper, open, starts>>

TapFailed(r) ==
    /\ readers[r].at = "failed"
    /\ ReadAt(r, IF cardState = "Running" THEN "slept" ELSE "exit")
    /\ UNCHANGED <<platform, cardState, tapper, open, starts>>

TapStop(r) ==
    /\ readers[r].at = "slept"
    /\ cardState' = "Stop"
    /\ ReadAt(r, "closing")
    /\ UNCHANGED <<platform, tapper, open, starts>>

TapClose(r) ==
    /\ readers[r].at = "closing"
    /\ CloseTapper
    /\ ReadAt(r, "recreate")
    /\ UNCHANGED starts

TapCreate(r) ==
    /\ readers[r].at = "recreate"
    /\ \/ CreateTap /\ ReadAt(r, "raise")
       \/ CreateTapFails /\ ReadAt(r, "exit")
    /\ UNCHANGED starts

TapRaise(r) ==
    /\ readers[r].at = "raise"
    /\ IF tapper = NoDevice
       THEN ReadAt(r, "exit") /\ UNCHANGED cardState
       ELSE ReadAt(r, "loop") /\ cardState' = "Running"
    /\ UNCHANGED <<platform, tapper, open, starts>>

\* A plausible slip: the deferred function only closes the device.
TapExitQuietly(r) ==
    /\ readers[r].at = "exit"
    /\ open' = open \ {tapper}
    /\ ReadAt(r, "none")
    /\ UNCHANGED <<platform, cardState, tapper, starts>>

\* The deferred function closes the device of the moment, whoever created it.
TapExit(r) ==
    /\ readers[r].at = "exit"
    /\ open' = open \ {tapper}
    /\ cardState' = "Stop"
    /\ ReadAt(r, "none")
    /\ UNCHANGED <<platform, tapper, starts>>

TapStep(r) ==
    \/ TapBegin(r) \/ TapLoop(r) \/ TapFailed(r) \/ TapStop(r) \/ TapClose(r)
    \/ TapCreate(r) \/ TapRaise(r) \/ TapExit(r)

CardStep(g) == CardTest(g) \/ CardCreate(g) \/ CardSetup(g) \/ CardSetupFails(g)

CardNext ==
    \/ CardCalled \/ CardAcked \/ CardStopping \/ CardStopped
    \/ \E g \in Starters : CardStep(g)
    \/ \E r \in Readers : TapStep(r) \/ TapFrame(r) \/ TapFails(r)

CardSpec == CardInit /\ [][CardNext]_cardVars

-----------------------------------------------------------------------------
(***************************************************************************)
(* Properties.                                                             *)
(***************************************************************************)

\* The type invariant: the fields, the open devices and the goroutines of the
\* card keep their types, and a nil tapper is never read.
CardTypeOK ==
    /\ platform \in {"linux", "windows"}
    /\ cardState \in CardStates
    /\ tapper \in Devices \cup {NoDevice}
    /\ open \subseteq Devices
    /\ readers \in [Readers -> [at : ReadSteps, dev : Devices \cup {NoDevice}]]
    /\ \A r \in Readers : readers[r].at = "read" => readers[r].dev \in Devices
    /\ starts \in [Starters -> StartSteps]

\* A card that says it is running has a goroutine of readTap that has set this
\* state and will take it back when it ends, whatever Start, Stop and the
\* deferred function of other readers do to each other.
CardServed ==
    cardState = "Running" => \E r \in Readers : readers[r].at \notin {"none", "begin"}

Serving == \E r \in Readers : readers[r].at = "read" /\ readers[r].dev \in open

\* Close on Linux has left a reader in a read that never returns.
Parked == \E r \in Readers : /\ platform = "linux"
                             /\ readers[r].at = "read" /\ readers[r].dev \notin open

\* A read of a closed device that does return.
TapWoken(r) == readers[r].dev \notin open /\ TapFails(r)

\* The goroutines: the user interface once it has called, the read loop of the
\* server link, and the readers.
UiRuns == CardStep("ui") \/ CardStopping \/ CardStopped
AckRuns == CardStep("ack") \/ CardAcked
ReaderRuns(r) == TapStep(r) \/ TapWoken(r)

\* The state Running keeps every acknowledgement of the server from starting
\* the card, so it must not outlive the service: again and again a goroutine
\* reads an open device or the state says that none does, unless a reader was
\* parked for good.
CardHonest == []<>(Serving \/ cardState # "Running" \/ Parked)

=============================================================================
