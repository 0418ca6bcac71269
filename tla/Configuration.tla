--------------------------- MODULE Configuration ---------------------------
(***************************************************************************)
(* The configuration: config.AppConfig, the file it is loaded from and     *)
(* saved to, and the copy the runtime service works with                   *)
(* (src/config/config_app.go, SaveConfig and domReady of                   *)
(* src/wails-app.go, Restart of the runtime service).                      *)
(*                                                                         *)
(* Two goroutines write it without a lock: the user interface, which       *)
(* builds a new configuration and replaces AppConfig, and the read loop of *)
(* the server link, which stores an assigned address in place and saves    *)
(* it.  A password is encoded in the object while it is saved, and the     *)
(* file is emptied before it is written.                                   *)
(*                                                                         *)
(* net stands for the server, the group, the hardware address and whether  *)
(* the server assigns the IP address, addr for that address, pwd for the   *)
(* encryption and the passwords it uses, name for what is saved without a  *)
(* restart, enc for how often the password is base64-encoded.              *)
(***************************************************************************)
EXTENDS Naturals

CONSTANTS
    Nets, Pwds, Names,
    NetAddrs,     \* IP addresses
    AutoNets,     \* the nets with IpMode AutoAssign
    Default,      \* the value of each field in the default configuration
    MaxSaves,     \* bound: configurations saved and addresses assigned
    MaxCrashes    \* bound: times the program ends

ASSUME ConfAssumption == Default \in AutoNets \cap Pwds \cap Names \cap NetAddrs /\ AutoNets \subseteq Nets

VARIABLES
    app,          \* whether the program runs
    mem,          \* config.AppConfig
    file,         \* config_app.json
    run,          \* RuntimeService.appConfig
    running,      \* whether the services were (re)started with it
    ui, ack,      \* the two goroutines, with what each holds
    defaulted,    \* this start has saved the defaults, and nothing was saved since
    clash,        \* a save of each has overlapped with one of the other
    saves, crashes

confVars == <<app, mem, file, run, running, ui, ack, defaulted, clash, saves, crashes>>

Configs == [net : Nets, addr : NetAddrs, pwd : Pwds, name : Names, enc : Nat]
DefaultConfig == [net |-> Default, addr |-> Default, pwd |-> Default, name |-> Default, enc |-> 0]

\* The file may be missing, not be parsed, or lack a section.
FileOf(c) == [is |-> "ok", conf |-> c]
NoFile(why) == [is |-> why, conf |-> DefaultConfig]

Encoded(c) == [c EXCEPT !.enc = @ + 1]

\* A password that is not encoded is kept as it is.
Decoded(c) == [c EXCEPT !.enc = IF @ > 0 THEN @ - 1 ELSE 0]

\* Where a goroutine is in a save, what it will write, and the password it will
\* put back.
NotSaving == [at |-> "idle", conf |-> DefaultConfig, pwd |-> Default, enc |-> 0]

ConfInit ==
    /\ app = "down" /\ mem = DefaultConfig /\ run = DefaultConfig /\ running = FALSE
    /\ file \in {NoFile("missing"), NoFile("broken"), FileOf(Encoded(DefaultConfig)),
                [is |-> "partial", conf |-> Encoded(DefaultConfig)]}
    /\ ui = NotSaving /\ ack = NotSaving
    /\ defaulted = FALSE /\ clash = FALSE /\ saves = 0 /\ crashes = 0

-----------------------------------------------------------------------------
(***************************************************************************)
(* domReady.                                                               *)
(***************************************************************************)
Boots(c) ==
    /\ app = "down" /\ app' = "up"
    /\ mem' = c /\ run' = c /\ running' = TRUE
    /\ ui' = NotSaving /\ ack' = NotSaving
    /\ UNCHANGED <<clash, saves, crashes>>

\* A section that is missing gets its defaults, and the file is saved.
Load ==
    /\ file.is \in {"ok", "partial"} /\ Boots(Decoded(file.conf))
    /\ file' = IF file.is = "ok" THEN file ELSE FileOf(Encoded(Decoded(file.conf)))
    /\ defaulted' = FALSE

\* The default branch encodes the passwords itself before SaveAppConfig does.
LoadDefaults ==
    /\ file.is = "broken" /\ Boots(DefaultConfig)
    /\ file' = FileOf(Encoded(Encoded(DefaultConfig)))
    /\ defaulted' = TRUE

\* InitAppConfig returns without a configuration, and domReady reads it.
LoadNothing ==
    /\ app = "down" /\ file.is = "missing"
    /\ app' = "crashed"
    /\ UNCHANGED <<mem, file, run, running, ui, ack, defaulted, clash, saves, crashes>>

-----------------------------------------------------------------------------
(***************************************************************************)
(* SaveConfig of the user interface: the form is filled from GetConfig,    *)
(* the new configuration is written to the file and then replaces          *)
(* AppConfig.                                                              *)
(***************************************************************************)
UiAt(at, c) == ui' = [NotSaving EXCEPT !.at = at, !.conf = c]

\* The user reads the form.
GetConfig ==
    /\ app = "up" /\ ui.at = "idle" /\ saves < MaxSaves
    /\ saves' = saves + 1
    /\ UiAt("form", mem)
    /\ clash' = (clash \/ ack.at # "idle")
    /\ UNCHANGED <<app, mem, file, run, running, ack, defaulted, crashes>>

\* The user changes it, and config.SaveConfig writes it.
SubmitForm(n, a, p, m) ==
    /\ app = "up" /\ ui.at = "form"
    /\ UiAt("write", [net |-> n, addr |-> a, name |-> m, pwd |-> p,
                      enc |-> IF p = ui.conf.pwd THEN ui.conf.enc ELSE 0])
    /\ clash' = (clash \/ ack.at # "idle")
    /\ UNCHANGED <<app, mem, file, run, running, ack, defaulted, saves, crashes>>

\* A name or an address in it is refused.
RefuseForm ==
    /\ app = "up" /\ ui.at = "form"
    /\ ui' = NotSaving
    /\ UNCHANGED <<app, mem, file, run, running, ack, defaulted, clash, saves, crashes>>

WriteForm ==
    /\ app = "up" /\ ui.at = "write"
    /\ file' = FileOf(Encoded(ui.conf)) /\ defaulted' = FALSE
    /\ UiAt("swap", ui.conf)
    /\ UNCHANGED <<app, mem, run, running, ack, clash, saves, crashes>>

\* A plausible slip: a new password alone is no reason to restart.
NeedRestartNet(old, new) ==
    old.net # new.net \/ (old.addr # new.addr /\ new.net \notin AutoNets)

\* An address that the server assigns is none either.
NeedRestart(old, new) ==
    \/ old.net # new.net \/ old.pwd # new.pwd \/ old.enc # new.enc
    \/ old.addr # new.addr /\ new.net \notin AutoNets

SwapConfig ==
    /\ app = "up" /\ ui.at = "swap"
    /\ mem' = ui.conf
    /\ running' = (running /\ ~NeedRestart(mem, ui.conf))
    /\ UiAt(IF NeedRestart(mem, ui.conf) THEN "restart" ELSE "idle", ui.conf)
    /\ UNCHANGED <<app, file, run, ack, defaulted, clash, saves, crashes>>

\* Restart copies AppConfig, or fails before it does and leaves everything
\* stopped.
RestartServices ==
    /\ app = "up" /\ ui.at = "restart"
    /\ \/ run' = mem /\ running' = TRUE
       \/ UNCHANGED <<run, running>>
    /\ ui' = NotSaving
    /\ UNCHANGED <<app, mem, file, ack, defaulted, clash, saves, crashes>>

-----------------------------------------------------------------------------
(***************************************************************************)
(* ProcessAuthResponse with an assigned address, and SaveAppConfig.        *)
(***************************************************************************)
AckAt(at) == ack' = [ack EXCEPT !.at = at]

\* Both copies are changed.  An assigned hardware address takes the same way and
\* is not told apart.
AssignAddress(a) ==
    /\ app = "up" /\ ack.at = "idle" /\ saves < MaxSaves
    /\ saves' = saves + 1
    /\ run' = [run EXCEPT !.addr = a] /\ mem' = [mem EXCEPT !.addr = a]
    /\ AckAt("encode")
    /\ clash' = (clash \/ ui.at \notin {"idle", "form"})
    /\ UNCHANGED <<app, file, running, ui, defaulted, crashes>>

EncodeInPlace ==
    /\ app = "up" /\ ack.at = "encode"
    /\ ack' = [ack EXCEPT !.at = "marshal", !.pwd = mem.pwd, !.enc = mem.enc]
    /\ mem' = Encoded(mem)
    /\ UNCHANGED <<app, file, run, running, ui, defaulted, clash, saves, crashes>>

\* A plausible slip: the encoded password stays.
MarshalOnly ==
    /\ app = "up" /\ ack.at = "marshal"
    /\ ack' = [ack EXCEPT !.at = "write", !.conf = mem]
    /\ UNCHANGED <<app, mem, file, run, running, ui, defaulted, clash, saves, crashes>>

\* The content is made, and the password is put back, into whichever object is
\* AppConfig by now.
MarshalAndRestore ==
    /\ app = "up" /\ ack.at = "marshal"
    /\ ack' = [ack EXCEPT !.at = "write", !.conf = mem]
    /\ mem' = [mem EXCEPT !.pwd = ack.pwd, !.enc = ack.enc]
    /\ UNCHANGED <<app, file, run, running, ui, defaulted, clash, saves, crashes>>

WriteAssigned ==
    /\ app = "up" /\ ack.at = "write"
    /\ file' = FileOf(ack.conf) /\ defaulted' = FALSE
    /\ ack' = NotSaving
    /\ UNCHANGED <<app, mem, run, running, ui, clash, saves, crashes>>

\* The program ends; a file that was being written may be cut off.
Crash ==
    /\ app = "up" /\ crashes < MaxCrashes
    /\ crashes' = crashes + 1
    /\ app' = "down" /\ mem' = DefaultConfig /\ run' = DefaultConfig /\ running' = FALSE
    /\ ui' = NotSaving /\ ack' = NotSaving
    /\ \/ UNCHANGED file
       \/ "write" \in {ui.at, ack.at} /\ file' = NoFile("broken")
    /\ UNCHANGED <<defaulted, clash, saves>>

ConfNext ==
    \/ Load \/ LoadDefaults \/ LoadNothing
    \/ GetConfig \/ WriteForm \/ SwapConfig \/ RestartServices
    \/ \E n \in Nets, a \in NetAddrs, p \in Pwds, m \in Names : SubmitForm(n, a, p, m)
    \/ RefuseForm
    \/ \E a \in NetAddrs : AssignAddress(a)
    \/ EncodeInPlace \/ MarshalAndRestore \/ WriteAssigned \/ Crash

ConfSpec == ConfInit /\ [][ConfNext]_confVars

-----------------------------------------------------------------------------
(***************************************************************************)
(* Properties.                                                             *)
(***************************************************************************)
Quiet == app = "up" /\ ui.at = "idle" /\ ack.at = "idle" /\ ~clash

\* The type invariant: the copies of the configuration keep their types, and the
\* file holds no plain password unless two saves have overlapped.
ConfTypeOK ==
    /\ app \in {"down", "up", "crashed"}
    /\ mem \in Configs /\ run \in Configs
    /\ file \in [is : {"ok", "partial", "missing", "broken"}, conf : Configs]
    /\ file.is = "ok" /\ ~clash => file.conf.enc > 0
    /\ running \in BOOLEAN /\ defaulted \in BOOLEAN /\ clash \in BOOLEAN
    /\ ui \in [at : {"idle", "form", "write", "swap", "restart"}, conf : Configs,
               pwd : Pwds, enc : Nat]
    /\ ack \in [at : {"idle", "encode", "marshal", "write"}, conf : Configs,
                pwd : Pwds, enc : Nat]

\* AppConfig without the encoding that is in progress.
Plain == IF ack.at = "marshal" THEN [mem EXCEPT !.pwd = ack.pwd, !.enc = ack.enc] ELSE mem

\* What the user has saved last, but for an address that is being saved.
Current(c) ==
    IF ui.at = "swap" THEN c = ui.conf
    ELSE IF ack.at = "idle" THEN c = mem
    ELSE c = [Plain EXCEPT !.addr = c.addr]

\* As long as the two do not save at the same time: wherever the program ends,
\* other than inside WriteFile, the next start loads what was saved last, or what
\* the save in progress was about to replace.  A write that was cut off costs the
\* configuration: the program starts with its defaults, and until something
\* is saved the next start would find their passwords encoded once too often.
ConfigDurable ==
    app = "up" /\ ~clash =>
       /\ file.is = "ok"
       /\ LET c == Decoded(file.conf)
          IN IF defaulted THEN c.enc > 0 /\ Current(Decoded(c)) ELSE Current(c)

\* And the runtime service, unless a restart has failed and left it stopped,
\* works with the server, the group, the encryption and the passwords of
\* AppConfig, and with its address if that is a static one: an old assigned
\* address that comes back with the form is saved without a restart.
RuntimeCurrent ==
    Quiet /\ running =>
       /\ run.net = mem.net /\ run.pwd = mem.pwd /\ run.enc = mem.enc
       /\ run.addr = mem.addr \/ mem.net \in AutoNets

-----------------------------------------------------------------------------
(***************************************************************************)
(* The inductive invariant: what the two properties say, followed through  *)
(* the steps of a save as long as no two of them have overlapped.          *)
(***************************************************************************)

\* The user interface is past the form only while the read loop saves nothing.
SavesApart == ui.at \in {"write", "swap", "restart"} => ack.at = "idle"

\* The password is encoded in place between two steps of SaveAppConfig, and what
\* is to be written then is AppConfig with its password encoded once more.
InPlaceEncoding ==
    /\ ack.at = "marshal" => mem.pwd = ack.pwd /\ mem.enc = ack.enc + 1
    /\ ack.at = "write" => ack.conf = Encoded(mem)

\* The file holds what the next start should load; a form that was just written
\* has ended the time of the defaults.
FileFollows == ConfigDurable /\ (ui.at = "swap" => ~defaulted)

\* Services that run were started with AppConfig as it is but for an encoding in
\* progress and an address that the server assigns.
RuntimeFollows ==
    running => /\ run.net = mem.net
               /\ run.addr = mem.addr \/ mem.net \in AutoNets
               /\ IF ack.at = "marshal" THEN run.pwd = ack.pwd /\ run.enc = ack.enc
                  ELSE run.pwd = mem.pwd /\ run.enc = mem.enc

ConfInv ==
    /\ ConfTypeOK
    /\ app = "up" /\ ~clash => SavesApart /\ InPlaceEncoding /\ FileFollows /\ RuntimeFollows

=============================================================================
