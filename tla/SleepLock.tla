----------------------------- MODULE SleepLock -----------------------------
(***************************************************************************)
(* shell/scripts/sleep_lock_inhibitor.py with the locker it starts         *)
(* (systemd/nbshell-lock.service, shell/lock/shell.qml) and the command    *)
(* that locks and suspends (shell/scripts/lockscreen.py).  The daemon      *)
(* holds a delay inhibitor of logind; when a sleep is announced it makes   *)
(* sure that the session is locked and lets the machine go.  The locker    *)
(* shows by a file, the marker, that the compositor has locked the         *)
(* session; systemd removes the marker before the locker starts and after  *)
(* it stopped.  Whoever looks reads the state of the unit and the marker   *)
(* one after the other.                                                    *)
(*                                                                         *)
(* logind and the compositor are modelled as these programs use them: a    *)
(* sleep waits for the inhibitor, but no longer than its own limit; no     *)
(* inhibitor is given while a sleep is on its way; a session stays locked  *)
(* when its locker dies.  Left out: lockers of others, which are never     *)
(* taken for secure, the screens that are woken and the windows that are   *)
(* moved after a resume.                                                   *)
(***************************************************************************)
EXTENDS Naturals, Sequences

CONSTANT MaxSignals   \* announcements that the daemon has not handled

VARIABLES slSystem,      \* the machine: "awake", "preparing" or "asleep"
          slSignals,     \* PrepareForSleep as the daemon will receive it: "sleep" for true, "resume" for false
          slDaemon, slInhibitor, slSecured,   \* where the daemon is, its inhibitor, and what the lock call found
          slUnit, slClient, slMarker,         \* the unit of the locker, the program in it, and the marker
          slLocked,      \* the compositor keeps the session locked
          slCmd, slFor,  \* where the command is, and what it is for
          slSeen, slCmdSeen,   \* history: the session was locked, or its locker on the way out, since the daemon and the command began to look
          slGuard        \* history: the daemon was there when the sleep was announced, and since, and the sleep waited for it
sleepVars == <<slSystem, slSignals, slDaemon, slInhibitor, slSecured, slUnit, slClient, slMarker, slLocked, slCmd, slFor,
               slSeen, slCmdSeen, slGuard>>
slDaemonVars == <<slDaemon, slInhibitor, slSecured, slSeen>>
slLocker == <<slUnit, slClient, slMarker, slLocked>>
slCommand == <<slCmd, slFor, slCmdSeen>>

\* systemctl is-active
LockerActive == slUnit \in {"active", "quitting"}
\* The locked session, or one whose locker has just let the user in.
Shut == slLocked \/ slUnit = "quitting"

SleepInit ==
    /\ slSystem = "awake" /\ slSignals = <<>> /\ slDaemon = "off" /\ slInhibitor = FALSE /\ slSecured = FALSE
    /\ slUnit = "inactive" /\ slClient = "none" /\ slMarker = FALSE /\ slLocked = FALSE
    /\ slCmd = "off" /\ slFor = "lock" /\ slSeen = FALSE /\ slCmdSeen = FALSE /\ slGuard = FALSE

------------------------------------
(* logind *)
Listening == slDaemon \notin {"off", "enter", "deaf"}
Signalled(value) == slSignals' = IF Listening THEN Append(slSignals, value) ELSE slSignals
Announced == /\ slSystem = "awake" /\ Len(slSignals) < MaxSignals
             /\ slSystem' = "preparing" /\ Signalled("sleep")
             /\ slGuard' = (slDaemon = "idle" /\ slInhibitor /\ slSignals = <<>>)
SleepRequested == Announced /\ UNCHANGED <<slDaemonVars, slLocker, slCommand>>
\* The limit of logind may pass with the inhibitor held.
FallAsleep == /\ slSystem = "preparing" /\ slSystem' = "asleep"
              /\ slGuard' = (slGuard /\ ~slInhibitor)
              /\ UNCHANGED <<slSignals, slDaemonVars, slLocker, slCommand>>
\* A sleep that fails is announced as over, too.
AwakeAgain == /\ slSystem # "awake" /\ slSystem' = "awake" /\ Signalled("resume")
              /\ UNCHANGED <<slDaemonVars, slLocker, slCommand, slGuard>>

------------------------------------
(* The unit of the locker *)
\* ExecStartPre removes the marker.  To start what is active changes nothing, and a start waits for the end of a stop.
UnitRuns == /\ slUnit \notin {"stopping", "crashed"}
            /\ IF LockerActive THEN UNCHANGED slLocker
               ELSE slUnit' = "active" /\ slClient' = "new" /\ slMarker' = FALSE /\ UNCHANGED slLocked
LockerRestarts == slUnit = "again" /\ UnitRuns /\ UNCHANGED <<slSystem, slSignals, slDaemonVars, slCommand, slGuard>>
\* The compositor grants the lock to the program, which then touches the marker.
GrantLock == /\ slUnit = "active" /\ slClient = "new"
             /\ slClient' = "touching" /\ slLocked' = TRUE /\ slSeen' = TRUE /\ slCmdSeen' = TRUE
             /\ UNCHANGED <<slSystem, slSignals, slDaemon, slInhibitor, slSecured, slUnit, slMarker, slCmd, slFor, slGuard>>
TouchMarker == /\ LockerActive /\ slClient = "touching" /\ slMarker' = TRUE /\ slClient' = "shown"
               /\ UNCHANGED <<slSystem, slSignals, slDaemonVars, slUnit, slLocked, slCommand, slGuard>>
\* unlock: the session is open before the program has ended.
Unlock == /\ slUnit = "active" /\ slClient \in {"touching", "shown"}
          /\ slLocked' = FALSE /\ slUnit' = "quitting"
          /\ UNCHANGED <<slSystem, slSignals, slDaemonVars, slClient, slMarker, slCommand, slGuard>>
LockerEnds == /\ \/ slUnit = "quitting" /\ slUnit' = "stopping"
                 \/ LockerActive /\ slUnit' = "crashed"
              /\ slClient' = "none"
              /\ UNCHANGED <<slSystem, slSignals, slDaemonVars, slMarker, slLocked, slCommand, slGuard>>
\* ExecStopPost removes the marker; after a crash the unit starts again, unless it did so too often.
StopPost == /\ \/ slUnit = "stopping" /\ slUnit' = "inactive"
               \/ slUnit = "crashed" /\ slUnit' \in {"again", "inactive"}
            /\ slMarker' = FALSE
            /\ UNCHANGED <<slSystem, slSignals, slDaemonVars, slClient, slLocked, slCommand, slGuard>>

------------------------------------
(* The daemon: main, and the controller's acquire and release *)
DaemonAt(pc, next) == slDaemon = pc /\ slDaemon' = next
DaemonStarts == DaemonAt("off", "enter") /\ UNCHANGED <<slSystem, slSignals, slInhibitor, slSecured, slSeen, slLocker, slCommand, slGuard>>
\* Inhibit is refused and tried again while a sleep is on its way.  At first nobody listens to signals yet.
AcquireInhibitor == /\ (DaemonAt("enter", "deaf") \/ DaemonAt("acquire", "idle"))
           /\ slSystem # "preparing" /\ slInhibitor' = TRUE
           /\ UNCHANGED <<slSystem, slSignals, slSecured, slSeen, slLocker, slCommand, slGuard>>
Listen == DaemonAt("deaf", "idle") /\ UNCHANGED <<slSystem, slSignals, slInhibitor, slSecured, slSeen, slLocker, slCommand, slGuard>>
HandleSignal == /\ slDaemon = "idle" /\ slSignals # <<>> /\ slSignals' = Tail(slSignals)
                /\ slSecured' = FALSE
                /\ IF Head(slSignals) = "sleep" THEN slDaemon' = "look" /\ slSeen' = Shut /\ UNCHANGED slInhibitor
                   ELSE slDaemon' = "acquire" /\ slInhibitor' = FALSE /\ UNCHANGED slSeen
                /\ UNCHANGED <<slSystem, slLocker, slCommand, slGuard>>
\* An exception in a handler, a refused Inhibit or a kill: systemd starts the daemon again.
DaemonFails == /\ slDaemon # "off" /\ slDaemon' = "off" /\ slInhibitor' = FALSE /\ slSignals' = <<>> /\ slGuard' = FALSE
               /\ UNCHANGED <<slSystem, slSecured, slSeen, slLocker, slCommand>>

------------------------------------
(* The daemon: ensure_secure_lock *)
Goes(pc) == /\ slDaemon' = pc /\ UNCHANGED <<slSystem, slSignals, slInhibitor, slSecured, slSeen, slLocker, slCommand, slGuard>>
Concludes(secured) == /\ slDaemon' = "release" /\ slSecured' = secured
                      /\ UNCHANGED <<slSystem, slSignals, slInhibitor, slSeen, slLocker, slCommand, slGuard>>
LookUnit == slDaemon = "look" /\ Goes(IF LockerActive THEN "lookMarker" ELSE "start")
LookMarker == slDaemon = "lookMarker" /\ IF slMarker THEN Concludes(TRUE) ELSE Goes("poll")
StartLocker == /\ slDaemon = "start"
               /\ \/ /\ UnitRuns /\ slDaemon' = "poll"
                     /\ UNCHANGED <<slSystem, slSignals, slInhibitor, slSecured, slSeen, slCommand, slGuard>>
                  \/ Concludes(FALSE)
PollMarker == slDaemon = "poll" /\ Goes(IF slMarker THEN "confirm" ELSE "alive")
Confirm == slDaemon = "confirm" /\ IF LockerActive THEN Concludes(TRUE) ELSE Goes("alive")
StillAlive == slDaemon = "alive" /\ IF LockerActive THEN Goes("poll") ELSE Concludes(FALSE)
PollOver == slDaemon = "poll" /\ Concludes(FALSE)
ReleaseInhibitor == /\ DaemonAt("release", "idle") /\ slInhibitor' = FALSE
           /\ UNCHANGED <<slSystem, slSignals, slSecured, slSeen, slLocker, slCommand, slGuard>>

------------------------------------
(* start_lock *)
CmdGoes(pc) == slCmd' = pc /\ UNCHANGED <<slSystem, slSignals, slDaemonVars, slLocker, slFor, slCmdSeen, slGuard>>
CmdBegins(for) == /\ slCmd = "off" /\ slCmd' = "look" /\ slFor' = for /\ slCmdSeen' = Shut
                  /\ UNCHANGED <<slSystem, slSignals, slDaemonVars, slLocker, slGuard>>
CmdLook == slCmd = "look" /\ CmdGoes(IF LockerActive THEN "decide" ELSE "unlink")
CmdUnlinks(pc, next) == /\ slCmd = pc /\ slCmd' = next /\ slMarker' = FALSE
                        /\ UNCHANGED <<slSystem, slSignals, slDaemonVars, slUnit, slClient, slLocked, slFor, slCmdSeen, slGuard>>
\* Without a locker that runs, the command turns to the one of another project.
CmdStarts(pc, next) == /\ slCmd = pc
                       /\ \/ /\ UnitRuns /\ slCmd' = next
                             /\ UNCHANGED <<slSystem, slSignals, slDaemonVars, slFor, slCmdSeen, slGuard>>
                          \/ CmdGoes("off")
CmdWaits == slCmd = "wait" /\ (CmdGoes("off") \/ (slMarker /\ CmdGoes("decide")))
CmdDecides == slCmd = "decide" /\ CmdGoes(IF slFor = "suspend" THEN IF LockerActive THEN "marker" ELSE "off"
                                          ELSE IF LockerActive THEN "off" ELSE "unlinkLast")
CmdMarker == slCmd = "marker" /\ CmdGoes(IF slMarker THEN "suspend" ELSE "off")
CmdSuspends == /\ slCmd = "suspend" /\ slCmd' = "off"
               /\ Announced \/ UNCHANGED <<slSystem, slSignals, slGuard>>
               /\ UNCHANGED <<slDaemonVars, slLocker, slFor, slCmdSeen>>

LogindMoves == SleepRequested \/ FallAsleep \/ CmdSuspends
LockerMoves == LockerRestarts \/ GrantLock \/ TouchMarker \/ Unlock \/ LockerEnds \/ StopPost
DaemonMoves == \/ DaemonStarts \/ AcquireInhibitor \/ Listen \/ DaemonFails \/ LookUnit \/ LookMarker \/ StartLocker \/ PollMarker
               \/ Confirm \/ StillAlive \/ PollOver \/ ReleaseInhibitor
CommandMoves == \/ \E for \in {"lock", "suspend"} : CmdBegins(for)
                \/ CmdLook \/ CmdUnlinks("unlink", "start") \/ CmdStarts("start", "wait") \/ CmdWaits \/ CmdDecides \/ CmdMarker
                \/ CmdUnlinks("unlinkLast", "startLast") \/ CmdStarts("startLast", "off")
\* A machine that sleeps does nothing else.
SleepNext == AwakeAgain \/ (slSystem # "asleep" /\ (LogindMoves \/ LockerMoves \/ HandleSignal \/ DaemonMoves \/ CommandMoves))
SleepSpec == SleepInit /\ [][SleepNext]_sleepVars

------------------------------------
\* The marker of a locker that runs and has not let the user in says the truth.
MarkerIsTrue == slMarker /\ slUnit = "active" => slLocked

\* Who reads unit and marker one after the other, while lockers come and go, concludes "secure" only if the session was
\* locked since it began to look.  The exception is the code's: a locker that has let the user in still runs, and its
\* marker is still there.
SecureIsTrue == slDaemon = "release" /\ slSecured => slSeen
SuspendIsSecured == slCmd = "suspend" => slCmdSeen

\* A sleep that waited for the daemon comes after its decision, and not in the middle of it.
SleepIsGuarded == slSystem = "asleep" /\ slGuard => slDaemon = "idle" /\ (slSecured => slSeen)

\* Awake, with nothing left to handle, a daemon holds its inhibitor, whatever sleeps it missed or saw fail.
InhibitorBack == slDaemon = "idle" /\ slSystem = "awake" /\ slSignals = <<>> => slInhibitor

SleepLockHolds == MarkerIsTrue /\ SecureIsTrue /\ SuspendIsSecured /\ SleepIsGuarded /\ InhibitorBack
=============================================================================
