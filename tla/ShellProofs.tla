---------------------------- MODULE ShellProofs ----------------------------
(***************************************************************************)
(* Theorems of the helpers of the shell: SleepLock, InstallTree,           *)
(* UpdateCoordinator and InstallSwitch.  Each has an inductive invariant   *)
(* made of named parts, and one step of the proof per action.              *)
(***************************************************************************)
EXTENDS SleepLock, InstallTree, UpdateCoordinator, InstallSwitch, ConfigStore, SequenceTheorems, TLAPS

------------------------------------
(* SleepLock: invariant *)
Signals == {"sleep", "resume"}
DaemonLooks == {"look", "lookMarker", "start", "poll", "confirm", "alive", "release"}
DaemonPlaces == {"off", "enter", "deaf", "idle", "acquire", "look", "lookMarker", "start", "poll", "confirm", "alive", "release"}
UnitStates == {"inactive", "active", "quitting", "stopping", "crashed", "again"}
ClientStates == {"none", "new", "touching", "shown"}
CommandPlaces == {"off", "look", "unlink", "start", "wait", "decide", "marker", "suspend", "unlinkLast", "startLast"}
SleepTypeOK ==
    /\ slSystem \in {"awake", "preparing", "asleep"} /\ slSignals \in Seq(Signals)
    /\ slDaemon \in DaemonPlaces /\ slInhibitor \in BOOLEAN /\ slSecured \in BOOLEAN
    /\ slUnit \in UnitStates /\ slClient \in ClientStates /\ slMarker \in BOOLEAN /\ slLocked \in BOOLEAN
    /\ slCmd \in CommandPlaces /\ slFor \in {"lock", "suspend"}
    /\ slSeen \in BOOLEAN /\ slCmdSeen \in BOOLEAN /\ slGuard \in BOOLEAN

\* The marker comes from a locker that has the lock, or is about to be removed.
MarkerInv ==
    /\ slUnit = "active" /\ slClient \in {"touching", "shown"} => slLocked
    /\ slMarker => (LockerActive /\ slClient = "shown") \/ slUnit \in {"stopping", "crashed"}
\* As long as no lock was seen there is none, and once the unit was found active there is no marker either.
DaemonInv ==
    /\ slDaemon \in DaemonLooks /\ ~slSeen => ~Shut
    /\ slDaemon \in {"lookMarker", "poll", "alive"} /\ ~slSeen => ~slMarker
    /\ slDaemon = "confirm" => slSeen
    /\ SecureIsTrue
CommandInv ==
    /\ slCmd # "off" /\ ~slCmdSeen => ~Shut
    /\ slCmd \in {"wait", "decide", "marker"} /\ ~slCmdSeen => ~slMarker
    /\ SuspendIsSecured
\* The last signal on its way says what the machine does.
LastSignal == slSignals[Len(slSignals)]
SignalInv ==
    /\ ~Listening => slSignals = <<>>
    /\ slDaemon = "deaf" => slInhibitor
    /\ slSignals # <<>> => LastSignal = IF slSystem = "awake" THEN "resume" ELSE "sleep"
    /\ slDaemon \in DaemonLooks /\ slSignals = <<>> => slSystem # "awake"
    /\ InhibitorBack
\* The three stages of a sleep that waits for the daemon.
GuardInv ==
    /\ slGuard /\ slSystem = "preparing" =>
           \/ slDaemon = "idle" /\ slInhibitor /\ slSignals # <<>> /\ Head(slSignals) = "sleep" /\ Tail(slSignals) = <<>>
           \/ slDaemon \in DaemonLooks /\ slInhibitor /\ slSignals = <<>>
           \/ slDaemon = "idle" /\ ~slInhibitor /\ slSignals = <<>> /\ (slSecured => slSeen)
    /\ SleepIsGuarded
SleepInv == SleepTypeOK /\ MarkerInv /\ DaemonInv /\ CommandInv /\ SignalInv /\ GuardInv

------------------------------------
(* SleepLock: proofs *)

LEMMA LastOfAppend ==
    ASSUME NEW s \in Seq(Signals), NEW v \in Signals
    PROVE  /\ Append(s, v) \in Seq(Signals) /\ Append(s, v) # <<>> /\ Append(s, v)[Len(Append(s, v))] = v
           /\ s = <<>> => Head(Append(s, v)) = v /\ Tail(Append(s, v)) = <<>>
<1>1. /\ Append(s, v) \in Seq(Signals) /\ Append(s, v) # <<>> /\ Append(s, v)[Len(Append(s, v))] = v
      /\ Len(Append(s, v)) = Len(s) + 1
  BY AppendProperties
<1>2. ASSUME s = <<>> PROVE Head(Append(s, v)) = v /\ Tail(Append(s, v)) = <<>>
  <2>1. Len(Append(s, v)) = 1  BY <1>1, <1>2, EmptySeq
  <2>2. Head(Append(s, v)) = Append(s, v)[1] /\ Tail(Append(s, v)) \in Seq(Signals) /\ Len(Tail(Append(s, v))) = 0
    BY <1>1, <2>1, HeadTailProperties
  <2>3. QED  BY <1>1, <2>1, <2>2, EmptySeq
<1>3. QED  BY <1>1, <1>2

LEMMA LastOfTail ==
    ASSUME NEW s \in Seq(Signals), s # <<>>
    PROVE  /\ Tail(s) \in Seq(Signals) /\ Head(s) \in Signals
           /\ Tail(s) = <<>> => s[Len(s)] = Head(s)
           /\ Tail(s) # <<>> => Tail(s)[Len(Tail(s))] = s[Len(s)]
<1>1. /\ Tail(s) \in Seq(Signals) /\ Head(s) \in Signals /\ Head(s) = s[1] /\ Len(s) \in Nat /\ Len(s) > 0
      /\ Len(Tail(s)) = Len(s) - 1 /\ \A i \in 1..Len(Tail(s)) : Tail(s)[i] = s[i + 1]
  BY HeadTailProperties, EmptySeq, LenProperties
<1>2. ASSUME Tail(s) = <<>> PROVE Len(s) = 1
  <2>1. Len(Tail(s)) = 0  BY <1>2, EmptySeq
  <2> HIDE <1>2
  <2>2. Len(Tail(s)) = Len(s) - 1 /\ Len(s) \in Nat  BY <1>1
  <2>3. QED  BY <2>1, <2>2
<1>3. ASSUME Tail(s) # <<>> PROVE Tail(s)[Len(Tail(s))] = s[Len(s)]
  <2>1. Len(Tail(s)) \in Nat /\ Len(Tail(s)) > 0  BY <1>1, <1>3, EmptySeq, LenProperties
  <2>2. QED  BY <1>1, <2>1
<1>4. QED  BY <1>1, <1>2, <1>3

LEMMA SleepStarts == SleepInit => SleepInv
<1> SUFFICES ASSUME SleepInit PROVE SleepInv  OBVIOUS
<1>1. SleepTypeOK  BY EmptySeq DEF SleepInit, SleepTypeOK, DaemonPlaces, UnitStates, ClientStates, CommandPlaces, SleepTypeOK
<1>2. QED
  BY <1>1 DEF SleepInit, SleepInv, MarkerInv, DaemonInv, CommandInv, SignalInv, GuardInv, SecureIsTrue, SuspendIsSecured,
              InhibitorBack, SleepIsGuarded, DaemonLooks, Listening, LockerActive, Shut

\* A step of the locker or of the command, that leaves the daemon and logind alone.
LEMMA SignalsAlone ==
    ASSUME SignalInv, GuardInv, slSeen \in BOOLEAN, slSeen => slSeen', UNCHANGED <<slSystem, slSignals, slDaemon, slInhibitor, slSecured, slGuard>>
    PROVE  SignalInv' /\ GuardInv'
BY DEF SignalInv, GuardInv, SleepIsGuarded, InhibitorBack, Listening, LastSignal

LEMMA UnitStep ==
    ASSUME SleepInv, LockerMoves
    PROVE  SleepInv'
<1> USE DEF SleepInv, slDaemonVars, slLocker, slCommand
<1>1. CASE LockerRestarts
  <2>1. SleepTypeOK'  BY <1>1 DEF LockerRestarts, UnitRuns, LockerActive, SleepTypeOK, UnitStates, ClientStates
  <2>2. MarkerInv'
    BY <1>1 DEF LockerRestarts, UnitRuns, LockerActive, SleepTypeOK, UnitStates, ClientStates, MarkerInv, LockerActive
  <2>3. DaemonInv'
    BY <1>1 DEF LockerRestarts, UnitRuns, LockerActive, SleepTypeOK, UnitStates, ClientStates, MarkerInv, DaemonInv, SecureIsTrue, Shut, LockerActive, DaemonLooks
  <2>4. CommandInv'
    BY <1>1 DEF LockerRestarts, UnitRuns, LockerActive, SleepTypeOK, UnitStates, ClientStates, MarkerInv, CommandInv, SuspendIsSecured, Shut, LockerActive
  <2>5. UNCHANGED <<slSystem, slSignals, slDaemon, slInhibitor, slSecured, slGuard>> /\ (slSeen => slSeen') /\ slSeen \in BOOLEAN
    BY <1>1 DEF LockerRestarts, UnitRuns, LockerActive, SleepTypeOK
  <2>6. SignalInv' /\ GuardInv'  BY <2>5, SignalsAlone
  <2>7. QED  BY <2>1, <2>2, <2>3, <2>4, <2>6
<1>2. CASE GrantLock
  <2>1. SleepTypeOK'  BY <1>2 DEF GrantLock, SleepTypeOK, UnitStates, ClientStates
  <2>2. MarkerInv'  BY <1>2 DEF GrantLock, SleepTypeOK, UnitStates, ClientStates, MarkerInv, LockerActive
  <2>3. DaemonInv'
    BY <1>2 DEF GrantLock, SleepTypeOK, UnitStates, ClientStates, MarkerInv, DaemonInv, SecureIsTrue, Shut, LockerActive, DaemonLooks
  <2>4. CommandInv'
    BY <1>2 DEF GrantLock, SleepTypeOK, UnitStates, ClientStates, MarkerInv, CommandInv, SuspendIsSecured, Shut, LockerActive
  <2>5. UNCHANGED <<slSystem, slSignals, slDaemon, slInhibitor, slSecured, slGuard>> /\ (slSeen => slSeen') /\ slSeen \in BOOLEAN
    BY <1>2 DEF GrantLock, SleepTypeOK
  <2>6. SignalInv' /\ GuardInv'  BY <2>5, SignalsAlone
  <2>7. QED  BY <2>1, <2>2, <2>3, <2>4, <2>6
<1>3. CASE TouchMarker
  <2>1. SleepTypeOK'  BY <1>3 DEF TouchMarker, SleepTypeOK, UnitStates, ClientStates
  <2>2. MarkerInv'  BY <1>3 DEF TouchMarker, SleepTypeOK, UnitStates, ClientStates, MarkerInv, LockerActive
  <2>3. DaemonInv'
    BY <1>3 DEF TouchMarker, SleepTypeOK, UnitStates, ClientStates, MarkerInv, DaemonInv, SecureIsTrue, Shut, LockerActive, DaemonLooks
  <2>4. CommandInv'
    BY <1>3 DEF TouchMarker, SleepTypeOK, UnitStates, ClientStates, MarkerInv, CommandInv, SuspendIsSecured, Shut, LockerActive
  <2>5. UNCHANGED <<slSystem, slSignals, slDaemon, slInhibitor, slSecured, slGuard>> /\ (slSeen => slSeen') /\ slSeen \in BOOLEAN
    BY <1>3 DEF TouchMarker, SleepTypeOK
  <2>6. SignalInv' /\ GuardInv'  BY <2>5, SignalsAlone
  <2>7. QED  BY <2>1, <2>2, <2>3, <2>4, <2>6
<1>4. CASE Unlock
  <2>1. SleepTypeOK'  BY <1>4 DEF Unlock, SleepTypeOK, UnitStates, ClientStates
  <2>2. MarkerInv'  BY <1>4 DEF Unlock, SleepTypeOK, UnitStates, ClientStates, MarkerInv, LockerActive
  <2>3. DaemonInv'
    BY <1>4 DEF Unlock, SleepTypeOK, UnitStates, ClientStates, MarkerInv, DaemonInv, SecureIsTrue, Shut, LockerActive, DaemonLooks
  <2>4. CommandInv'
    BY <1>4 DEF Unlock, SleepTypeOK, UnitStates, ClientStates, MarkerInv, CommandInv, SuspendIsSecured, Shut, LockerActive
  <2>5. UNCHANGED <<slSystem, slSignals, slDaemon, slInhibitor, slSecured, slGuard>> /\ (slSeen => slSeen') /\ slSeen \in BOOLEAN
    BY <1>4 DEF Unlock, SleepTypeOK
  <2>6. SignalInv' /\ GuardInv'  BY <2>5, SignalsAlone
  <2>7. QED  BY <2>1, <2>2, <2>3, <2>4, <2>6
<1>5. CASE LockerEnds
  <2>1. SleepTypeOK'  BY <1>5 DEF LockerEnds, SleepTypeOK, UnitStates, ClientStates
  <2>2. MarkerInv'  BY <1>5 DEF LockerEnds, SleepTypeOK, UnitStates, ClientStates, MarkerInv, LockerActive
  <2>3. DaemonInv'
    BY <1>5 DEF LockerEnds, SleepTypeOK, UnitStates, ClientStates, MarkerInv, DaemonInv, SecureIsTrue, Shut, LockerActive, DaemonLooks
  <2>4. CommandInv'
    BY <1>5 DEF LockerEnds, SleepTypeOK, UnitStates, ClientStates, MarkerInv, CommandInv, SuspendIsSecured, Shut, LockerActive
  <2>5. UNCHANGED <<slSystem, slSignals, slDaemon, slInhibitor, slSecured, slGuard>> /\ (slSeen => slSeen') /\ slSeen \in BOOLEAN
    BY <1>5 DEF LockerEnds, SleepTypeOK
  <2>6. SignalInv' /\ GuardInv'  BY <2>5, SignalsAlone
  <2>7. QED  BY <2>1, <2>2, <2>3, <2>4, <2>6
<1>6. CASE StopPost
  <2>1. SleepTypeOK'  BY <1>6 DEF StopPost, SleepTypeOK, UnitStates, ClientStates
  <2>2. MarkerInv'  BY <1>6 DEF StopPost, SleepTypeOK, UnitStates, ClientStates, MarkerInv, LockerActive
  <2>3. DaemonInv'
    BY <1>6 DEF StopPost, SleepTypeOK, UnitStates, ClientStates, MarkerInv, DaemonInv, SecureIsTrue, Shut, LockerActive, DaemonLooks
  <2>4. CommandInv'
    BY <1>6 DEF StopPost, SleepTypeOK, UnitStates, ClientStates, MarkerInv, CommandInv, SuspendIsSecured, Shut, LockerActive
  <2>5. UNCHANGED <<slSystem, slSignals, slDaemon, slInhibitor, slSecured, slGuard>> /\ (slSeen => slSeen') /\ slSeen \in BOOLEAN
    BY <1>6 DEF StopPost, SleepTypeOK
  <2>6. SignalInv' /\ GuardInv'  BY <2>5, SignalsAlone
  <2>7. QED  BY <2>1, <2>2, <2>3, <2>4, <2>6
<1>7. QED  BY <1>1, <1>2, <1>3, <1>4, <1>5, <1>6 DEF LockerMoves

\* A step of logind leaves the others alone.
LEMMA OthersAlone ==
    ASSUME SleepInv, UNCHANGED <<slDaemonVars, slLocker, slCmd, slFor, slCmdSeen>> \/ (slCmd' = "off" /\ UNCHANGED <<slDaemonVars, slLocker, slFor, slCmdSeen>>)
    PROVE  MarkerInv' /\ DaemonInv' /\ CommandInv'
<1> USE DEF SleepInv, slDaemonVars, slLocker
<1>1. MarkerInv'  BY DEF MarkerInv, LockerActive
<1>2. DaemonInv'  BY DEF DaemonInv, SecureIsTrue, Shut
<1>3. CommandInv'  BY DEF CommandInv, SuspendIsSecured, Shut
<1>4. QED  BY <1>1, <1>2, <1>3

LEMMA AnnouncedStep ==
    ASSUME SleepInv, Announced, UNCHANGED slDaemonVars
    PROVE  slSystem' \in {"awake", "preparing", "asleep"} /\ slSignals' \in Seq(Signals) /\ slGuard' \in BOOLEAN /\ SignalInv' /\ GuardInv'
<1> USE DEF SleepInv
<1>1. slSignals \in Seq(Signals) /\ "sleep" \in Signals  BY DEF SleepTypeOK, Signals
<1>2. slSystem = "awake" /\ slSystem' = "preparing" /\ slSignals' = IF Listening THEN Append(slSignals, "sleep") ELSE slSignals
  BY DEF Announced, Signalled
<1>3. slGuard' = (slDaemon = "idle" /\ slInhibitor /\ slSignals = <<>>)  BY DEF Announced
<1>4. slSignals' \in Seq(Signals) /\ (Listening => slSignals' # <<>> /\ LastSignal' = "sleep")
  BY <1>1, <1>2, LastOfAppend DEF LastSignal
<1>5. Listening' = Listening /\ slDaemon' = slDaemon /\ slInhibitor' = slInhibitor  BY DEF Listening, slDaemonVars
<1>6. SignalInv'  BY <1>2, <1>4, <1>5 DEF SignalInv, InhibitorBack, Listening, DaemonLooks
<1>7. ASSUME slGuard'
      PROVE  slDaemon' = "idle" /\ slInhibitor' /\ slSignals' # <<>> /\ Head(slSignals') = "sleep" /\ Tail(slSignals') = <<>>
  <2>1. slDaemon = "idle" /\ slInhibitor /\ slSignals = <<>>  BY <1>3, <1>7
  <2>2. Listening  BY <2>1 DEF Listening
  <2>3. QED  BY <1>1, <1>2, <1>5, <2>1, <2>2, LastOfAppend
<1>8. GuardInv'  BY <1>2, <1>7 DEF GuardInv, SleepIsGuarded
<1>9. QED  BY <1>2, <1>3, <1>4, <1>6, <1>8

LEMMA LogindStep ==
    ASSUME SleepInv, LogindMoves \/ AwakeAgain
    PROVE  SleepInv'
<1> USE DEF SleepInv
<1>1. CASE SleepRequested
  <2>1. Announced /\ UNCHANGED <<slDaemonVars, slLocker, slCommand>>  BY <1>1 DEF SleepRequested
  <2>2. MarkerInv' /\ DaemonInv' /\ CommandInv'  BY <2>1, OthersAlone DEF slCommand
  <2>3. SleepTypeOK'  BY <2>1, AnnouncedStep DEF SleepTypeOK, slDaemonVars, slLocker, slCommand
  <2>4. QED  BY <2>1, <2>2, <2>3, AnnouncedStep
<1>2. CASE CmdSuspends
  <2>1. slCmd' = "off" /\ UNCHANGED <<slDaemonVars, slLocker, slFor, slCmdSeen>>  BY <1>2 DEF CmdSuspends
  <2>2. MarkerInv' /\ DaemonInv' /\ CommandInv'  BY <2>1, OthersAlone
  <2>3. CASE Announced
    <3>1. SleepTypeOK'  BY <2>1, <2>3, AnnouncedStep DEF SleepTypeOK, CommandPlaces, slDaemonVars, slLocker
    <3>2. QED  BY <2>1, <2>2, <2>3, <3>1, AnnouncedStep
  <2>4. CASE UNCHANGED <<slSystem, slSignals, slGuard>>
    <3>1. SleepTypeOK'  BY <2>1, <2>4 DEF SleepTypeOK, CommandPlaces, slDaemonVars, slLocker
    <3>2. UNCHANGED <<slDaemon, slInhibitor, slSecured, slSeen>> /\ slSeen \in BOOLEAN  BY <2>1 DEF slDaemonVars, SleepTypeOK
    <3>3. SignalInv' /\ GuardInv'  BY <2>4, <3>2, SignalsAlone
    <3>4. QED  BY <2>2, <3>1, <3>3
  <2>5. QED  BY <1>2, <2>3, <2>4 DEF CmdSuspends
<1>3. CASE FallAsleep
  <2>1. /\ slSystem = "preparing" /\ slSystem' = "asleep" /\ slGuard' = (slGuard /\ ~slInhibitor)
        /\ UNCHANGED <<slSignals, slDaemonVars, slLocker, slCommand>>
    BY <1>3 DEF FallAsleep
  <2>2. MarkerInv' /\ DaemonInv' /\ CommandInv'  BY <2>1, OthersAlone DEF slCommand
  <2>3. SleepTypeOK'  BY <2>1 DEF SleepTypeOK, slDaemonVars, slLocker, slCommand
  <2>4. SignalInv'  BY <2>1 DEF SignalInv, InhibitorBack, LastSignal, Listening, slDaemonVars
  <2>5. GuardInv'  BY <2>1 DEF GuardInv, SleepIsGuarded, slDaemonVars
  <2>6. QED  BY <2>2, <2>3, <2>4, <2>5
<1>4. CASE AwakeAgain
  <2>1. /\ slSystem' = "awake" /\ UNCHANGED <<slDaemonVars, slLocker, slCommand, slGuard>>
        /\ slSignals' = IF Listening THEN Append(slSignals, "resume") ELSE slSignals
    BY <1>4 DEF AwakeAgain, Signalled
  <2>2. MarkerInv' /\ DaemonInv' /\ CommandInv'  BY <2>1, OthersAlone DEF slCommand
  <2>3. slSignals' \in Seq(Signals) /\ (Listening => slSignals' # <<>> /\ LastSignal' = "resume")
    <3>1. slSignals \in Seq(Signals) /\ "resume" \in Signals  BY DEF SleepTypeOK, Signals
    <3>2. QED  BY <2>1, <3>1, LastOfAppend DEF LastSignal
  <2>4. SleepTypeOK'  BY <2>1, <2>3 DEF SleepTypeOK, slDaemonVars, slLocker, slCommand
  <2>5. SignalInv'  BY <2>1, <2>3 DEF SignalInv, InhibitorBack, Listening, DaemonLooks, slDaemonVars
  <2>6. GuardInv'  BY <2>1 DEF GuardInv, SleepIsGuarded
  <2>7. QED  BY <2>2, <2>4, <2>5, <2>6
<1>5. QED  BY <1>1, <1>2, <1>3, <1>4 DEF LogindMoves

LEMMA HandleStep ==
    ASSUME SleepInv, slSystem # "asleep", HandleSignal
    PROVE  SleepInv'
<1> USE DEF SleepInv
<1>1. /\ slSignals \in Seq(Signals) /\ slSignals # <<>> /\ slSignals' = Tail(slSignals)
      /\ slDaemon = "idle" /\ UNCHANGED <<slSystem, slLocker, slCommand, slGuard>> /\ slSecured' = FALSE
  BY DEF SleepTypeOK, HandleSignal
<1>2. slSignals' \in Seq(Signals) /\ Head(slSignals) \in {"sleep", "resume"}  BY <1>1, LastOfTail DEF Signals
<1>3. /\ slSignals' # <<>> => LastSignal' = LastSignal
      /\ slSignals' = <<>> => LastSignal = Head(slSignals)
  BY <1>1, LastOfTail DEF LastSignal
<1>4. MarkerInv'  BY <1>1 DEF MarkerInv, LockerActive, slLocker
<1>5. CommandInv'  BY <1>1 DEF CommandInv, SuspendIsSecured, Shut, slLocker, slCommand
<1>6. CASE Head(slSignals) = "sleep"
  <2>1. slDaemon' = "look" /\ slSeen' = Shut /\ slInhibitor' = slInhibitor  BY <1>6 DEF HandleSignal
  <2>2. SleepTypeOK'  BY <1>1, <1>2, <2>1 DEF SleepTypeOK, DaemonPlaces, Shut, slLocker, slCommand
  <2>3. DaemonInv'
    <3>1. Shut' = Shut  BY <1>1 DEF Shut, slLocker
    <3>2. QED  BY <2>1, <3>1 DEF DaemonInv, SecureIsTrue
  <2>4. SignalInv'  BY <1>1, <1>3, <1>6, <2>1 DEF SignalInv, InhibitorBack, Listening
  <2>5. GuardInv'  BY <1>1, <1>6, <2>1 DEF GuardInv, SleepIsGuarded, DaemonLooks
  <2>6. QED  BY <1>4, <1>5, <2>2, <2>3, <2>4, <2>5
<1>7. CASE Head(slSignals) = "resume"
  <2>1. slDaemon' = "acquire" /\ slInhibitor' = FALSE /\ slSeen' = slSeen  BY <1>7 DEF HandleSignal
  <2>2. SleepTypeOK'  BY <1>1, <1>2, <2>1 DEF SleepTypeOK, DaemonPlaces, slLocker, slCommand
  <2>3. DaemonInv'  BY <2>1 DEF DaemonInv, SecureIsTrue, DaemonLooks
  <2>4. SignalInv'  BY <1>1, <1>3, <1>7, <2>1 DEF SignalInv, InhibitorBack, Listening, DaemonLooks
  <2>5. GuardInv'  BY <1>1, <1>7, <2>1 DEF GuardInv, SleepIsGuarded
  <2>6. QED  BY <1>4, <1>5, <2>2, <2>3, <2>4, <2>5
<1>8. QED  BY <1>2, <1>6, <1>7

LEMMA DaemonStep ==
    ASSUME SleepInv, slSystem # "asleep", DaemonMoves
    PROVE  SleepInv'
<1> USE DEF SleepInv, Goes, Concludes, DaemonAt, slLocker, slCommand
<1>1. CASE DaemonStarts
  <2>1. SleepTypeOK'  BY <1>1 DEF DaemonStarts, SleepTypeOK, DaemonPlaces
  <2>2. MarkerInv'  BY <1>1 DEF DaemonStarts, SleepTypeOK, UnitStates, ClientStates, MarkerInv, LockerActive
  <2>3. DaemonInv'
    BY <1>1 DEF DaemonStarts, SleepTypeOK, UnitStates, ClientStates, MarkerInv, DaemonInv, SecureIsTrue, Shut, LockerActive, DaemonLooks
  <2>4. CommandInv'
    BY <1>1 DEF DaemonStarts, SleepTypeOK, UnitStates, ClientStates, MarkerInv, CommandInv, SuspendIsSecured, Shut, LockerActive
  <2>5. SignalInv'  BY <1>1 DEF DaemonStarts, SleepTypeOK, SignalInv, InhibitorBack, LastSignal, Listening, DaemonLooks
  <2>6. GuardInv'  BY <1>1 DEF DaemonStarts, SleepTypeOK, GuardInv, SleepIsGuarded, DaemonLooks
  <2>7. QED  BY <2>1, <2>2, <2>3, <2>4, <2>5, <2>6
<1>2. CASE AcquireInhibitor
  <2>1. SleepTypeOK'  BY <1>2 DEF AcquireInhibitor, SleepTypeOK, DaemonPlaces
  <2>2. MarkerInv'  BY <1>2 DEF AcquireInhibitor, SleepTypeOK, UnitStates, ClientStates, MarkerInv, LockerActive
  <2>3. DaemonInv'
    BY <1>2 DEF AcquireInhibitor, SleepTypeOK, UnitStates, ClientStates, MarkerInv, DaemonInv, SecureIsTrue, Shut, LockerActive, DaemonLooks
  <2>4. CommandInv'
    BY <1>2 DEF AcquireInhibitor, SleepTypeOK, UnitStates, ClientStates, MarkerInv, CommandInv, SuspendIsSecured, Shut, LockerActive
  <2>5. SignalInv'  BY <1>2 DEF AcquireInhibitor, SleepTypeOK, SignalInv, InhibitorBack, LastSignal, Listening, DaemonLooks
  <2>6. GuardInv'  BY <1>2 DEF AcquireInhibitor, SleepTypeOK, GuardInv, SleepIsGuarded, DaemonLooks
  <2>7. QED  BY <2>1, <2>2, <2>3, <2>4, <2>5, <2>6
<1>3. CASE Listen
  <2>1. SleepTypeOK'  BY <1>3 DEF Listen, SleepTypeOK, DaemonPlaces
  <2>2. MarkerInv'  BY <1>3 DEF Listen, SleepTypeOK, UnitStates, ClientStates, MarkerInv, LockerActive
  <2>3. DaemonInv'
    BY <1>3 DEF Listen, SleepTypeOK, UnitStates, ClientStates, MarkerInv, DaemonInv, SecureIsTrue, Shut, LockerActive, DaemonLooks
  <2>4. CommandInv'
    BY <1>3 DEF Listen, SleepTypeOK, UnitStates, ClientStates, MarkerInv, CommandInv, SuspendIsSecured, Shut, LockerActive
  <2>5. SignalInv'  BY <1>3 DEF Listen, SleepTypeOK, SignalInv, InhibitorBack, LastSignal, Listening, DaemonLooks
  <2>6. GuardInv'  BY <1>3 DEF Listen, SleepTypeOK, GuardInv, SleepIsGuarded, DaemonLooks
  <2>7. QED  BY <2>1, <2>2, <2>3, <2>4, <2>5, <2>6
<1>4. CASE DaemonFails
  <2>1. SleepTypeOK'  BY <1>4, EmptySeq DEF DaemonFails, SleepTypeOK, DaemonPlaces
  <2>2. MarkerInv'  BY <1>4, EmptySeq DEF DaemonFails, SleepTypeOK, UnitStates, ClientStates, MarkerInv, LockerActive
  <2>3. DaemonInv'
    BY <1>4, EmptySeq DEF DaemonFails, SleepTypeOK, UnitStates, ClientStates, MarkerInv, DaemonInv, SecureIsTrue, Shut, LockerActive, DaemonLooks
  <2>4. CommandInv'
    BY <1>4, EmptySeq DEF DaemonFails, SleepTypeOK, UnitStates, ClientStates, MarkerInv, CommandInv, SuspendIsSecured, Shut, LockerActive
  <2>5. SignalInv'  BY <1>4, EmptySeq DEF DaemonFails, SleepTypeOK, SignalInv, InhibitorBack, LastSignal, Listening, DaemonLooks
  <2>6. GuardInv'  BY <1>4, EmptySeq DEF DaemonFails, SleepTypeOK, GuardInv, SleepIsGuarded, DaemonLooks
  <2>7. QED  BY <2>1, <2>2, <2>3, <2>4, <2>5, <2>6
<1>5. CASE LookUnit
  <2>1. SleepTypeOK'  BY <1>5 DEF LookUnit, SleepTypeOK, DaemonPlaces
  <2>2. MarkerInv'  BY <1>5 DEF LookUnit, SleepTypeOK, UnitStates, ClientStates, MarkerInv, LockerActive
  <2>3. DaemonInv'
    BY <1>5 DEF LookUnit, SleepTypeOK, UnitStates, ClientStates, MarkerInv, DaemonInv, SecureIsTrue, Shut, LockerActive, DaemonLooks
  <2>4. CommandInv'
    BY <1>5 DEF LookUnit, SleepTypeOK, UnitStates, ClientStates, MarkerInv, CommandInv, SuspendIsSecured, Shut, LockerActive
  <2>5. SignalInv'  BY <1>5 DEF LookUnit, SleepTypeOK, SignalInv, InhibitorBack, LastSignal, Listening, DaemonLooks
  <2>6. GuardInv'  BY <1>5 DEF LookUnit, SleepTypeOK, GuardInv, SleepIsGuarded, DaemonLooks
  <2>7. QED  BY <2>1, <2>2, <2>3, <2>4, <2>5, <2>6
<1>6. CASE LookMarker
  <2>1. SleepTypeOK'  BY <1>6 DEF LookMarker, SleepTypeOK, DaemonPlaces
  <2>2. MarkerInv'  BY <1>6 DEF LookMarker, SleepTypeOK, UnitStates, ClientStates, MarkerInv, LockerActive
  <2>3. DaemonInv'
    BY <1>6 DEF LookMarker, SleepTypeOK, UnitStates, ClientStates, MarkerInv, DaemonInv, SecureIsTrue, Shut, LockerActive, DaemonLooks
  <2>4. CommandInv'
    BY <1>6 DEF LookMarker, SleepTypeOK, UnitStates, ClientStates, MarkerInv, CommandInv, SuspendIsSecured, Shut, LockerActive
  <2>5. SignalInv'  BY <1>6 DEF LookMarker, SleepTypeOK, SignalInv, InhibitorBack, LastSignal, Listening, DaemonLooks
  <2>6. GuardInv'  BY <1>6 DEF LookMarker, SleepTypeOK, GuardInv, SleepIsGuarded, DaemonLooks
  <2>7. QED  BY <2>1, <2>2, <2>3, <2>4, <2>5, <2>6
<1>7. CASE StartLocker
  <2>1. SleepTypeOK'  BY <1>7 DEF StartLocker, UnitRuns, LockerActive, SleepTypeOK, UnitStates, ClientStates, DaemonPlaces
  <2>2. MarkerInv'  BY <1>7 DEF StartLocker, UnitRuns, LockerActive, SleepTypeOK, UnitStates, ClientStates, MarkerInv, LockerActive
  <2>3. DaemonInv'
    BY <1>7 DEF StartLocker, UnitRuns, LockerActive, SleepTypeOK, UnitStates, ClientStates, MarkerInv, DaemonInv, SecureIsTrue, Shut, LockerActive, DaemonLooks
  <2>4. CommandInv'
    BY <1>7 DEF StartLocker, UnitRuns, LockerActive, SleepTypeOK, UnitStates, ClientStates, MarkerInv, CommandInv, SuspendIsSecured, Shut, LockerActive
  <2>5. SignalInv'
    BY <1>7 DEF StartLocker, UnitRuns, LockerActive, SleepTypeOK, SignalInv, InhibitorBack, LastSignal, Listening, DaemonLooks
  <2>6. GuardInv'  BY <1>7 DEF StartLocker, UnitRuns, LockerActive, SleepTypeOK, GuardInv, SleepIsGuarded, DaemonLooks
  <2>7. QED  BY <2>1, <2>2, <2>3, <2>4, <2>5, <2>6
<1>8. CASE PollMarker
  <2>1. SleepTypeOK'  BY <1>8 DEF PollMarker, SleepTypeOK, DaemonPlaces
  <2>2. MarkerInv'  BY <1>8 DEF PollMarker, SleepTypeOK, UnitStates, ClientStates, MarkerInv, LockerActive
  <2>3. DaemonInv'
    BY <1>8 DEF PollMarker, SleepTypeOK, UnitStates, ClientStates, MarkerInv, DaemonInv, SecureIsTrue, Shut, LockerActive, DaemonLooks
  <2>4. CommandInv'
    BY <1>8 DEF PollMarker, SleepTypeOK, UnitStates, ClientStates, MarkerInv, CommandInv, SuspendIsSecured, Shut, LockerActive
  <2>5. SignalInv'  BY <1>8 DEF PollMarker, SleepTypeOK, SignalInv, InhibitorBack, LastSignal, Listening, DaemonLooks
  <2>6. GuardInv'  BY <1>8 DEF PollMarker, SleepTypeOK, GuardInv, SleepIsGuarded, DaemonLooks
  <2>7. QED  BY <2>1, <2>2, <2>3, <2>4, <2>5, <2>6
<1>9. CASE Confirm
  <2>1. SleepTypeOK'  BY <1>9 DEF Confirm, SleepTypeOK, DaemonPlaces
  <2>2. MarkerInv'  BY <1>9 DEF Confirm, SleepTypeOK, UnitStates, ClientStates, MarkerInv, LockerActive
  <2>3. DaemonInv'
    BY <1>9 DEF Confirm, SleepTypeOK, UnitStates, ClientStates, MarkerInv, DaemonInv, SecureIsTrue, Shut, LockerActive, DaemonLooks
  <2>4. CommandInv'
    BY <1>9 DEF Confirm, SleepTypeOK, UnitStates, ClientStates, MarkerInv, CommandInv, SuspendIsSecured, Shut, LockerActive
  <2>5. SignalInv'  BY <1>9 DEF Confirm, SleepTypeOK, SignalInv, InhibitorBack, LastSignal, Listening, DaemonLooks
  <2>6. GuardInv'  BY <1>9 DEF Confirm, SleepTypeOK, GuardInv, SleepIsGuarded, DaemonLooks
  <2>7. QED  BY <2>1, <2>2, <2>3, <2>4, <2>5, <2>6
<1>10. CASE StillAlive
  <2>1. SleepTypeOK'  BY <1>10 DEF StillAlive, SleepTypeOK, DaemonPlaces
  <2>2. MarkerInv'  BY <1>10 DEF StillAlive, SleepTypeOK, UnitStates, ClientStates, MarkerInv, LockerActive
  <2>3. DaemonInv'
    BY <1>10 DEF StillAlive, SleepTypeOK, UnitStates, ClientStates, MarkerInv, DaemonInv, SecureIsTrue, Shut, LockerActive, DaemonLooks
  <2>4. CommandInv'
    BY <1>10 DEF StillAlive, SleepTypeOK, UnitStates, ClientStates, MarkerInv, CommandInv, SuspendIsSecured, Shut, LockerActive
  <2>5. SignalInv'  BY <1>10 DEF StillAlive, SleepTypeOK, SignalInv, InhibitorBack, LastSignal, Listening, DaemonLooks
  <2>6. GuardInv'  BY <1>10 DEF StillAlive, SleepTypeOK, GuardInv, SleepIsGuarded, DaemonLooks
  <2>7. QED  BY <2>1, <2>2, <2>3, <2>4, <2>5, <2>6
<1>11. CASE PollOver
  <2>1. SleepTypeOK'  BY <1>11 DEF PollOver, SleepTypeOK, DaemonPlaces
  <2>2. MarkerInv'  BY <1>11 DEF PollOver, SleepTypeOK, UnitStates, ClientStates, MarkerInv, LockerActive
  <2>3. DaemonInv'
    BY <1>11 DEF PollOver, SleepTypeOK, UnitStates, ClientStates, MarkerInv, DaemonInv, SecureIsTrue, Shut, LockerActive, DaemonLooks
  <2>4. CommandInv'
    BY <1>11 DEF PollOver, SleepTypeOK, UnitStates, ClientStates, MarkerInv, CommandInv, SuspendIsSecured, Shut, LockerActive
  <2>5. SignalInv'  BY <1>11 DEF PollOver, SleepTypeOK, SignalInv, InhibitorBack, LastSignal, Listening, DaemonLooks
  <2>6. GuardInv'  BY <1>11 DEF PollOver, SleepTypeOK, GuardInv, SleepIsGuarded, DaemonLooks
  <2>7. QED  BY <2>1, <2>2, <2>3, <2>4, <2>5, <2>6
<1>12. CASE ReleaseInhibitor
  <2>1. SleepTypeOK'  BY <1>12 DEF ReleaseInhibitor, SleepTypeOK, DaemonPlaces
  <2>2. MarkerInv'  BY <1>12 DEF ReleaseInhibitor, SleepTypeOK, UnitStates, ClientStates, MarkerInv, LockerActive
  <2>3. DaemonInv'
    BY <1>12 DEF ReleaseInhibitor, SleepTypeOK, UnitStates, ClientStates, MarkerInv, DaemonInv, SecureIsTrue, Shut, LockerActive, DaemonLooks
  <2>4. CommandInv'
    BY <1>12 DEF ReleaseInhibitor, SleepTypeOK, UnitStates, ClientStates, MarkerInv, CommandInv, SuspendIsSecured, Shut, LockerActive
  <2>5. SignalInv'  BY <1>12 DEF ReleaseInhibitor, SleepTypeOK, SignalInv, InhibitorBack, LastSignal, Listening, DaemonLooks
  <2>6. GuardInv'  BY <1>12 DEF ReleaseInhibitor, SleepTypeOK, GuardInv, SleepIsGuarded, DaemonInv, SecureIsTrue, DaemonLooks
  <2>7. QED  BY <2>1, <2>2, <2>3, <2>4, <2>5, <2>6
<1>13. QED  BY <1>1, <1>2, <1>3, <1>4, <1>5, <1>6, <1>7, <1>8, <1>9, <1>10, <1>11, <1>12 DEF DaemonMoves

LEMMA CommandStep ==
    ASSUME SleepInv, CommandMoves
    PROVE  SleepInv'
<1> USE DEF SleepInv, CmdGoes, slLocker, slDaemonVars
<1>1. CASE \E for \in {"lock", "suspend"} : CmdBegins(for)
  <2>1. SleepTypeOK'  BY <1>1 DEF CmdBegins, SleepTypeOK, Shut, CommandPlaces
  <2>2. MarkerInv'  BY <1>1 DEF CmdBegins, SleepTypeOK, UnitStates, ClientStates, MarkerInv, LockerActive
  <2>3. DaemonInv'
    BY <1>1 DEF CmdBegins, SleepTypeOK, UnitStates, ClientStates, MarkerInv, DaemonInv, SecureIsTrue, Shut, LockerActive, DaemonLooks
  <2>4. CommandInv'
    <3>1. slCmd' = "look" /\ slCmdSeen' = Shut  BY <1>1 DEF CmdBegins
    <3>2. Shut' = Shut  BY <1>1 DEF CmdBegins, Shut
    <3>3. QED  BY <3>1, <3>2 DEF CommandInv, SuspendIsSecured
  <2>5. UNCHANGED <<slSystem, slSignals, slDaemon, slInhibitor, slSecured, slGuard>> /\ (slSeen => slSeen') /\ slSeen \in BOOLEAN
    BY <1>1 DEF CmdBegins, SleepTypeOK
  <2>6. SignalInv' /\ GuardInv'  BY <2>5, SignalsAlone
  <2>7. QED  BY <2>1, <2>2, <2>3, <2>4, <2>6
<1>2. CASE CmdLook
  <2>1. SleepTypeOK'  BY <1>2 DEF CmdLook, SleepTypeOK, CommandPlaces
  <2>2. MarkerInv'  BY <1>2 DEF CmdLook, SleepTypeOK, UnitStates, ClientStates, MarkerInv, LockerActive
  <2>3. DaemonInv'
    BY <1>2 DEF CmdLook, SleepTypeOK, UnitStates, ClientStates, MarkerInv, DaemonInv, SecureIsTrue, Shut, LockerActive, DaemonLooks
  <2>4. CommandInv'
    BY <1>2 DEF CmdLook, SleepTypeOK, UnitStates, ClientStates, MarkerInv, CommandInv, SuspendIsSecured, Shut, LockerActive
  <2>5. UNCHANGED <<slSystem, slSignals, slDaemon, slInhibitor, slSecured, slGuard>> /\ (slSeen => slSeen') /\ slSeen \in BOOLEAN
    BY <1>2 DEF CmdLook, SleepTypeOK
  <2>6. SignalInv' /\ GuardInv'  BY <2>5, SignalsAlone
  <2>7. QED  BY <2>1, <2>2, <2>3, <2>4, <2>6
<1>3. CASE CmdUnlinks("unlink", "start")
  <2>1. SleepTypeOK'  BY <1>3 DEF CmdUnlinks, SleepTypeOK, CommandPlaces
  <2>2. MarkerInv'  BY <1>3 DEF CmdUnlinks, SleepTypeOK, UnitStates, ClientStates, MarkerInv, LockerActive
  <2>3. DaemonInv'
    BY <1>3 DEF CmdUnlinks, SleepTypeOK, UnitStates, ClientStates, MarkerInv, DaemonInv, SecureIsTrue, Shut, LockerActive, DaemonLooks
  <2>4. CommandInv'
    BY <1>3 DEF CmdUnlinks, SleepTypeOK, UnitStates, ClientStates, MarkerInv, CommandInv, SuspendIsSecured, Shut, LockerActive
  <2>5. UNCHANGED <<slSystem, slSignals, slDaemon, slInhibitor, slSecured, slGuard>> /\ (slSeen => slSeen') /\ slSeen \in BOOLEAN
    BY <1>3 DEF CmdUnlinks, SleepTypeOK
  <2>6. SignalInv' /\ GuardInv'  BY <2>5, SignalsAlone
  <2>7. QED  BY <2>1, <2>2, <2>3, <2>4, <2>6
<1>4. CASE CmdStarts("start", "wait")
  <2>1. SleepTypeOK'  BY <1>4 DEF CmdStarts, UnitRuns, LockerActive, SleepTypeOK, UnitStates, ClientStates, CommandPlaces
  <2>2. MarkerInv'  BY <1>4 DEF CmdStarts, UnitRuns, LockerActive, SleepTypeOK, UnitStates, ClientStates, MarkerInv, LockerActive
  <2>3. DaemonInv'
    BY <1>4 DEF CmdStarts, UnitRuns, LockerActive, SleepTypeOK, UnitStates, ClientStates, MarkerInv, DaemonInv, SecureIsTrue, Shut, LockerActive, DaemonLooks
  <2>4. CommandInv'
    BY <1>4 DEF CmdStarts, UnitRuns, LockerActive, SleepTypeOK, UnitStates, ClientStates, MarkerInv, CommandInv, SuspendIsSecured, Shut, LockerActive
  <2>5. UNCHANGED <<slSystem, slSignals, slDaemon, slInhibitor, slSecured, slGuard>> /\ (slSeen => slSeen') /\ slSeen \in BOOLEAN
    BY <1>4 DEF CmdStarts, UnitRuns, LockerActive, SleepTypeOK
  <2>6. SignalInv' /\ GuardInv'  BY <2>5, SignalsAlone
  <2>7. QED  BY <2>1, <2>2, <2>3, <2>4, <2>6
<1>5. CASE CmdWaits
  <2>1. SleepTypeOK'  BY <1>5 DEF CmdWaits, SleepTypeOK, CommandPlaces
  <2>2. MarkerInv'  BY <1>5 DEF CmdWaits, SleepTypeOK, UnitStates, ClientStates, MarkerInv, LockerActive
  <2>3. DaemonInv'
    BY <1>5 DEF CmdWaits, SleepTypeOK, UnitStates, ClientStates, MarkerInv, DaemonInv, SecureIsTrue, Shut, LockerActive, DaemonLooks
  <2>4. CommandInv'
    BY <1>5 DEF CmdWaits, SleepTypeOK, UnitStates, ClientStates, MarkerInv, CommandInv, SuspendIsSecured, Shut, LockerActive
  <2>5. UNCHANGED <<slSystem, slSignals, slDaemon, slInhibitor, slSecured, slGuard>> /\ (slSeen => slSeen') /\ slSeen \in BOOLEAN
    BY <1>5 DEF CmdWaits, SleepTypeOK
  <2>6. SignalInv' /\ GuardInv'  BY <2>5, SignalsAlone
  <2>7. QED  BY <2>1, <2>2, <2>3, <2>4, <2>6
<1>6. CASE CmdDecides
  <2>1. SleepTypeOK'  BY <1>6 DEF CmdDecides, SleepTypeOK, CommandPlaces
  <2>2. MarkerInv'  BY <1>6 DEF CmdDecides, SleepTypeOK, UnitStates, ClientStates, MarkerInv, LockerActive
  <2>3. DaemonInv'
    BY <1>6 DEF CmdDecides, SleepTypeOK, UnitStates, ClientStates, MarkerInv, DaemonInv, SecureIsTrue, Shut, LockerActive, DaemonLooks
  <2>4. CommandInv'
    BY <1>6 DEF CmdDecides, SleepTypeOK, UnitStates, ClientStates, MarkerInv, CommandInv, SuspendIsSecured, Shut, LockerActive
  <2>5. UNCHANGED <<slSystem, slSignals, slDaemon, slInhibitor, slSecured, slGuard>> /\ (slSeen => slSeen') /\ slSeen \in BOOLEAN
    BY <1>6 DEF CmdDecides, SleepTypeOK
  <2>6. SignalInv' /\ GuardInv'  BY <2>5, SignalsAlone
  <2>7. QED  BY <2>1, <2>2, <2>3, <2>4, <2>6
<1>7. CASE CmdMarker
  <2>1. SleepTypeOK'  BY <1>7 DEF CmdMarker, SleepTypeOK, CommandPlaces
  <2>2. MarkerInv'  BY <1>7 DEF CmdMarker, SleepTypeOK, UnitStates, ClientStates, MarkerInv, LockerActive
  <2>3. DaemonInv'
    BY <1>7 DEF CmdMarker, SleepTypeOK, UnitStates, ClientStates, MarkerInv, DaemonInv, SecureIsTrue, Shut, LockerActive, DaemonLooks
  <2>4. CommandInv'
    BY <1>7 DEF CmdMarker, SleepTypeOK, UnitStates, ClientStates, MarkerInv, CommandInv, SuspendIsSecured, Shut, LockerActive
  <2>5. UNCHANGED <<slSystem, slSignals, slDaemon, slInhibitor, slSecured, slGuard>> /\ (slSeen => slSeen') /\ slSeen \in BOOLEAN
    BY <1>7 DEF CmdMarker, SleepTypeOK
  <2>6. SignalInv' /\ GuardInv'  BY <2>5, SignalsAlone
  <2>7. QED  BY <2>1, <2>2, <2>3, <2>4, <2>6
<1>8. CASE CmdUnlinks("unlinkLast", "startLast")
  <2>1. SleepTypeOK'  BY <1>8 DEF CmdUnlinks, SleepTypeOK, CommandPlaces
  <2>2. MarkerInv'  BY <1>8 DEF CmdUnlinks, SleepTypeOK, UnitStates, ClientStates, MarkerInv, LockerActive
  <2>3. DaemonInv'
    BY <1>8 DEF CmdUnlinks, SleepTypeOK, UnitStates, ClientStates, MarkerInv, DaemonInv, SecureIsTrue, Shut, LockerActive, DaemonLooks
  <2>4. CommandInv'
    BY <1>8 DEF CmdUnlinks, SleepTypeOK, UnitStates, ClientStates, MarkerInv, CommandInv, SuspendIsSecured, Shut, LockerActive
  <2>5. UNCHANGED <<slSystem, slSignals, slDaemon, slInhibitor, slSecured, slGuard>> /\ (slSeen => slSeen') /\ slSeen \in BOOLEAN
    BY <1>8 DEF CmdUnlinks, SleepTypeOK
  <2>6. SignalInv' /\ GuardInv'  BY <2>5, SignalsAlone
  <2>7. QED  BY <2>1, <2>2, <2>3, <2>4, <2>6
<1>9. CASE CmdStarts("startLast", "off")
  <2>1. SleepTypeOK'  BY <1>9 DEF CmdStarts, UnitRuns, LockerActive, SleepTypeOK, UnitStates, ClientStates, CommandPlaces
  <2>2. MarkerInv'  BY <1>9 DEF CmdStarts, UnitRuns, LockerActive, SleepTypeOK, UnitStates, ClientStates, MarkerInv, LockerActive
  <2>3. DaemonInv'
    BY <1>9 DEF CmdStarts, UnitRuns, LockerActive, SleepTypeOK, UnitStates, ClientStates, MarkerInv, DaemonInv, SecureIsTrue, Shut, LockerActive, DaemonLooks
  <2>4. CommandInv'
    BY <1>9 DEF CmdStarts, UnitRuns, LockerActive, SleepTypeOK, UnitStates, ClientStates, MarkerInv, CommandInv, SuspendIsSecured, Shut, LockerActive
  <2>5. UNCHANGED <<slSystem, slSignals, slDaemon, slInhibitor, slSecured, slGuard>> /\ (slSeen => slSeen') /\ slSeen \in BOOLEAN
    BY <1>9 DEF CmdStarts, UnitRuns, LockerActive, SleepTypeOK
  <2>6. SignalInv' /\ GuardInv'  BY <2>5, SignalsAlone
  <2>7. QED  BY <2>1, <2>2, <2>3, <2>4, <2>6
<1>10. QED  BY <1>1, <1>2, <1>3, <1>4, <1>5, <1>6, <1>7, <1>8, <1>9 DEF CommandMoves

\* However signals, lockers, the user, the daemon and the command interleave, "secure" is said of a locked session only, a sleep
\* that waits for the daemon comes after its decision, and an awake daemon holds its inhibitor (SleepLock).
THEOREM SleepIsSafe == SleepSpec => []SleepLockHolds
<1>1. SleepInv /\ [SleepNext]_sleepVars => SleepInv'
  <2> SUFFICES ASSUME SleepInv, [SleepNext]_sleepVars PROVE SleepInv'  OBVIOUS
  <2>1. CASE UNCHANGED sleepVars
    BY <2>1 DEF sleepVars, SleepInv, SleepTypeOK, UnitStates, ClientStates, MarkerInv, DaemonInv, CommandInv, SignalInv, GuardInv, SecureIsTrue, SuspendIsSecured,
                InhibitorBack, SleepIsGuarded, Listening, LastSignal, LockerActive, Shut
  <2>2. CASE SleepNext  BY <2>2, UnitStep, LogindStep, HandleStep, DaemonStep, CommandStep DEF SleepNext
  <2>3. QED  BY <2>1, <2>2
<1>2. SleepInv => SleepLockHolds
  BY DEF SleepInv, SleepLockHolds, MarkerInv, MarkerIsTrue, DaemonInv, CommandInv, GuardInv, SignalInv, LockerActive, SleepTypeOK
<1>3. QED  BY SleepStarts, <1>1, <1>2, PTL DEF SleepSpec

------------------------------------
(* InstallTree: invariant *)
TreePlaces == {"leaf", "remember", "copy", "undo", "restore", "dropNew", "dropOld", "dropHalf", "new", "old", "half", "killed"}
TreeEntries == [leaf : Leaves, saved : BOOLEAN]
TreeTypeOK ==
    /\ itOld \in SUBSET Leaves /\ itDisk \in [Leaves -> {"old", "new", "none"}] /\ itBackup \in SUBSET itOld
    /\ itReplaced \in Seq(TreeEntries) /\ itPc \in TreePlaces /\ itAt \in 1..MaxLeaves + 1
    /\ itTroubles \in Nat /\ itGap \in BOOLEAN

\* The transaction remembers the leaves in their order, and which of them it saved.
NotesInv == \A i \in 1..Len(itReplaced) : itReplaced[i].leaf = i /\ itReplaced[i].saved = (i \in itOld)
\* On the way forward: new before the present leaf, untouched after it, and nothing at it between the move and the copy.
ForwardInv ==
    itPc \in {"leaf", "remember", "copy"} =>
        /\ ~itGap /\ (itPc # "leaf" => itAt <= MaxLeaves)
        /\ Len(itReplaced) = IF itPc = "copy" THEN itAt ELSE itAt - 1
        /\ \A l \in Leaves :
              /\ l < itAt => itDisk[l] = "new" /\ (l \in itOld => l \in itBackup)
              /\ l > itAt \/ (l = itAt /\ itPc = "leaf") => itDisk[l] = Before(l) /\ l \notin itBackup
              /\ l = itAt /\ itPc # "leaf" => itDisk[l] = "none" /\ (l \in itOld => l \in itBackup)
\* On the way back: what is not remembered any more is as it was before.
BackwardInv ==
    itPc \in {"undo", "restore"} =>
        /\ itTroubles >= 1
        /\ itPc = "restore" => itReplaced # <<>>
        /\ ~itGap => /\ \A l \in Leaves : IF l <= Len(itReplaced) THEN l \in itOld => l \in itBackup
                                          ELSE itDisk[l] = Before(l) /\ l \notin itBackup
                     /\ itPc = "restore" => itDisk[Len(itReplaced)] = "none"
EndInv ==
    /\ itPc \in {"dropNew", "new"} => \A l \in Leaves : itDisk[l] = "new"
    /\ itPc \in {"dropOld", "old"} /\ ~itGap => \A l \in Leaves : itDisk[l] = Before(l)
    /\ itPc \in {"dropHalf", "half"} => itTroubles >= 2
TreeInv == TreeTypeOK /\ NotesInv /\ ForwardInv /\ BackwardInv /\ EndInv /\ NothingOldIsLost

------------------------------------
(* InstallTree: proofs *)
LEMMA TreeStarts == TreeInit => TreeInv
<1> SUFFICES ASSUME TreeInit PROVE TreeInv  OBVIOUS
<1>1. itReplaced \in Seq(TreeEntries) /\ Len(itReplaced) = 0  BY EmptySeq DEF TreeInit
<1>2. TreeTypeOK
  <2>1. itDisk \in [Leaves -> {"old", "new", "none"}]  BY DEF TreeInit, Before
  <2>2. itAt \in 1..MaxLeaves + 1  BY TreeAssumption DEF TreeInit
  <2>3. QED  BY <1>1, <2>1, <2>2 DEF TreeInit, TreeTypeOK, TreePlaces
<1>3. NotesInv /\ ForwardInv /\ BackwardInv /\ EndInv
  BY <1>1, <1>2, TreeAssumption DEF TreeInit, NotesInv, ForwardInv, BackwardInv, EndInv, Leaves
<1>4. NothingOldIsLost  BY DEF TreeInit, NothingOldIsLost, Before
<1>5. QED  BY <1>2, <1>3, <1>4 DEF TreeInv

LEMMA NumberedLeaves == Leaves \subseteq Int /\ \A l \in Leaves : 1 <= l /\ l <= MaxLeaves
BY TreeAssumption DEF Leaves

\* What every phase says of the old leaves.
LEMMA NoNoteLost ==
    ASSUME TreeTypeOK', ForwardInv', BackwardInv', EndInv', itPc' # "killed"
    PROVE  NothingOldIsLost'
<1> SUFFICES ASSUME itTroubles' <= 1, ~itGap', NEW l \in itOld'
             PROVE  itDisk'[l] = "old" \/ l \in itBackup' \/ \A k \in Leaves : itDisk'[k] = "new"
  <2>1. QED  BY Zenon DEF NothingOldIsLost, Leaves
<1>1. l \in Leaves /\ Before(l)' = "old" /\ l \in Int /\ itAt' \in Int /\ itTroubles' \in Nat
  BY NumberedLeaves, TreeAssumption DEF TreeTypeOK, Before, Leaves
<1>2. CASE itPc' \in {"leaf", "remember", "copy"}
  <2>1. /\ l < itAt' => l \in itBackup'
        /\ l > itAt' \/ (l = itAt' /\ itPc' = "leaf") => itDisk'[l] = "old"
        /\ l = itAt' /\ itPc' # "leaf" => l \in itBackup'
    BY <1>1, <1>2 DEF ForwardInv, Leaves, Before
  <2>2. l < itAt' \/ l > itAt' \/ l = itAt'  BY <1>1
  <2>3. QED  BY <2>1, <2>2
<1>3. CASE itPc' \in {"undo", "restore"}  BY <1>1, <1>3 DEF BackwardInv, Leaves, Before
<1>4. CASE itPc' \in {"dropNew", "new", "dropOld", "old"}  BY <1>1, <1>4 DEF EndInv, Leaves, Before
<1>5. CASE itPc' \in {"dropHalf", "half"}  BY <1>1, <1>5 DEF EndInv
<1>6. QED  BY <1>2, <1>3, <1>4, <1>5 DEF TreeTypeOK, TreePlaces

LEMMA ForwardStep ==
    ASSUME TreeInv, MoveAway \/ Remember \/ CopyLeaf \/ AllReplaced
    PROVE  TreeInv'
<1> USE DEF TreeInv
<1> USE NumberedLeaves, TreeAssumption
<1>1. Len(itReplaced) \in Nat /\ itAt \in Nat /\ itAt >= 1 /\ itReplaced \in Seq(TreeEntries)  BY LenProperties DEF TreeTypeOK
<1>2. CASE MoveAway
  <2>1. /\ itPc = "leaf" /\ itPc' = "remember" /\ itAt \in Leaves /\ itDisk[itAt] = Before(itAt)
        /\ UNCHANGED <<itOld, itReplaced, itAt, itTroubles, itGap>>
    BY <1>1, <1>2 DEF MoveAway, ForwardInv, Leaves
  <2>2. /\ itBackup' = itBackup \cup (itOld \cap {itAt})
        /\ itDisk' = [itDisk EXCEPT ![itAt] = "none"]
    BY <1>2, <2>1 DEF MoveAway, Before, TreeTypeOK
  <2>3. TreeTypeOK'  BY <2>1, <2>2 DEF TreeTypeOK, TreePlaces
  <2>4. ForwardInv'  BY <1>1, <2>1, <2>2 DEF ForwardInv, TreeTypeOK, Before
  <2>5. NotesInv' /\ BackwardInv' /\ EndInv'  BY <2>1 DEF NotesInv, BackwardInv, EndInv
  <2>6. QED  BY <2>1, <2>3, <2>4, <2>5, NoNoteLost
<1>3. CASE Remember
  <2> DEFINE e == [leaf |-> itAt, saved |-> itAt \in itBackup]
  <2>1. /\ itPc = "remember" /\ itPc' = "copy" /\ itAt \in Leaves /\ itReplaced' = Append(itReplaced, e)
        /\ UNCHANGED <<itOld, itDisk, itBackup, itAt, itTroubles, itGap>> /\ Len(itReplaced) = itAt - 1
    BY <1>1, <1>3 DEF Remember, ForwardInv, Leaves
  <2>2. e \in TreeEntries /\ e.leaf = itAt /\ e.saved = (itAt \in itOld)  BY <2>1 DEF TreeEntries, ForwardInv, TreeTypeOK
  <2> HIDE DEF e
  <2>3. /\ itReplaced' \in Seq(TreeEntries) /\ Len(itReplaced') = itAt
        /\ \A i \in 1..itAt : itReplaced'[i] = IF i < itAt THEN itReplaced[i] ELSE e
    BY <1>1, <2>1, <2>2, AppendProperties
  <2>4. TreeTypeOK'  BY <2>1, <2>3 DEF TreeTypeOK, TreePlaces
  <2>5. NotesInv'  BY <1>1, <2>1, <2>2, <2>3 DEF NotesInv
  <2>6. ForwardInv' /\ BackwardInv' /\ EndInv'  BY <1>1, <2>1, <2>3 DEF ForwardInv, BackwardInv, EndInv, Before
  <2>7. QED  BY <2>1, <2>4, <2>5, <2>6, NoNoteLost
<1>4. CASE CopyLeaf
  <2>1. /\ itPc = "copy" /\ itPc' = "leaf" /\ itAt \in Leaves /\ itAt' = itAt + 1 /\ itDisk' = [itDisk EXCEPT ![itAt] = "new"]
        /\ UNCHANGED <<itOld, itBackup, itReplaced, itTroubles, itGap>>
    BY <1>1, <1>4 DEF CopyLeaf, ForwardInv, Leaves
  <2>2. TreeTypeOK'  BY <1>1, <2>1 DEF TreeTypeOK, TreePlaces, Leaves
  <2>3. ForwardInv'  BY <1>1, <2>1 DEF ForwardInv, TreeTypeOK, Before
  <2>4. NotesInv' /\ BackwardInv' /\ EndInv'  BY <2>1 DEF NotesInv, BackwardInv, EndInv
  <2>5. QED  BY <2>1, <2>2, <2>3, <2>4, NoNoteLost
<1>5. CASE AllReplaced
  <2>1. /\ itPc = "leaf" /\ itPc' = "dropNew" /\ itAt > MaxLeaves
        /\ UNCHANGED <<itOld, itDisk, itBackup, itReplaced, itAt, itTroubles, itGap>>
    BY <1>5 DEF AllReplaced
  <2>2. TreeTypeOK' /\ NotesInv' /\ ForwardInv' /\ BackwardInv'
    BY <2>1 DEF TreeTypeOK, TreePlaces, NotesInv, ForwardInv, BackwardInv
  <2>3. EndInv'  BY <1>1, <2>1 DEF ForwardInv, EndInv
  <2>4. QED  BY <2>1, <2>2, <2>3, NoNoteLost
<1>6. QED  BY <1>2, <1>3, <1>4, <1>5

LEMMA BackwardStep ==
    ASSUME TreeInv, Trouble \/ Unlink \/ Restore \/ RolledBack \/ RollbackFails
    PROVE  TreeInv'
<1> USE DEF TreeInv
<1> USE NumberedLeaves, TreeAssumption
<1>1. Len(itReplaced) \in Nat /\ itAt \in Nat /\ itAt >= 1 /\ itReplaced \in Seq(TreeEntries) /\ itTroubles \in Nat
  BY LenProperties DEF TreeTypeOK
<1>2. CASE Trouble
  <2>1. /\ itPc \in {"leaf", "remember", "copy"} /\ itPc' = "undo" /\ itTroubles' = itTroubles + 1
        /\ itGap' = (itPc = "remember" /\ itAt \in itBackup)
        /\ UNCHANGED <<itOld, itDisk, itBackup, itReplaced, itAt>>
    BY <1>2 DEF Trouble
  <2>2. TreeTypeOK'  BY <2>1 DEF TreeTypeOK, TreePlaces
  <2>3. NotesInv' /\ ForwardInv' /\ EndInv'  BY <2>1 DEF NotesInv, ForwardInv, EndInv
  <2>4. BackwardInv'
    <3>1. ASSUME ~itGap', NEW l \in Leaves
          PROVE  IF l <= Len(itReplaced) THEN l \in itOld => l \in itBackup ELSE itDisk[l] = Before(l) /\ l \notin itBackup
      <4>1. itPc = "remember" => itAt \notin itBackup  BY <2>1, <3>1
      <4>2. QED  BY <1>1, <2>1, <3>1, <4>1 DEF ForwardInv, Before
    <3>2. QED  BY <1>1, <2>1, <3>1 DEF BackwardInv, Before
  <2>5. QED  BY <2>1, <2>2, <2>3, <2>4, NoNoteLost
<1>3. ASSUME itPc \in {"undo", "restore"}, itReplaced # <<>>
      PROVE  /\ Len(itReplaced) \in Leaves /\ LatestEntry.leaf = Len(itReplaced) /\ LatestEntry.saved = (Len(itReplaced) \in itOld)
  <2>1. Len(itReplaced) > 0  BY <1>1, <1>3, EmptySeq
  <2>2. LatestEntry \in TreeEntries  BY <1>1, <2>1, ElementOfSeq DEF LatestEntry
  <2>3. QED  BY <1>1, <2>1, <2>2 DEF NotesInv, LatestEntry, TreeEntries
<1>4. CASE Unlink
  <2>1. /\ itPc = "undo" /\ itPc' = "restore" /\ itReplaced # <<>> /\ itDisk' = [itDisk EXCEPT ![Len(itReplaced)] = "none"]
        /\ UNCHANGED <<itOld, itBackup, itReplaced, itAt, itTroubles, itGap>> /\ Len(itReplaced) \in Leaves
    BY <1>3, <1>4 DEF Unlink
  <2>2. TreeTypeOK'  BY <2>1 DEF TreeTypeOK, TreePlaces
  <2>3. NotesInv' /\ ForwardInv' /\ EndInv'  BY <2>1 DEF NotesInv, ForwardInv, EndInv
  <2>4. BackwardInv'  BY <1>1, <2>1 DEF BackwardInv, TreeTypeOK, Before
  <2>5. QED  BY <2>1, <2>2, <2>3, <2>4, NoNoteLost
<1>5. CASE Restore
  <2> DEFINE n == Len(itReplaced)
  <2>1. /\ itPc = "restore" /\ itPc' = "undo" /\ itReplaced # <<>> /\ n \in Leaves
        /\ UNCHANGED <<itOld, itAt, itTroubles, itGap>> /\ itReplaced' = SubSeq(itReplaced, 1, n - 1)
    BY <1>3, <1>5 DEF Restore, BackwardInv
  <2>2. IF n \in itOld THEN itDisk' = [itDisk EXCEPT ![n] = "old"] /\ itBackup' = itBackup \ {n} ELSE UNCHANGED <<itDisk, itBackup>>
    BY <1>3, <1>5, <2>1 DEF Restore
  <2>3. /\ itReplaced' \in Seq(TreeEntries) /\ Len(itReplaced') = n - 1
        /\ \A i \in 1..n - 1 : itReplaced'[i] = itReplaced[i]
    <3>1. n \in Nat /\ n >= 1 /\ n - 1 \in Int /\ 1 \in Int  BY <1>1, <2>1
    <3>2. \A i \in 1..n - 1 : itReplaced[i] \in TreeEntries  BY <1>1, <3>1, ElementOfSeq
    <3> HIDE DEF n
    <3>3. /\ SubSeq(itReplaced, 1, n - 1) \in Seq(TreeEntries)
          /\ Len(SubSeq(itReplaced, 1, n - 1)) = IF 1 <= n - 1 THEN (n - 1) - 1 + 1 ELSE 0
          /\ \A i \in 1..(n - 1) - 1 + 1 : SubSeq(itReplaced, 1, n - 1)[i] = itReplaced[1 + i - 1]
      BY <3>1, <3>2, SubSeqProperties
    <3>4. \A i \in 1..n - 1 : SubSeq(itReplaced, 1, n - 1)[i] = itReplaced[i]
      <4> SUFFICES ASSUME NEW i \in 1..n - 1 PROVE SubSeq(itReplaced, 1, n - 1)[i] = itReplaced[i]  OBVIOUS
      <4>1. i \in 1..(n - 1) - 1 + 1 /\ 1 + i - 1 = i  BY <3>1
      <4>2. QED  BY <3>3, <4>1
    <3>5. QED  BY <2>1, <3>1, <3>3, <3>4
  <2>4. TreeTypeOK'  BY <2>1, <2>2, <2>3 DEF TreeTypeOK, TreePlaces
  <2>5. NotesInv'  BY <1>1, <2>1, <2>3 DEF NotesInv
  <2>6. ForwardInv' /\ EndInv'  BY <2>1 DEF ForwardInv, EndInv
  <2>7. BackwardInv'  BY <1>1, <2>1, <2>2, <2>3 DEF BackwardInv, TreeTypeOK, Before
  <2>8. QED  BY <2>1, <2>4, <2>5, <2>6, <2>7, NoNoteLost
<1>6. CASE RolledBack
  <2>1. /\ itPc = "undo" /\ itPc' = "dropOld" /\ Len(itReplaced) = 0
        /\ UNCHANGED <<itOld, itDisk, itBackup, itReplaced, itAt, itTroubles, itGap>>
    BY <1>6, EmptySeq DEF RolledBack
  <2>2. TreeTypeOK' /\ NotesInv' /\ ForwardInv' /\ BackwardInv'
    BY <2>1 DEF TreeTypeOK, TreePlaces, NotesInv, ForwardInv, BackwardInv
  <2>3. EndInv'  BY <2>1 DEF BackwardInv, EndInv, Before
  <2>4. QED  BY <2>1, <2>2, <2>3, NoNoteLost
<1>7. CASE RollbackFails
  <2>1. /\ itPc \in {"undo", "restore"} /\ itPc' = "dropHalf" /\ itTroubles' = itTroubles + 1
        /\ UNCHANGED <<itOld, itDisk, itBackup, itReplaced, itAt, itGap>>
    BY <1>7 DEF RollbackFails
  <2>2. TreeTypeOK' /\ NotesInv' /\ ForwardInv' /\ BackwardInv'
    BY <1>1, <2>1 DEF TreeTypeOK, TreePlaces, NotesInv, ForwardInv, BackwardInv
  <2>3. EndInv'  BY <1>1, <2>1 DEF BackwardInv, EndInv
  <2>4. QED  BY <2>1, <2>2, <2>3, NoNoteLost
<1>8. QED  BY <1>2, <1>4, <1>5, <1>6, <1>7

LEMMA EndStep ==
    ASSUME TreeInv, DropBackup \/ TreeKilled
    PROVE  TreeInv'
<1> USE DEF TreeInv
<1>1. CASE DropBackup
  <2>1. /\ itPc \in {"dropNew", "dropOld", "dropHalf"}
        /\ UNCHANGED <<itOld, itDisk, itReplaced, itAt, itTroubles, itGap>> /\ itBackup' \subseteq itBackup
    BY <1>1 DEF DropBackup
  <2>2. itPc' = itPc \/ itPc' = (CASE itPc = "dropNew" -> "new" [] itPc = "dropOld" -> "old" [] OTHER -> "half")
    BY <1>1 DEF DropBackup
  <2>3. TreeTypeOK' /\ NotesInv' /\ ForwardInv' /\ BackwardInv'
    BY <2>1, <2>2 DEF TreeTypeOK, TreePlaces, NotesInv, ForwardInv, BackwardInv
  <2>4. EndInv'  BY <2>1, <2>2 DEF EndInv, Before
  <2>5. itPc' # "killed"  BY <2>1, <2>2
  <2>6. QED  BY <2>3, <2>4, <2>5, NoNoteLost
<1>2. CASE TreeKilled
  <2>1. itPc' = "killed" /\ UNCHANGED <<itOld, itDisk, itBackup, itReplaced, itAt, itTroubles, itGap>>  BY <1>2 DEF TreeKilled
  <2>2. TreeTypeOK' /\ NotesInv' /\ ForwardInv' /\ BackwardInv' /\ EndInv'
    BY <2>1 DEF TreeTypeOK, TreePlaces, NotesInv, ForwardInv, BackwardInv, EndInv
  <2>3. NothingOldIsLost'  BY <2>1 DEF NothingOldIsLost
  <2>4. QED  BY <2>2, <2>3
<1>3. QED  BY <1>1, <1>2

\* However many leaves there are and wherever an error, an interrupt or a kill comes: a transaction that ends leaves all of the new
\* tree or exactly the old one, and an old leaf is lost in the two cases of the code only (InstallTree).
THEOREM TreeIsSafe == TreeSpec => []TreeHolds
<1>1. TreeInv /\ [TreeNext]_treeVars => TreeInv'
  <2> SUFFICES ASSUME TreeInv, [TreeNext]_treeVars PROVE TreeInv'  OBVIOUS
  <2>1. CASE UNCHANGED treeVars
    BY <2>1 DEF treeVars, TreeInv, TreeTypeOK, NotesInv, ForwardInv, BackwardInv, EndInv, NothingOldIsLost, Before
  <2>2. CASE TreeNext  BY <2>2, ForwardStep, BackwardStep, EndStep DEF TreeNext
  <2>3. QED  BY <2>1, <2>2
<1>2. TreeInv => TreeHolds  BY DEF TreeInv, TreeHolds, TreeIsWhole, EndInv
<1>3. QED  BY TreeStarts, <1>1, <1>2, PTL DEF TreeSpec

------------------------------------
(* UpdateCoordinator: invariant *)
UpModes == {"shell", "compositor", "desktop", "system"}
RowStates == {"pending", "running", "completed", "cancelled", "failed"}
UpStatuses == {"running", "completed", "interrupted", "partial", "failed"}
RecordOf(mode) == [mode : {mode}, status : UpStatuses, rows : [StepsOf(mode) -> RowStates]]
UpRecords == UNION {RecordOf(mode) : mode \in UpModes}
RowPlaces == {"mark", "spawn", "wait", "drain", "record"}
UpPlaces == {"off", "anew", "begin", "next", "mark", "spawn", "wait", "drain", "record", "close", "final", "unwind"}
UpInstallers == [run : Nat, step : UpdateSteps, worker : BOOLEAN, holds : BOOLEAN]
UpTypeOK ==
    /\ upRec \in UpRecords \cup {NoRecord} /\ upPc \in UpPlaces
    /\ IF upPc = "off" THEN upData = NoRecord ELSE upData \in UpRecords /\ upAt \in Nat \ {0} /\ (upPc \in RowPlaces => RowsLeft)
    /\ upStopped \in BOOLEAN /\ upBad \in BOOLEAN /\ upCode \in {0, 1, 125}
    /\ upInstallers \in SUBSET UpInstallers
    /\ upRun \in Nat /\ upDirty \in SUBSET UpdateSteps /\ upLate \in Nat

\* The record, and the copy of it that is to be saved, are true of a step.
StepDone(s) == (s = "flatpak" /\ ~upFlatpak) \/ (s \notin upDirty /\ \A p \in upInstallers : p.step = s => p.run \in upKilled)
\* What runs belongs to the present row, or to a coordinator that was killed.
PeopleInv ==
    /\ \A p \in upInstallers : p.run <= upRun /\ (p.worker => p.holds)
    /\ \A p \in upInstallers : p.run # upRun => p.run \in upKilled /\ ~p.holds
    /\ \A p \in upInstallers : p.run = upRun => IF upPc = "off" THEN p.run \in upKilled ELSE upPc \in {"wait", "drain"} /\ p.step = RowNow
    /\ \A p \in upInstallers : p.run = upRun /\ upPc = "drain" => ~p.worker
    /\ \A p \in upInstallers : p.run = upRun /\ upRec # NoRecord => p.step \notin Completed(upRec)
    /\ \A p, q \in upInstallers : p.run = q.run => p.step = q.step
\* The copy runs ahead of the record from a change of it to its save.
CopyInv ==
    /\ upPc \in {"next", "spawn", "wait", "drain"} => upRec = upData
    /\ upPc \in {"mark", "spawn", "wait", "drain"} => upData.rows[RowNow] = "running"
    /\ upPc \notin {"off", "anew", "unwind"} => upKept \subseteq Completed(upData)
    /\ upPc = "anew" => Completed(upData) = {}
    /\ CompletedKept
TruthInv ==
    /\ upRec # NoRecord => \A s \in Completed(upRec) : StepDone(s)
    /\ upPc \notin {"off", "unwind"} => \A s \in Completed(upData) : StepDone(s)
    /\ upPc \in {"wait", "drain"} /\ RowNow \in upDirty => upBad \/ (upPc = "drain" /\ upCode # 0)
OrderInv ==
    /\ upPc \in {"anew", "begin"} => upAt = 1
    /\ upPc \in RowPlaces \cup {"next"} /\ upData.mode = "desktop" /\ upAt >= 2 => "shell" \in Completed(upData)
    /\ upLate <= 1
    /\ upLate = 1 => upStopped /\ upPc \notin {"mark", "spawn"}
UpInv == UpTypeOK /\ PeopleInv /\ CopyInv /\ TruthInv /\ OrderInv

------------------------------------
(* UpdateCoordinator: proofs *)
LEMMA WorkflowFacts ==
    /\ UpModes = DOMAIN Workflows
    /\ \A mode \in UpModes : /\ StepsOf(mode) \subseteq UpdateSteps /\ Len(Workflows[mode]) \in Nat
                             /\ \A i \in 1..Len(Workflows[mode]) : Workflows[mode][i] \in StepsOf(mode)
    /\ Len(Workflows["desktop"]) = 2 /\ Workflows["desktop"][1] = "shell" /\ Workflows["desktop"][2] = "compositor"
<1>1. Workflows["shell"] = <<"shell">> /\ Workflows["compositor"] = <<"compositor">>
      /\ Workflows["desktop"] = <<"shell", "compositor">> /\ Workflows["system"] = <<"packages", "flatpak">>
  BY DEF Workflows
<1>2. UpModes = DOMAIN Workflows  BY DEF Workflows, UpModes
<1>3. \A mode \in UpModes : Len(Workflows[mode]) \in {1, 2} /\ DOMAIN Workflows[mode] = 1..Len(Workflows[mode])
  <2>1. Len(<<"shell">>) = 1 /\ DOMAIN <<"shell">> = 1..1 /\ Len(<<"compositor">>) = 1 /\ DOMAIN <<"compositor">> = 1..1  OBVIOUS
  <2>2. /\ Len(<<"shell", "compositor">>) = 2 /\ DOMAIN <<"shell", "compositor">> = 1..2
        /\ Len(<<"packages", "flatpak">>) = 2 /\ DOMAIN <<"packages", "flatpak">> = 1..2
    OBVIOUS
  <2>3. QED  BY <1>1, <2>1, <2>2 DEF UpModes
<1>4. \A mode \in UpModes : StepsOf(mode) \subseteq UpdateSteps  BY <1>1, <1>3 DEF UpModes, StepsOf, UpdateSteps
<1>5. \A mode \in UpModes : \A i \in 1..Len(Workflows[mode]) : Workflows[mode][i] \in StepsOf(mode)  BY <1>3 DEF StepsOf
<1>6. QED  BY <1>1, <1>2, <1>3, <1>4, <1>5

LEMMA NoRecordIsNone == NoRecord \notin UpRecords
BY DEF NoRecord, UpRecords, RecordOf, UpModes

LEMMA RecordFacts ==
    ASSUME NEW r \in UpRecords
    PROVE  /\ r.mode \in UpModes /\ r.rows \in [StepsOf(r.mode) -> RowStates]
           /\ Completed(r) = {s \in StepsOf(r.mode) : r.rows[s] = "completed"} /\ Completed(r) \subseteq UpdateSteps
           /\ r # NoRecord
<1>1. PICK mode \in UpModes : r \in RecordOf(mode)  BY DEF UpRecords
<1>2. r.mode = mode /\ r.rows \in [StepsOf(mode) -> RowStates]  BY <1>1 DEF RecordOf
<1>3. QED  BY <1>2, WorkflowFacts, NoRecordIsNone DEF Completed

\* What a change of a row, or of the status, makes of a record.
LEMMA RowChanged ==
    ASSUME NEW r \in UpRecords, NEW s \in StepsOf(r.mode), NEW state \in RowStates
    PROVE  LET n == [r EXCEPT !.rows[s] = state] IN
           /\ n \in UpRecords /\ n.mode = r.mode /\ n.rows[s] = state
           /\ Completed(n) = IF state = "completed" THEN Completed(r) \cup {s} ELSE Completed(r) \ {s}
<1> DEFINE n == [r EXCEPT !.rows[s] = state]
<1>1. PICK mode \in UpModes : r \in RecordOf(mode)  BY DEF UpRecords
<1>2. r.mode = mode /\ r.rows \in [StepsOf(mode) -> RowStates]  BY <1>1 DEF RecordOf
<1>3. n \in RecordOf(mode) /\ n.mode = mode /\ n.rows = [r.rows EXCEPT ![s] = state]  BY <1>1, <1>2 DEF RecordOf
<1> HIDE DEF n
<1>4. n \in UpRecords  BY <1>1, <1>3 DEF UpRecords
<1>5. DOMAIN n.rows = DOMAIN r.rows /\ n.rows[s] = state /\ s \in DOMAIN r.rows /\ \A t \in DOMAIN r.rows : t # s => n.rows[t] = r.rows[t]
  BY <1>2, <1>3
<1>6. Completed(n) = IF state = "completed" THEN Completed(r) \cup {s} ELSE Completed(r) \ {s}  BY <1>5 DEF Completed
<1>7. QED  BY <1>2, <1>3, <1>4, <1>5, <1>6 DEF n

LEMMA StatusChanged ==
    ASSUME NEW r \in UpRecords, NEW status \in UpStatuses
    PROVE  LET n == [r EXCEPT !.status = status] IN
           n \in UpRecords /\ n.mode = r.mode /\ Completed(n) = Completed(r)
<1> DEFINE n == [r EXCEPT !.status = status]
<1>1. PICK mode \in UpModes : r \in RecordOf(mode)  BY DEF UpRecords
<1>2. n \in RecordOf(mode) /\ n.mode = r.mode /\ n.rows = r.rows  BY <1>1 DEF RecordOf
<1>3. QED  BY <1>1, <1>2 DEF UpRecords, Completed

LEMMA RowFacts ==
    ASSUME UpTypeOK, upPc # "off", RowsLeft
    PROVE  /\ RowNow \in StepsOf(upData.mode) /\ RowNow \in UpdateSteps
           /\ upData.mode = "desktop" => (RowNow = "compositor" => upAt = 2) /\ (upAt < 2 => RowNow = "shell")
<1>1. upData \in UpRecords /\ upAt \in Nat \ {0}  BY DEF UpTypeOK
<1>2. upAt \in 1..Len(Workflows[upData.mode]) /\ upData.mode \in UpModes  BY <1>1, RecordFacts, WorkflowFacts DEF RowsLeft
<1>3. RowNow \in StepsOf(upData.mode) /\ RowNow \in UpdateSteps  BY <1>2, WorkflowFacts DEF RowNow
<1>4. upData.mode = "desktop" => upAt = 1 \/ upAt = 2  BY <1>2, WorkflowFacts
<1>5. QED  BY <1>1, <1>3, <1>4, WorkflowFacts DEF RowNow

LEMMA UpdateStarts == UpdateInit => UpInv
<1> SUFFICES ASSUME UpdateInit PROVE UpInv  OBVIOUS
<1>1. UpTypeOK  BY DEF UpdateInit, UpTypeOK, UpPlaces
<1>2. PeopleInv /\ CopyInv /\ TruthInv /\ OrderInv
  BY DEF UpdateInit, PeopleInv, CopyInv, TruthInv, OrderInv, CompletedKept, RowPlaces
<1>3. QED  BY <1>1, <1>2 DEF UpInv

\* What the parts say of a state in which the coordinator runs.
LEMMA CopyRuns ==
    ASSUME UpTypeOK, upPc # "off"
    PROVE  upData \in UpRecords /\ upData # NoRecord /\ Completed(upData) \subseteq UpdateSteps /\ upData.mode \in UpModes
BY RecordFacts DEF UpTypeOK

LEMMA BeginStep ==
    ASSUME UpInv, StartUpdate \/ RetryUpdate
    PROVE  UpInv'
<1> USE DEF UpInv
<1>1. ASSUME NEW mode \in UpModes, NEW done \in SUBSET UpdateSteps, NEW fresh \in BOOLEAN, WorkflowBegins(mode, done, fresh),
             fresh => done = {}, ~fresh => upRec \in UpRecords /\ upRec.mode = mode /\ done = Completed(upRec)
      PROVE  UpInv'
  <2>1. /\ upPc = "off" /\ upRun' = upRun + 1 /\ upAt' = 1 /\ upStopped' = FALSE /\ upCode' = 0 /\ upBad' = FALSE /\ upLate' = 0
        /\ UNCHANGED <<upRec, upInstallers, upFlatpak, upKilled, upDirty, upKept>> /\ \A p \in upInstallers : ~p.holds
        /\ upPc' = IF fresh THEN "anew" ELSE "begin"
    BY <1>1 DEF WorkflowBegins, UpdateLocked
  <2>2. /\ upData' \in UpRecords /\ upData'.mode = mode
        /\ Completed(upData') = StepsOf(mode) \cap done
    <3> DEFINE rows == [s \in StepsOf(mode) |-> IF s \in done THEN "completed" ELSE "pending"]
    <3>1. rows \in [StepsOf(mode) -> RowStates] /\ DOMAIN rows = StepsOf(mode)
          /\ \A s \in StepsOf(mode) : (rows[s] = "completed") = (s \in done)
      BY DEF RowStates
    <3>2. upData' = [mode |-> mode, status |-> "running", rows |-> rows]  BY <1>1 DEF WorkflowBegins
    <3> HIDE DEF rows
    <3>3. upData' \in RecordOf(mode) /\ upData'.mode = mode /\ upData'.rows = rows  BY <3>1, <3>2 DEF RecordOf, UpStatuses
    <3>4. upData' \in UpRecords  BY <3>3 DEF UpRecords
    <3>5. QED  BY <3>1, <3>3, <3>4 DEF Completed
  <2>3. Completed(upData') = done /\ done = IF fresh THEN {} ELSE upKept
    <3>1. CASE fresh  BY <1>1, <2>2, <3>1
    <3>2. CASE ~fresh  BY <1>1, <2>2, <3>2, RecordFacts DEF CopyInv, CompletedKept
    <3>3. QED  BY <3>1, <3>2
  <2>4. upRun \in Nat /\ upInstallers \in SUBSET UpInstallers  BY DEF UpTypeOK
  <2>5. UpTypeOK'
    <3>1. upPc' \in {"anew", "begin"} /\ upPc' \in UpPlaces /\ upPc' # "off" /\ upPc' \notin RowPlaces
      BY <2>1 DEF UpPlaces, RowPlaces
    <3>2. upRec' \in UpRecords \cup {NoRecord} /\ upInstallers' \in SUBSET UpInstallers /\ upDirty' \in SUBSET UpdateSteps
      BY <2>1 DEF UpTypeOK
    <3>3. upAt' \in Nat \ {0} /\ upCode' \in {0, 1, 125} /\ upRun' \in Nat /\ upLate' \in Nat  BY <2>1, <2>4
    <3>4. upStopped' \in BOOLEAN /\ upBad' \in BOOLEAN  BY <2>1
    <3>5. QED  BY <2>2, <3>1, <3>2, <3>3, <3>4 DEF UpTypeOK
  <2>6. \A p \in upInstallers : p.run # upRun' /\ p.run \in upKilled  BY <2>1, <2>4 DEF PeopleInv, UpInstallers
  <2>7. PeopleInv'
    <3>1. \A p \in upInstallers : p.run <= upRun' /\ ~p.worker  BY <2>1, <2>4 DEF PeopleInv, UpInstallers
    <3>2. QED  BY <2>1, <2>6, <3>1 DEF PeopleInv
  <2>8. CopyInv'  BY <2>1, <2>3 DEF CopyInv, CompletedKept, Completed
  <2>9. TruthInv'
    <3>1. \A s : StepDone(s)' = StepDone(s)  BY <2>1 DEF StepDone
    <3>2. upRec # NoRecord => \A s \in Completed(upRec) : StepDone(s)  BY DEF TruthInv
    <3>3. \A s \in Completed(upData') : StepDone(s)  BY <1>1, <2>3, <3>2, RecordFacts
    <3>4. Completed(upRec)' = Completed(upRec) /\ Completed(upData)' = Completed(upData')  BY <2>1 DEF Completed
    <3>5. QED  BY <2>1, <3>1, <3>2, <3>3, <3>4 DEF TruthInv
  <2>10. OrderInv'  BY <2>1 DEF OrderInv, RowPlaces
  <2>11. QED  BY <2>5, <2>7, <2>8, <2>9, <2>10
<1>2. CASE StartUpdate
  <2>1. PICK mode \in UpModes : WorkflowBegins(mode, {}, TRUE)  BY <1>2, WorkflowFacts DEF StartUpdate
  <2>2. QED  BY <1>1, <2>1
<1>3. CASE RetryUpdate
  <2>1. upRec \in UpRecords /\ WorkflowBegins(upRec.mode, Completed(upRec), FALSE)  BY <1>3 DEF RetryUpdate, Retried, UpTypeOK
  <2>2. QED  BY <1>1, <2>1, RecordFacts
<1>4. QED  BY <1>2, <1>3

LEMMA SaveStep ==
    ASSUME UpInv, FirstSave \/ MarkRow \/ RecordRow \/ FinalSave
    PROVE  UpInv'
<1> USE DEF UpInv
<1> DEFINE next == IF upPc \in {"begin", "anew"} THEN "next" ELSE IF upPc = "mark" THEN "spawn"
                   ELSE IF upPc = "final" THEN "unwind"
                   ELSE IF upData.rows[RowNow] # "completed" /\ upData.mode # "system" THEN "close" ELSE "next"
<1>1. /\ upPc \in {"begin", "anew", "mark", "record", "final"} /\ SavedThen(next)
      /\ upAt' = IF upPc = "record" THEN upAt + 1 ELSE upAt
  BY DEF FirstSave, MarkRow, RecordRow, FinalSave
<1>2. /\ UNCHANGED <<upData, upStopped, upCode, upBad, upInstallers, upFlatpak, upRun, upKilled, upLate>>
      /\ \/ /\ upRec' = upData /\ upPc' = next /\ upKept' = (IF upPc = "anew" THEN {} ELSE upKept) \cup Completed(upData)
            /\ upDirty' = IF upPc = "anew" THEN {} ELSE upDirty
         \/ upPc' = "unwind" /\ UNCHANGED <<upRec, upKept, upDirty>>
  BY <1>1 DEF SavedThen
<1>3. /\ upPc' \in {"next", "spawn", "close", "unwind"} /\ (upPc' = "spawn" => upPc = "mark")
      /\ upPc' = "close" => upPc = "record"
      /\ upPc = "record" /\ upPc' = "next" => upData.rows[RowNow] = "completed" \/ upData.mode = "system"
  BY <1>1, <1>2
<1>4. upData \in UpRecords /\ upData # NoRecord /\ Completed(upData) \subseteq UpdateSteps /\ upAt \in Nat \ {0}
  BY <1>1, CopyRuns DEF UpTypeOK
<1>5. Completed(upData)' = Completed(upData) /\ Mine = {} /\ \A p \in upInstallers : p.run \in upKilled
  BY <1>1, <1>2 DEF Completed, PeopleInv, Mine
<1> HIDE DEF next
<1>6. UpTypeOK'
  <2>1. upRec' \in UpRecords \cup {NoRecord} /\ upDirty' \in SUBSET UpdateSteps  BY <1>2, <1>4 DEF UpTypeOK
  <2>2. upAt' \in Nat \ {0}  BY <1>1, <1>4
  <2>3. upPc' \in UpPlaces /\ upPc' # "off" /\ (upPc' \in RowPlaces => RowsLeft')
    <3>1. CASE upPc' = "spawn"  BY <1>1, <1>2, <1>3, <3>1 DEF UpTypeOK, RowPlaces, UpPlaces, RowsLeft
    <3>2. CASE upPc' # "spawn"  BY <1>3, <3>2 DEF RowPlaces, UpPlaces
    <3>3. QED  BY <3>1, <3>2
  <2>4. QED  BY <1>2, <1>4, <2>1, <2>2, <2>3 DEF UpTypeOK
<1>7. PeopleInv'
  <2>1. \A p \in upInstallers : p.run # upRun  BY <1>5 DEF Mine
  <2>2. QED  BY <1>2, <2>1 DEF PeopleInv
<1>8. CopyInv'
  <2>1. CASE upRec' = upData /\ upPc' = next /\ upKept' = (IF upPc = "anew" THEN {} ELSE upKept) \cup Completed(upData)
    <3>1. upKept' = Completed(upData)  BY <1>1, <2>1 DEF CopyInv
    <3>2. Completed(upRec)' = Completed(upData)  BY <2>1 DEF Completed
    <3>3. upPc' = "spawn" => upData'.rows[RowNow'] = "running"  BY <1>1, <1>2, <1>3 DEF CopyInv, RowNow
    <3>4. QED  BY <1>2, <1>3, <1>4, <1>5, <2>1, <3>1, <3>2, <3>3 DEF CopyInv, CompletedKept
  <2>2. CASE upPc' = "unwind" /\ UNCHANGED <<upRec, upKept, upDirty>>  BY <2>2 DEF CopyInv, CompletedKept, Completed
  <2>3. QED  BY <1>2, <2>1, <2>2
<1>9. TruthInv'
  <2>1. \A s : StepDone(s) => StepDone(s)'  BY <1>2 DEF StepDone
  <2>2. \A s \in Completed(upData) : StepDone(s)'  BY <1>1, <2>1 DEF TruthInv
  <2>3. upRec' # NoRecord => \A s \in Completed(upRec)' : StepDone(s)'
    <3>1. Completed(upRec)' = Completed(upData) \/ (UNCHANGED upRec /\ Completed(upRec)' = Completed(upRec))  BY <1>2 DEF Completed
    <3>2. QED  BY <2>1, <2>2, <3>1 DEF TruthInv
  <2>4. upPc' \notin {"wait", "drain"}  BY <1>3
  <2>5. QED  BY <1>5, <2>2, <2>3, <2>4 DEF TruthInv
<1>10. OrderInv'
  <2>1. upLate \in Nat  BY DEF UpTypeOK
  <2>2. upLate' <= 1 /\ (upLate' = 1 => upStopped' /\ upPc' \notin {"mark", "spawn"})  BY <1>1, <1>2, <1>3 DEF OrderInv
  <2>3. ASSUME upPc' \in RowPlaces \cup {"next"}, upData'.mode = "desktop", upAt' >= 2
        PROVE  "shell" \in Completed(upData)'
    <3>1. upPc' \in {"next", "spawn"} /\ upData.mode = "desktop"  BY <1>2, <1>3, <2>3 DEF RowPlaces
    <3>2. CASE upPc = "record"
      <4>1. upData.rows[RowNow] = "completed" /\ RowsLeft /\ upPc' = "next"  BY <1>3, <3>1, <3>2 DEF UpTypeOK, RowPlaces
      <4>2. RowNow \in Completed(upData)  BY <1>4, <3>2, <4>1, RowFacts, RecordFacts
      <4>3. upAt < 2 => RowNow = "shell"  BY <3>1, <3>2, <4>1, RowFacts
      <4>4. upAt >= 2 => "shell" \in Completed(upData)  BY <3>1, <3>2 DEF OrderInv, RowPlaces
      <4>5. QED  BY <1>4, <1>5, <4>2, <4>3, <4>4
    <3>3. CASE upPc \in {"begin", "anew"}  BY <1>1, <2>3, <3>3 DEF OrderInv
    <3>4. CASE upPc = "mark"  BY <1>1, <1>5, <2>3, <3>1, <3>4 DEF OrderInv, RowPlaces
    <3>5. QED  BY <1>1, <1>2, <3>1, <3>2, <3>3, <3>4 DEF next
  <2>4. QED  BY <1>3, <2>2, <2>3 DEF OrderInv
<1>11. QED  BY <1>6, <1>7, <1>8, <1>9, <1>10

\* A change of the copy that keeps its mode keeps the rows and the present row.
LEMMA SameRow ==
    ASSUME upData'.mode = upData.mode, upAt' = upAt
    PROVE  RowNow' = RowNow /\ RowsLeft' = RowsLeft
BY DEF RowNow, RowsLeft

LEMMA RowStep ==
    ASSUME UpInv, SkipRow \/ TakeRow \/ SpawnFails \/ JudgeRow \/ RowsOver \/ Close
    PROVE  UpInv'
<1> USE DEF UpInv
<1>1. /\ upPc \in {"next", "spawn", "drain", "close"} /\ (upPc = "drain" => Mine = {})
      /\ UNCHANGED <<upRec, upStopped, upInstallers, upFlatpak, upRun, upKilled, upDirty, upKept, upLate>>
      /\ upPc' \in {"next", "mark", "drain", "record", "close", "final"}
  BY DEF SkipRow, TakeRow, SpawnFails, JudgeRow, RowsOver, Close, upHistory, NoneLeft
<1>2. upData \in UpRecords /\ upAt \in Nat \ {0} /\ (upPc # "close" /\ upPc # "next" => RowsLeft)  BY <1>1 DEF UpTypeOK, RowPlaces
<1>3. RowsLeft => RowNow \in StepsOf(upData.mode) /\ RowNow \in UpdateSteps  BY <1>1, RowFacts
<1>4. \A p \in upInstallers : p.run # upRun /\ p.run \in upKilled  BY <1>1 DEF PeopleInv, Mine
<1>5. PeopleInv'  BY <1>1, <1>4 DEF PeopleInv, Completed
<1>6. ASSUME upData' \in UpRecords, upData'.mode = upData.mode, upAt' \in Nat \ {0}, upCode' \in {0, 1, 125}, upBad' \in BOOLEAN,
             upPc' \in RowPlaces => RowsLeft'
      PROVE  UpTypeOK'
  BY <1>1, <1>6 DEF UpTypeOK, UpPlaces
<1>7. \A s : StepDone(s)' = StepDone(s)  BY <1>1 DEF StepDone
<1>8. ASSUME Completed(upData) \subseteq Completed(upData)', \A s \in Completed(upData)' \ Completed(upData) : StepDone(s),
             upPc' \in {"wait", "drain"} /\ RowNow' \in upDirty => upBad' \/ (upPc' = "drain" /\ upCode' # 0)
      PROVE  TruthInv'
  BY <1>1, <1>7, <1>8 DEF TruthInv, Completed
<1>9. upKept \subseteq Completed(upData) /\ CompletedKept'  BY <1>1 DEF CopyInv, CompletedKept, Completed
<1>10. CASE SkipRow
  <2>1. upPc = "next" /\ RowsLeft /\ upData.rows[RowNow] = "completed" /\ upAt' = upAt + 1 /\ UNCHANGED <<upData, upPc, upCode, upBad>>
    BY <1>10 DEF SkipRow
  <2>2. UpTypeOK'
    <3>1. upAt' \in Nat \ {0}  BY <1>2, <2>1
    <3>2. upPc' \notin RowPlaces /\ upCode' \in {0, 1, 125} /\ upBad' \in BOOLEAN  BY <2>1 DEF RowPlaces, UpTypeOK
    <3>3. QED  BY <1>2, <1>6, <2>1, <3>1, <3>2
  <2>3. Completed(upData)' = Completed(upData)  BY <2>1 DEF Completed
  <2>4. CopyInv' /\ TruthInv'  BY <1>1, <1>8, <1>9, <2>1, <2>3 DEF CopyInv
  <2>5. OrderInv'
    <3>1. RowNow \in Completed(upData)  BY <1>2, <1>3, <2>1, RecordFacts
    <3>2. upData.mode = "desktop" /\ upAt < 2 => RowNow = "shell"  BY <2>1, RowFacts
    <3>3. QED  BY <1>1, <1>2, <2>1, <2>3, <3>1, <3>2 DEF OrderInv, RowPlaces
  <2>6. QED  BY <1>5, <2>2, <2>4, <2>5
<1>11. CASE TakeRow
  <2> DEFINE state == IF RowNow = "flatpak" /\ ~upFlatpak THEN "completed" ELSE "running"
  <2>1. /\ upPc = "next" /\ RowsLeft /\ upData.rows[RowNow] # "completed" /\ ~upStopped /\ upData' = RowBecomes(state)
        /\ upPc' = (IF state = "completed" THEN "record" ELSE "mark") /\ UNCHANGED <<upAt, upCode, upBad>>
    BY <1>11 DEF TakeRow, MayBegin
  <2>2. state \in {"completed", "running"} /\ state \in RowStates /\ (state = "completed" => StepDone(RowNow))
    BY DEF StepDone, RowStates
  <2> HIDE DEF state
  <2>3. /\ upData' \in UpRecords /\ upData'.mode = upData.mode /\ upData'.rows[RowNow] = state
        /\ Completed(upData') = IF state = "completed" THEN Completed(upData) \cup {RowNow} ELSE Completed(upData) \ {RowNow}
    <3>1. RowNow \in StepsOf(upData.mode) /\ upData' = [upData EXCEPT !.rows[RowNow] = state]  BY <1>3, <2>1 DEF RowBecomes
    <3> DEFINE n == [upData EXCEPT !.rows[RowNow] = state]
    <3>2. /\ n \in UpRecords /\ n.mode = upData.mode /\ n.rows[RowNow] = state
          /\ Completed(n) = IF state = "completed" THEN Completed(upData) \cup {RowNow} ELSE Completed(upData) \ {RowNow}
      BY <1>2, <2>2, <3>1, RowChanged, Zenon
    <3> HIDE DEF n
    <3>3. upData' = n  BY <3>1 DEF n
    <3>4. QED  BY <3>2, <3>3
  <2>4. RowNow \notin Completed(upData)  BY <1>2, <2>1, RecordFacts
  <2>5. Completed(upData)' = IF state = "completed" THEN Completed(upData) \cup {RowNow} ELSE Completed(upData)
    BY <2>3, <2>4 DEF Completed
  <2>6. RowNow' = RowNow /\ RowsLeft'  BY <2>1, <2>3, SameRow
  <2>7. UpTypeOK'
    <3>1. upAt' \in Nat \ {0} /\ upCode' \in {0, 1, 125} /\ upBad' \in BOOLEAN  BY <1>2, <2>1 DEF UpTypeOK
    <3>2. QED  BY <1>6, <2>3, <2>6, <3>1
  <2>8. TruthInv'  BY <1>8, <2>1, <2>5, <2>2
  <2>9. CopyInv'  BY <1>1, <1>9, <2>1, <2>3, <2>5, <2>6, <2>2 DEF CopyInv
  <2>10. OrderInv'  BY <1>1, <1>2, <2>1, <2>3, <2>5 DEF OrderInv, RowPlaces
  <2>11. QED  BY <1>5, <2>7, <2>8, <2>9, <2>10
<1>12. CASE SpawnFails
  <2>1. upPc = "spawn" /\ upPc' = "drain" /\ upCode' = 1 /\ UNCHANGED <<upData, upAt, upBad>>  BY <1>12 DEF SpawnFails
  <2>2. RowNow' = RowNow /\ RowsLeft' = RowsLeft /\ Completed(upData)' = Completed(upData)  BY <2>1, SameRow DEF Completed
  <2>3. UpTypeOK'
    <3>1. upAt' \in Nat \ {0} /\ upCode' \in {0, 1, 125} /\ upBad' \in BOOLEAN  BY <1>2, <2>1 DEF UpTypeOK
    <3>2. QED  BY <1>2, <1>6, <2>1, <2>2, <3>1
  <2>4. TruthInv'  BY <1>8, <2>1, <2>2
  <2>5. CopyInv'  BY <1>1, <1>9, <2>1, <2>2 DEF CopyInv
  <2>6. OrderInv'  BY <1>1, <2>1, <2>2 DEF OrderInv, RowPlaces
  <2>7. QED  BY <1>5, <2>3, <2>4, <2>5, <2>6
<1>13. CASE JudgeRow
  <2>1. /\ upPc = "drain" /\ upPc' = "record" /\ upBad' = FALSE /\ upData' = RowBecomes(Verdict) /\ UNCHANGED <<upAt, upCode>>
        /\ upData.rows[RowNow] = "running" /\ RowsLeft
    BY <1>13 DEF JudgeRow, CopyInv, UpTypeOK, RowPlaces
  <2>2. Verdict \in RowStates /\ (Verdict = "completed" => upCode = 0 /\ ~upBad)  BY DEF Verdict, RowStates
  <2>3. /\ upData' \in UpRecords /\ upData'.mode = upData.mode
        /\ Completed(upData') = IF Verdict = "completed" THEN Completed(upData) \cup {RowNow} ELSE Completed(upData) \ {RowNow}
    BY <1>2, <1>3, <2>1, <2>2, RowChanged DEF RowBecomes
  <2>4. RowNow \notin Completed(upData)  BY <1>2, <2>1, RecordFacts
  <2>5. Completed(upData)' = IF Verdict = "completed" THEN Completed(upData) \cup {RowNow} ELSE Completed(upData)
    BY <2>3, <2>4 DEF Completed
  <2>6. RowNow' = RowNow /\ RowsLeft'  BY <2>1, <2>3, SameRow
  <2>7. Verdict = "completed" => StepDone(RowNow)  BY <1>4, <2>1, <2>2 DEF StepDone, TruthInv
  <2>8. UpTypeOK'
    <3>1. upAt' \in Nat \ {0} /\ upCode' \in {0, 1, 125} /\ upBad' \in BOOLEAN  BY <1>2, <2>1 DEF UpTypeOK
    <3>2. QED  BY <1>6, <2>3, <2>6, <3>1
  <2>9. TruthInv'  BY <1>8, <2>1, <2>5, <2>7
  <2>10. CopyInv'  BY <1>1, <1>9, <2>1, <2>5 DEF CopyInv
  <2>11. OrderInv'  BY <1>1, <2>1, <2>3, <2>5 DEF OrderInv, RowPlaces
  <2>12. QED  BY <1>5, <2>8, <2>9, <2>10, <2>11
<1>14. CASE RowsOver
  <2>1. upPc = "next" /\ upPc' = "close" /\ UNCHANGED <<upData, upAt, upCode, upBad>>  BY <1>14 DEF RowsOver
  <2>2. Completed(upData)' = Completed(upData)  BY <2>1 DEF Completed
  <2>3. UpTypeOK'  BY <1>2, <1>6, <2>1 DEF UpTypeOK, RowPlaces
  <2>4. TruthInv' /\ CopyInv'  BY <1>1, <1>8, <1>9, <2>1, <2>2 DEF CopyInv
  <2>5. OrderInv'  BY <1>1, <2>1, <2>2 DEF OrderInv, RowPlaces
  <2>6. QED  BY <1>5, <2>3, <2>4, <2>5
<1>15. CASE Close
  <2>1. upPc = "close" /\ upPc' = "final" /\ upData' = [upData EXCEPT !.status = Conclusion] /\ UNCHANGED <<upAt, upCode, upBad>>
    BY <1>15 DEF Close
  <2>2. Conclusion \in UpStatuses  BY DEF Conclusion, UpStatuses
  <2>3. upData' \in UpRecords /\ upData'.mode = upData.mode /\ Completed(upData)' = Completed(upData)
    BY <1>2, <2>1, <2>2, StatusChanged DEF Completed
  <2>4. UpTypeOK'  BY <1>2, <1>6, <2>1, <2>3 DEF UpTypeOK, RowPlaces
  <2>5. TruthInv' /\ CopyInv'  BY <1>1, <1>8, <1>9, <2>1, <2>3 DEF CopyInv
  <2>6. OrderInv'  BY <1>1, <2>1, <2>3 DEF OrderInv, RowPlaces
  <2>7. QED  BY <1>5, <2>4, <2>5, <2>6
<1>16. QED  BY <1>10, <1>11, <1>12, <1>13, <1>14, <1>15

LEMMA PlainStep ==
    ASSUME UpInv, Spawn \/ Unwind \/ StopAsked \/ CoordinatorKilled \/ \E p \in upInstallers : GoesThroughSudo(p)
    PROVE  UpInv'
<1> USE DEF UpInv
<1>1. CASE Spawn
  <2> DEFINE e == [run |-> upRun, step |-> RowNow, worker |-> TRUE, holds |-> TRUE]
  <2>1. /\ upPc = "spawn" /\ upPc' = "wait" /\ upInstallers' = upInstallers \cup {e} /\ upDirty' = upDirty \ {RowNow}
        /\ upLate' = upLate + (IF upStopped THEN 1 ELSE 0)
        /\ UNCHANGED <<upRec, upData, upAt, upStopped, upCode, upBad, upFlatpak, upRun, upKilled, upKept>>
    BY <1>1 DEF Spawn
  <2>2. /\ upData \in UpRecords /\ upAt \in Nat \ {0} /\ RowsLeft /\ RowNow \in UpdateSteps /\ RowNow \in StepsOf(upData.mode)
        /\ upRun \in Nat /\ upLate \in Nat /\ upRec = upData /\ upData.rows[RowNow] = "running"
    BY <2>1, RowFacts DEF UpTypeOK, RowPlaces, CopyInv
  <2>3. e \in UpInstallers /\ e.run = upRun /\ e.step = RowNow /\ e.worker /\ e.holds  BY <2>2 DEF UpInstallers
  <2> HIDE DEF e
  <2>4. RowNow' = RowNow /\ RowsLeft' /\ Completed(upData)' = Completed(upData) /\ Completed(upRec)' = Completed(upRec)
    BY <2>1, <2>2 DEF RowNow, RowsLeft, Completed
  <2>5. RowNow \notin Completed(upData)  BY <2>2, RecordFacts
  <2>6. \A p \in upInstallers : p.run # upRun  BY <2>1 DEF PeopleInv
  <2>7. UpTypeOK'
    <3>1. upLate' \in Nat  BY <2>1, <2>2
    <3>2. upInstallers' \in SUBSET UpInstallers /\ upDirty' \in SUBSET UpdateSteps  BY <2>1, <2>3 DEF UpTypeOK
    <3>3. QED  BY <2>1, <2>2, <2>4, <3>1, <3>2 DEF UpTypeOK, UpPlaces
  <2>8. PeopleInv'
    <3>1. \A p \in upInstallers' : p = e \/ p \in upInstallers  BY <2>1
    <3>2. \A p \in upInstallers' : p.run <= upRun /\ (p.worker => p.holds)  BY <2>2, <2>3, <3>1 DEF PeopleInv
    <3>3. \A p \in upInstallers' : p.run = upRun => p = e  BY <2>6, <3>1
    <3>4. \A p \in upInstallers' : p.run # upRun => p.run \in upKilled /\ ~p.holds  BY <2>3, <3>1 DEF PeopleInv
    <3>5. \A p, q \in upInstallers' : p.run = q.run => p.step = q.step  BY <2>3, <2>6, <3>1 DEF PeopleInv
    <3>6. QED  BY <2>1, <2>2, <2>3, <2>4, <2>5, <3>2, <3>3, <3>4, <3>5 DEF PeopleInv
  <2>9. TruthInv'
    <3>1. \A s \in Completed(upData) : StepDone(s)'  BY <2>1, <2>3, <2>5 DEF TruthInv, StepDone
    <3>2. QED  BY <2>1, <2>2, <2>4, <3>1 DEF TruthInv
  <2>10. CopyInv'  BY <2>1, <2>2, <2>4 DEF CopyInv, CompletedKept
  <2>11. OrderInv'
    <3>1. upLate # 1  BY <2>1 DEF OrderInv
    <3>2. upLate' <= 1 /\ (upLate' = 1 => upStopped)  BY <2>1, <2>2, <3>1 DEF OrderInv
    <3>3. QED  BY <2>1, <2>4, <3>2 DEF OrderInv, RowPlaces
  <2>12. QED  BY <2>7, <2>8, <2>9, <2>10, <2>11
<1>2. CASE Unwind
  <2>1. /\ upPc = "unwind" /\ upPc' = "off" /\ upData' = NoRecord /\ upAt' = 0 /\ \A p \in upInstallers : p.run # upRun
        /\ UNCHANGED <<upRec, upStopped, upCode, upBad, upInstallers, upFlatpak, upRun, upKilled, upDirty, upKept, upLate>>
    BY <1>2 DEF Unwind, upHistory, NoneLeft, Mine
  <2>2. UpTypeOK'  BY <2>1 DEF UpTypeOK, UpPlaces
  <2>3. PeopleInv'  BY <2>1 DEF PeopleInv, Completed
  <2>4. CopyInv' /\ TruthInv' /\ OrderInv'  BY <2>1 DEF CopyInv, CompletedKept, TruthInv, OrderInv, StepDone, Completed, RowPlaces
  <2>5. QED  BY <2>2, <2>3, <2>4
<1>3. CASE StopAsked
  <2>1. /\ upPc \notin {"off", "begin", "anew"} /\ upStopped' = TRUE
        /\ UNCHANGED <<upRec, upData, upPc, upAt, upCode, upBad, upInstallers, upFlatpak, upRun, upKilled, upDirty, upKept, upLate>>
    BY <1>3 DEF StopAsked, upHistory
  <2>2. UpTypeOK'  BY <2>1 DEF UpTypeOK, RowsLeft
  <2>3. PeopleInv' /\ CopyInv' /\ TruthInv'  BY <2>1 DEF PeopleInv, CopyInv, CompletedKept, TruthInv, StepDone, Completed, RowNow
  <2>4. OrderInv'  BY <2>1 DEF OrderInv, Completed
  <2>5. QED  BY <2>2, <2>3, <2>4
<1>4. CASE CoordinatorKilled
  <2>1. /\ upPc # "off" /\ upPc' = "off" /\ upData' = NoRecord /\ upAt' = 0 /\ upKilled' = upKilled \cup {upRun}
        /\ UNCHANGED <<upRec, upStopped, upCode, upBad, upInstallers, upFlatpak, upRun, upDirty, upKept, upLate>>
    BY <1>4 DEF CoordinatorKilled
  <2>2. UpTypeOK'  BY <2>1 DEF UpTypeOK, UpPlaces
  <2>3. PeopleInv'  BY <2>1 DEF PeopleInv, Completed
  <2>4. CopyInv' /\ TruthInv' /\ OrderInv'  BY <2>1 DEF CopyInv, CompletedKept, TruthInv, OrderInv, StepDone, Completed, RowPlaces
  <2>5. QED  BY <2>2, <2>3, <2>4
<1>5. ASSUME NEW p \in upInstallers, GoesThroughSudo(p) PROVE UpInv'
  <2> DEFINE e == [run |-> p.run, step |-> p.step, worker |-> FALSE, holds |-> FALSE]
  <2>1. /\ p.worker /\ upInstallers' = upInstallers \cup {e}
        /\ UNCHANGED <<upRec, upData, upPc, upAt, upStopped, upCode, upBad, upFlatpak, upRun, upKilled, upDirty, upKept, upLate>>
    BY <1>5 DEF GoesThroughSudo, upHistory
  <2>2. e \in UpInstallers /\ e.run = p.run /\ e.step = p.step /\ ~e.worker /\ ~e.holds
    <3>1. p \in UpInstallers  BY DEF UpTypeOK
    <3>2. p.run \in Nat /\ p.step \in UpdateSteps  BY <3>1 DEF UpInstallers
    <3>3. QED  BY <3>2 DEF UpInstallers
  <2> HIDE DEF e
  <2>3. UpTypeOK'  BY <2>1, <2>2 DEF UpTypeOK, RowsLeft
  <2>4. PeopleInv'
    <3>1. \A q \in upInstallers' : q = e \/ q \in upInstallers  BY <2>1
    <3>2. \A q \in upInstallers' : q.run <= upRun /\ (q.worker => q.holds)  BY <2>2, <3>1 DEF PeopleInv
    <3>3. QED  BY <2>1, <2>2, <3>1, <3>2 DEF PeopleInv, RowNow, Completed
  <2>5. TruthInv'
    <3>1. \A s : StepDone(s) => StepDone(s)'  BY <2>1, <2>2 DEF StepDone
    <3>2. QED  BY <2>1, <3>1 DEF TruthInv, Completed, RowNow
  <2>6. CopyInv' /\ OrderInv'  BY <2>1 DEF CopyInv, CompletedKept, OrderInv, Completed, RowNow
  <2>7. QED  BY <2>3, <2>4, <2>5, <2>6
<1>6. QED  BY <1>1, <1>2, <1>3, <1>4, <1>5

LEMMA EndsStep ==
    ASSUME UpInv, NEW p \in upInstallers,
           \/ \E code \in {0, 1, 125} : WorkerEndsWith(p, code)
           \/ \E failed \in BOOLEAN : InstallerEnds(p, failed)
    PROVE  UpInv'
<1> USE DEF UpInv
<1>1. /\ upInstallers' = upInstallers \ {p}
      /\ UNCHANGED <<upRec, upData, upAt, upStopped, upFlatpak, upRun, upKilled, upKept, upLate>>
      /\ upPc' = upPc \/ (upPc = "wait" /\ upPc' = "drain" /\ p.worker /\ p.run = upRun)
      /\ upDirty' = upDirty \/ (p.run = upRun /\ upDirty' = upDirty \cup {p.step})
  BY DEF WorkerEndsWith, InstallerEnds, Failure
<1>2. p \in UpInstallers /\ upCode' \in {0, 1, 125} /\ upBad' \in BOOLEAN  BY DEF WorkerEndsWith, InstallerEnds, UpTypeOK
<1>3. RowNow' = RowNow /\ RowsLeft' = RowsLeft /\ Completed(upRec)' = Completed(upRec) /\ Completed(upData)' = Completed(upData)
  BY <1>1 DEF RowNow, RowsLeft, Completed
<1>4. upPc' = "off" <=> upPc = "off"  BY <1>1
<1>5. UpTypeOK'
  <2>1. upDirty' \in SUBSET UpdateSteps  BY <1>1, <1>2 DEF UpTypeOK, UpInstallers
  <2>2. upPc' \in UpPlaces /\ (upPc' \in RowPlaces => upPc \in RowPlaces)  BY <1>1 DEF UpTypeOK, UpPlaces, RowPlaces
  <2>3. QED  BY <1>1, <1>2, <1>3, <1>4, <2>1, <2>2 DEF UpTypeOK
<1>6. PeopleInv'
  <2>1. ASSUME NEW q \in upInstallers, q # p, q.run = upRun, upPc' = "drain" PROVE ~q.worker
    <3>1. CASE upPc = "drain"  BY <2>1, <3>1 DEF PeopleInv
    <3>2. CASE upPc = "wait" /\ p.worker /\ p.run = upRun
      <4>1. q \in UpInstallers /\ q.run = p.run /\ q.step = p.step  BY <2>1, <3>2 DEF UpTypeOK, PeopleInv
      <4>2. q.worker => q.worker = p.worker /\ q.holds = p.holds
        <5>1. p.worker \in BOOLEAN /\ q.worker \in BOOLEAN /\ p.holds \in BOOLEAN /\ q.holds \in BOOLEAN
          BY <1>2, <4>1 DEF UpInstallers
        <5>2. p.holds /\ (q.worker => q.holds)  BY <3>2 DEF PeopleInv
        <5>3. QED  BY <3>2, <5>1, <5>2, Zenon
      <4>3. /\ p = [run |-> p.run, step |-> p.step, worker |-> p.worker, holds |-> p.holds]
            /\ q = [run |-> q.run, step |-> q.step, worker |-> q.worker, holds |-> q.holds]
        BY <1>2, <4>1 DEF UpInstallers
      <4>4. QED  BY <2>1, <4>1, <4>2, <4>3, Zenon
    <3>3. QED  BY <1>1, <2>1, <3>1, <3>2
  <2>2. \A q \in upInstallers' : q \in upInstallers /\ q # p  BY <1>1
  <2>3. upPc \in {"wait", "drain"} => upPc' \in {"wait", "drain"}  BY <1>1
  <2>4. QED  BY <1>1, <1>3, <1>4, <2>1, <2>2, <2>3 DEF PeopleInv
<1>7. CopyInv'  BY <1>1, <1>3 DEF CopyInv, CompletedKept
<1>8. TruthInv'
  <2>1. \A s : StepDone(s) => StepDone(s)' \/ (s = p.step /\ p.run = upRun)  BY <1>1 DEF StepDone
  <2>2. p.run = upRun /\ upRec # NoRecord => p.step \notin Completed(upRec)  BY DEF PeopleInv
  <2>3. p.run = upRun /\ upPc # "off" => p.step \notin Completed(upData)
    <3>1. SUFFICES ASSUME p.run = upRun, upPc # "off" PROVE p.step \notin Completed(upData)  OBVIOUS
    <3>2. upPc \in {"wait", "drain"} /\ p.step = RowNow  BY <3>1 DEF PeopleInv
    <3>3. upRec = upData /\ upRec # NoRecord  BY <3>1, <3>2, CopyRuns DEF CopyInv
    <3>4. QED  BY <2>2, <3>1, <3>3
  <2>4. upPc' \in {"wait", "drain"} /\ RowNow \in upDirty' => upBad' \/ (upPc' = "drain" /\ upCode' # 0)
    <3> SUFFICES ASSUME upPc' \in {"wait", "drain"}, RowNow \in upDirty' PROVE upBad' \/ (upPc' = "drain" /\ upCode' # 0)  OBVIOUS
    <3>1. upPc \in {"wait", "drain"}  BY <1>1
    <3>2. RowNow \in upDirty => upBad \/ (upPc = "drain" /\ upCode # 0)  BY <3>1 DEF TruthInv
    <3>3. CASE \E code \in {0, 1, 125} : WorkerEndsWith(p, code)
      <4>1. PICK code \in {0, 1, 125} : WorkerEndsWith(p, code)  BY <3>3
      <4>2. \/ p.worker /\ p.run = upRun /\ upPc = "wait" /\ upPc' = "drain" /\ upCode' = code /\ upBad' = upBad
            \/ p.run # upRun /\ UNCHANGED <<upPc, upCode, upBad, upDirty>>
        BY <3>1, <4>1 DEF WorkerEndsWith, Failure, PeopleInv
      <4>3. code = 0 => upDirty' = upDirty  BY <4>1 DEF WorkerEndsWith, Failure
      <4>4. QED  BY <3>2, <4>2, <4>3
    <3>4. CASE \E failed \in BOOLEAN : InstallerEnds(p, failed)
      <4>1. PICK failed \in BOOLEAN : InstallerEnds(p, failed)  BY <3>4
      <4>2. UNCHANGED <<upPc, upCode>> /\ (upBad => upBad') /\ (upDirty' = upDirty \/ upBad')  BY <4>1 DEF InstallerEnds, Failure
      <4>3. QED  BY <3>2, <4>2
    <3>5. QED  BY <3>3, <3>4
  <2>5. upRec' # NoRecord => \A s \in Completed(upRec) : StepDone(s)'  BY <1>1, <2>1, <2>2 DEF TruthInv
  <2>6. upPc' \notin {"off", "unwind"} => \A s \in Completed(upData) : StepDone(s)'  BY <1>1, <2>1, <2>3 DEF TruthInv
  <2>7. QED  BY <1>3, <2>4, <2>5, <2>6 DEF TruthInv
<1>9. OrderInv'  BY <1>1, <1>3 DEF OrderInv, RowPlaces
<1>10. QED  BY <1>5, <1>6, <1>7, <1>8, <1>9

\* However often workflows are begun, stopped, killed and retried, and whatever their workers leave running: the record is true of
\* whole steps, two steps never install at once, no step that was recorded is forgotten, the compositor follows its shell, and at
\* most one step begins after a request to stop (UpdateCoordinator).
THEOREM UpdatesAreSafe == UpdateSpec => []UpdatesHold
<1>1. UpInv /\ [UpdateNext]_upVars => UpInv'
  <2> SUFFICES ASSUME UpInv, [UpdateNext]_upVars PROVE UpInv'  OBVIOUS
  <2>1. CASE UNCHANGED upVars
    <3>1. UpTypeOK'  BY <2>1 DEF upVars, UpInv, UpTypeOK, RowsLeft
    <3>2. PeopleInv' /\ CopyInv' /\ TruthInv' /\ OrderInv'
      BY <2>1 DEF upVars, UpInv, PeopleInv, CopyInv, CompletedKept, TruthInv, OrderInv, StepDone, Completed, RowNow
    <3>3. QED  BY <3>1, <3>2 DEF UpInv
  <2>2. CASE UpdateNext  BY <2>2, BeginStep, SaveStep, RowStep, PlainStep, EndsStep DEF UpdateNext
  <2>3. QED  BY <2>1, <2>2
<1>2. UpInv => UpdatesHold
  <2> SUFFICES ASSUME UpInv PROVE UpdatesHold  OBVIOUS
  <2> USE DEF UpInv
  <2>1. RecordIsTrue  BY DEF RecordIsTrue, TruthInv, StepDone
  <2>2. OneInstaller  BY DEF OneInstaller, PeopleInv
  <2>3. ShellBeforeCompositor
    <3> SUFFICES ASSUME upPc = "wait", RowNow = "compositor", upData.mode = "desktop" PROVE "shell" \in Completed(upRec)
      BY DEF ShellBeforeCompositor
    <3>1. upAt >= 2 /\ upRec = upData  BY RowFacts DEF UpTypeOK, RowPlaces, CopyInv
    <3>2. QED  BY <3>1 DEF OrderInv, RowPlaces
  <2>4. CompletedKept /\ StopHeeded  BY DEF CopyInv, OrderInv, StopHeeded
  <2>5. QED  BY <2>1, <2>2, <2>3, <2>4 DEF UpdatesHold
<1>3. QED  BY UpdateStarts, <1>1, <1>2, PTL DEF UpdateSpec

------------------------------------
(* InstallSwitch.  The parts of the invariant hold unless a transaction was  *)
(* left half deleted, or half taken back in spite of its mark; every action  *)
(* keeps them.                                                               *)

RuntimeNames == {"none", "empty", "old", "copy", "new"}
TxFiles == {"paths", "recover", "metadata", "present", "identity", "backups", "started", "committed"}
InstallPlaces == {"stage", "arm", "snapshot", "payload", "rename", "exchange names", "config", "write config", "finish", "commit"}
UndoPlaces == {"look", "paths", "runtime", "exchange", "tidy", "drop saved", "delete undone"}
DonePlaces == {"ready", "look", "clean old", "delete done", "delete cleaned", "delete committed"}
ClearPlaces == {"reserve", "drop old", "disarm", "resolved", "health", "fall back"}
Services == {"inactive", "restart", "deferred"}
SwitchNamesOK ==
    /\ isLive \in RuntimeNames /\ isStaged \in RuntimeNames /\ isRoll \in RuntimeNames
    /\ isPayload \in {"old", "part", "new"} /\ isConfig \in {"none", "old", "new"}
SwitchFilesOK == isTx \in SUBSET TxFiles /\ isRecorded \in SUBSET {"payload", "config"}
SwitchModesOK == isMode \in Services /\ isTimer \in Services \cup {"off"} /\ isDoes \in Services
SwitchPlacesOK ==
    /\ isActor \in {"none", "install", "recover"}
    /\ isPc \in {"off"} \cup InstallPlaces \cup UndoPlaces \cup DonePlaces \cup ClearPlaces
SwitchFlagsOK ==
    /\ isTxDir \in BOOLEAN /\ isFailed \in BOOLEAN /\ isRetry \in BOOLEAN /\ isFirst \in BOOLEAN
    /\ isCommitted \in BOOLEAN /\ isTorn \in BOOLEAN /\ isUnhealthy \in BOOLEAN
SwitchCountsOK == isInstalls \in Nat /\ isKills \in Nat /\ isTroubles \in Nat
SwitchTypeOK == SwitchNamesOK /\ SwitchFilesOK /\ SwitchModesOK /\ SwitchPlacesOK /\ SwitchFlagsOK /\ SwitchCountsOK
\* Who is where.
InstallActors ==
    /\ (isActor = "none") = (isPc = "off")
    /\ isPc \in InstallPlaces \cup {"reserve", "ready", "delete done", "drop old", "disarm"} => isActor = "install"
    /\ isPc \in {"look", "clean old", "delete cleaned", "delete committed", "health", "fall back"} => isActor = "recover"
Restored == /\ isPayload = "old" /\ isConfig # "new"
            /\ isLive \in IF isFirst THEN {"none"} ELSE {"old", "copy"}
Replaced == isLive = "new" /\ isPayload = "new" /\ isConfig # "none"
\* Without a transaction all is old or all is new, and the runtime is only replaced again when it does not stay active.
ClearInv ==
    ~isTxDir => /\ isPc \in {"off"} \cup ClearPlaces
                /\ isUnhealthy \/ (IF isCommitted THEN Replaced ELSE Restored)
                /\ isUnhealthy => isCommitted
                /\ isPc \in {"drop old", "disarm", "health", "fall back"} => isCommitted
                /\ isPc = "fall back" => isUnhealthy
Described == {"paths", "recover", "metadata"} \cup (IF isFirst THEN {} ELSE {"present", "identity"})
\* After the mark all is new, and the mark is there until the transaction is deleted.
DoneInv ==
    isTxDir /\ isCommitted =>
        /\ Replaced /\ ~isUnhealthy /\ isPc \in {"off"} \cup DonePlaces
        /\ isPc \in {"off", "look", "clean old"} => {"recover", "metadata", "started", "committed"} \subseteq isTx
        /\ isPc = "ready" => /\ isTx = Described \cup {"backups", "started", "committed"} /\ "payload" \in isRecorded
                             /\ (isConfig = "new" => "config" \in isRecorded) /\ (isFirst \/ isRoll = "old")
\* Before the mark everything that was replaced is recorded, and the old runtime is in use or kept.
OpenInv ==
    isTxDir /\ ~isCommitted =>
        /\ ~isUnhealthy /\ isPc \in {"off"} \cup InstallPlaces \cup UndoPlaces
        /\ isPc # "delete undone" => isTx \in {{}, Described, Described \cup {"backups", "started"}, Described \cup {"backups", "started", "committed"}}
        /\ isActor = "recover" /\ isPc # "delete undone" => isTx # {}
        /\ "committed" \in isTx => isActor = "install" /\ (TakingBack \/ isPc = "delete undone")
        /\ isPc # "delete undone" => (IF "started" \in isTx THEN "payload" \in isRecorded ELSE isRecorded = {} /\ Restored /\ isLive \in {"none", "old"})
        /\ isConfig = "new" => "config" \in isRecorded
        /\ IF isFirst THEN isLive \in {"none", "new"}
           ELSE isLive \in {"old", "copy", "new"} /\ (isLive # "old" /\ isPc # "delete undone" => isRoll = "old")
        /\ isTx = {} /\ isPc # "delete undone" => isRoll = "empty"
        /\ isPc = "exchange" => ~isFirst /\ isStaged = "copy" /\ isRoll = "old" /\ "started" \in isTx
\* What an undo has restored so far.
UndoneInv ==
    isTxDir /\ ~isCommitted =>
        /\ isPc \in {"runtime", "exchange"} /\ ~isFailed => isPayload = "old" /\ isConfig # "new"
        /\ isPc = "tidy" /\ ~isFailed => Restored
        /\ isPc \in {"drop saved", "delete undone"} => Restored
        /\ "committed" \in isTx => ~isFailed
        /\ isActor = "recover" /\ isPc \in {"look", "paths", "runtime", "exchange", "tidy"} /\ isFailed =>
              isTroubles > 0 \/ "config" \in isRecorded
\* What an installer has done where it is.
DoingInv ==
    isTxDir /\ ~isCommitted =>
        /\ isPc = "stage" => isTx = {}
        /\ isPc \in {"arm", "snapshot"} => isTx = Described /\ isStaged = "new"
        /\ isPc \in {"payload", "rename", "exchange names", "config", "write config", "finish", "commit"} => "started" \in isTx
        /\ isPc \in {"stage", "arm", "snapshot", "payload", "rename"} => isLive = IF isFirst THEN "none" ELSE "old"
        /\ isPc \in {"payload", "rename"} => isStaged = "new"
        /\ isPc = "exchange names" => ~isFirst /\ isLive = "old" /\ isRoll = "new"
        /\ isPc \in {"config", "write config", "finish", "commit"} => isLive = "new"
        /\ isPc \in {"payload", "rename", "exchange names", "config", "write config"} => isConfig # "new"
        /\ isPc = "write config" => "config" \in isRecorded
        /\ isPc \in {"finish", "commit"} => isConfig # "none"
        /\ isPc = "commit" => isPayload = "new"
SwitchInv == SwitchTypeOK /\ InstallActors /\ (isTorn \/ (ClearInv /\ DoneInv /\ OpenInv /\ UndoneInv /\ DoingInv))

\* The types are expanded in the lemmas of the actions.
USE DEF SwitchTypeOK, SwitchNamesOK, SwitchFilesOK, SwitchModesOK, SwitchPlacesOK, SwitchFlagsOK, SwitchCountsOK,
        RuntimeNames, TxFiles, InstallPlaces, UndoPlaces, DonePlaces, ClearPlaces, Services

LEMMA BeginCleanKeeps ==
  ASSUME SwitchInv, BeginClean
  PROVE  SwitchInv'
<1>. USE DEF BeginClean, isFiles
<1>1. SwitchTypeOK /\ InstallActors  BY DEF SwitchInv
<1>2. SwitchTypeOK'
  <2>1. SwitchNamesOK'  BY <1>1
  <2>2. SwitchFilesOK' /\ SwitchModesOK'  BY <1>1
  <2>3. SwitchPlacesOK'  BY <1>1
  <2>4. SwitchFlagsOK'  BY <1>1
  <2>5. SwitchCountsOK'
    <3>. HIDE DEF SwitchNamesOK, SwitchFilesOK, SwitchModesOK, SwitchPlacesOK, SwitchFlagsOK
    <3>. QED  BY <1>1
  <2>. QED  BY <2>1, <2>2, <2>3, <2>4, <2>5
<1>3. InstallActors'  BY <1>1 DEF InstallActors
<1>4. ASSUME ~isTorn' PROVE (ClearInv /\ DoneInv /\ OpenInv /\ UndoneInv /\ DoingInv)'
  <2>1. ~isTorn /\ ClearInv /\ DoneInv /\ OpenInv /\ UndoneInv /\ DoingInv  BY <1>4 DEF SwitchInv
  <2>. USE DEF InstallActors, ClearInv, DoneInv, OpenInv, TakingBack, UndoneInv, DoingInv, Replaced, Restored, Described
  <2>2. ClearInv'  BY <1>1, <1>4, <2>1
  <2>3. DoneInv'  BY <1>1, <1>4, <2>1
  <2>4. OpenInv'  BY <1>1, <1>4, <2>1
  <2>5. UndoneInv'  BY <1>1, <1>4, <2>1
  <2>6. DoingInv'  BY <1>1, <1>4, <2>1
  <2>. QED  BY <2>2, <2>3, <2>4, <2>5, <2>6
<1>. QED  BY <1>2, <1>3, <1>4 DEF SwitchInv

LEMMA BeginRecoveringKeeps ==
  ASSUME SwitchInv, BeginRecovering
  PROVE  SwitchInv'
<1>. USE DEF BeginRecovering, Complete, isRuntime, isFiles, isTransaction
<1>1. SwitchTypeOK /\ InstallActors  BY DEF SwitchInv
<1>2. SwitchTypeOK'
  <2>1. SwitchNamesOK'  BY <1>1
  <2>2. SwitchFilesOK' /\ SwitchModesOK'  BY <1>1
  <2>3. SwitchPlacesOK'  BY <1>1
  <2>4. SwitchFlagsOK'  BY <1>1
  <2>5. SwitchCountsOK'
    <3>. HIDE DEF SwitchNamesOK, SwitchFilesOK, SwitchModesOK, SwitchPlacesOK, SwitchFlagsOK
    <3>. QED  BY <1>1
  <2>. QED  BY <2>1, <2>2, <2>3, <2>4, <2>5
<1>3. InstallActors'  BY <1>1 DEF InstallActors
<1>4. ASSUME ~isTorn' PROVE (ClearInv /\ DoneInv /\ OpenInv /\ UndoneInv /\ DoingInv)'
  <2>1. ~isTorn /\ ClearInv /\ DoneInv /\ OpenInv /\ UndoneInv /\ DoingInv  BY <1>4 DEF SwitchInv
  <2>. USE DEF InstallActors, ClearInv, DoneInv, OpenInv, TakingBack, UndoneInv, DoingInv, Replaced, Restored, Described
  <2>2. ClearInv'  BY <1>1, <1>4, <2>1
  <2>3. DoneInv'  BY <1>1, <1>4, <2>1
  <2>4. OpenInv'  BY <1>1, <1>4, <2>1
  <2>5. UndoneInv'  BY <1>1, <1>4, <2>1
  <2>6. DoingInv'  BY <1>1, <1>4, <2>1
  <2>. QED  BY <2>2, <2>3, <2>4, <2>5, <2>6
<1>. QED  BY <1>2, <1>3, <1>4 DEF SwitchInv

LEMMA BeginQueuesKeeps ==
  ASSUME SwitchInv, BeginQueues
  PROVE  SwitchInv'
<1>. USE DEF BeginQueues, Complete, isRuntime, isFiles, isTransaction
<1>1. SwitchTypeOK /\ InstallActors  BY DEF SwitchInv
<1>2. SwitchTypeOK'
  <2>1. SwitchNamesOK'  BY <1>1
  <2>2. SwitchFilesOK' /\ SwitchModesOK'  BY <1>1
  <2>3. SwitchPlacesOK'  BY <1>1
  <2>4. SwitchFlagsOK'  BY <1>1
  <2>5. SwitchCountsOK'
    <3>. HIDE DEF SwitchNamesOK, SwitchFilesOK, SwitchModesOK, SwitchPlacesOK, SwitchFlagsOK
    <3>. QED  BY <1>1
  <2>. QED  BY <2>1, <2>2, <2>3, <2>4, <2>5
<1>3. InstallActors'  BY <1>1 DEF InstallActors
<1>4. ASSUME ~isTorn' PROVE (ClearInv /\ DoneInv /\ OpenInv /\ UndoneInv /\ DoingInv)'
  <2>1. ~isTorn /\ ClearInv /\ DoneInv /\ OpenInv /\ UndoneInv /\ DoingInv  BY <1>4 DEF SwitchInv
  <2>. USE DEF InstallActors, ClearInv, DoneInv, OpenInv, TakingBack, UndoneInv, DoingInv, Replaced, Restored, Described
  <2>2. ClearInv'  BY <1>1, <1>4, <2>1
  <2>3. DoneInv'  BY <1>1, <1>4, <2>1
  <2>4. OpenInv'  BY <1>1, <1>4, <2>1
  <2>5. UndoneInv'  BY <1>1, <1>4, <2>1
  <2>6. DoingInv'  BY <1>1, <1>4, <2>1
  <2>. QED  BY <2>2, <2>3, <2>4, <2>5, <2>6
<1>. QED  BY <1>2, <1>3, <1>4 DEF SwitchInv

LEMMA ReserveKeeps ==
  ASSUME SwitchInv, Reserve
  PROVE  SwitchInv'
<1>. USE DEF Reserve, Installing, isWatch
<1>1. SwitchTypeOK /\ InstallActors  BY DEF SwitchInv
<1>2. SwitchTypeOK'
  <2>1. SwitchNamesOK'  BY <1>1
  <2>2. SwitchFilesOK' /\ SwitchModesOK'  BY <1>1
  <2>3. SwitchPlacesOK'  BY <1>1
  <2>4. SwitchFlagsOK'  BY <1>1
  <2>5. SwitchCountsOK'  BY <1>1
  <2>. QED  BY <2>1, <2>2, <2>3, <2>4, <2>5
<1>3. InstallActors'  BY <1>1 DEF InstallActors
<1>4. (ClearInv /\ DoneInv /\ OpenInv /\ UndoneInv /\ DoingInv)'
  <2>1. /\ isPc' = "stage" /\ isTxDir' = TRUE /\ isTx' = {} /\ isRecorded' = {} /\ isStaged' = "empty" /\ isRoll' = "empty"
        /\ isPayload' = "old" /\ isConfig' # "new" /\ isFirst' \in BOOLEAN /\ isLive' = (IF isFirst' THEN "none" ELSE "old")
        /\ isCommitted' = FALSE /\ isUnhealthy' = FALSE /\ isActor' = "install"
    BY <1>1 DEF Reserve, Installing, isWatch
  <2>. QED  BY <2>1 DEF ClearInv, DoneInv, OpenInv, UndoneInv, DoingInv, Restored, InstallPlaces
<1>. QED  BY <1>2, <1>3, <1>4 DEF SwitchInv

LEMMA StageKeeps ==
  ASSUME SwitchInv, Stage
  PROVE  SwitchInv'
<1>. USE DEF Stage, Installing, isFiles, isWatch, isHistory
<1>1. SwitchTypeOK /\ InstallActors  BY DEF SwitchInv
<1>2. SwitchTypeOK'
  <2>1. SwitchNamesOK'  BY <1>1
  <2>2. SwitchFilesOK' /\ SwitchModesOK'  BY <1>1
  <2>3. SwitchPlacesOK'  BY <1>1
  <2>4. SwitchFlagsOK'  BY <1>1
  <2>5. SwitchCountsOK'  BY <1>1
  <2>. QED  BY <2>1, <2>2, <2>3, <2>4, <2>5
<1>3. InstallActors'  BY <1>1 DEF InstallActors
<1>4. ASSUME ~isTorn' PROVE (ClearInv /\ DoneInv /\ OpenInv /\ UndoneInv /\ DoingInv)'
  <2>1. ~isTorn /\ ClearInv /\ DoneInv /\ OpenInv /\ UndoneInv /\ DoingInv  BY <1>4 DEF SwitchInv
  <2>. USE DEF InstallActors, ClearInv, DoneInv, OpenInv, TakingBack, UndoneInv, DoingInv, Replaced, Restored, Described
  <2>2. ClearInv'  BY <1>1, <1>4, <2>1
  <2>3. DoneInv'  BY <1>1, <1>4, <2>1
  <2>4. OpenInv'  BY <1>1, <1>4, <2>1
  <2>5. UndoneInv'  BY <1>1, <1>4, <2>1
  <2>6. DoingInv'  BY <1>1, <1>4, <2>1
  <2>. QED  BY <2>2, <2>3, <2>4, <2>5, <2>6
<1>. QED  BY <1>2, <1>3, <1>4 DEF SwitchInv

LEMMA ArmKeeps ==
  ASSUME SwitchInv, Arm
  PROVE  SwitchInv'
<1>. USE DEF Arm, Installing, isRuntime, isFiles, isTransaction, isHistory
<1>1. SwitchTypeOK /\ InstallActors  BY DEF SwitchInv
<1>2. SwitchTypeOK'
  <2>1. SwitchNamesOK'  BY <1>1
  <2>2. SwitchFilesOK' /\ SwitchModesOK'  BY <1>1
  <2>3. SwitchPlacesOK'  BY <1>1
  <2>4. SwitchFlagsOK'  BY <1>1
  <2>5. SwitchCountsOK'  BY <1>1
  <2>. QED  BY <2>1, <2>2, <2>3, <2>4, <2>5
<1>3. InstallActors'  BY <1>1 DEF InstallActors
<1>4. ASSUME ~isTorn' PROVE (ClearInv /\ DoneInv /\ OpenInv /\ UndoneInv /\ DoingInv)'
  <2>1. ~isTorn /\ ClearInv /\ DoneInv /\ OpenInv /\ UndoneInv /\ DoingInv  BY <1>4 DEF SwitchInv
  <2>. USE DEF InstallActors, ClearInv, DoneInv, OpenInv, TakingBack, UndoneInv, DoingInv, Replaced, Restored, Described
  <2>2. ClearInv'  BY <1>1, <1>4, <2>1
  <2>3. DoneInv'  BY <1>1, <1>4, <2>1
  <2>4. OpenInv'  BY <1>1, <1>4, <2>1
  <2>5. UndoneInv'  BY <1>1, <1>4, <2>1
  <2>6. DoingInv'  BY <1>1, <1>4, <2>1
  <2>. QED  BY <2>2, <2>3, <2>4, <2>5, <2>6
<1>. QED  BY <1>2, <1>3, <1>4 DEF SwitchInv

LEMMA SnapshotPayloadKeeps ==
  ASSUME SwitchInv, SnapshotPayload
  PROVE  SwitchInv'
<1>. USE DEF SnapshotPayload, Installing, isRuntime, isFiles, isWatch, isHistory
<1>1. SwitchTypeOK /\ InstallActors  BY DEF SwitchInv
<1>2. SwitchTypeOK'
  <2>1. SwitchNamesOK'  BY <1>1
  <2>2. SwitchFilesOK' /\ SwitchModesOK'  BY <1>1
  <2>3. SwitchPlacesOK'  BY <1>1
  <2>4. SwitchFlagsOK'  BY <1>1
  <2>5. SwitchCountsOK'  BY <1>1
  <2>. QED  BY <2>1, <2>2, <2>3, <2>4, <2>5
<1>3. InstallActors'  BY <1>1 DEF InstallActors
<1>4. ASSUME ~isTorn' PROVE (ClearInv /\ DoneInv /\ OpenInv /\ UndoneInv /\ DoingInv)'
  <2>1. ~isTorn /\ ClearInv /\ DoneInv /\ OpenInv /\ UndoneInv /\ DoingInv  BY <1>4 DEF SwitchInv
  <2>. USE DEF InstallActors, ClearInv, DoneInv, OpenInv, TakingBack, UndoneInv, DoingInv, Replaced, Restored, Described
  <2>2. ClearInv'  BY <1>1, <1>4, <2>1
  <2>3. DoneInv'  BY <1>1, <1>4, <2>1
  <2>4. OpenInv'  BY <1>1, <1>4, <2>1
  <2>5. UndoneInv'  BY <1>1, <1>4, <2>1
  <2>6. DoingInv'  BY <1>1, <1>4, <2>1
  <2>. QED  BY <2>2, <2>3, <2>4, <2>5, <2>6
<1>. QED  BY <1>2, <1>3, <1>4 DEF SwitchInv

LEMMA InstallPayloadKeeps ==
  ASSUME SwitchInv, InstallPayload
  PROVE  SwitchInv'
<1>. USE DEF InstallPayload, Installing, isRuntime, isTransaction, isWatch, isHistory
<1>1. SwitchTypeOK /\ InstallActors  BY DEF SwitchInv
<1>2. SwitchTypeOK'
  <2>1. SwitchNamesOK'  BY <1>1
  <2>2. SwitchFilesOK' /\ SwitchModesOK'  BY <1>1
  <2>3. SwitchPlacesOK'  BY <1>1
  <2>4. SwitchFlagsOK'  BY <1>1
  <2>5. SwitchCountsOK'  BY <1>1
  <2>. QED  BY <2>1, <2>2, <2>3, <2>4, <2>5
<1>3. InstallActors'  BY <1>1 DEF InstallActors
<1>4. ASSUME ~isTorn' PROVE (ClearInv /\ DoneInv /\ OpenInv /\ UndoneInv /\ DoingInv)'
  <2>1. ~isTorn /\ ClearInv /\ DoneInv /\ OpenInv /\ UndoneInv /\ DoingInv  BY <1>4 DEF SwitchInv
  <2>. USE DEF InstallActors, ClearInv, DoneInv, OpenInv, TakingBack, UndoneInv, DoingInv, Replaced, Restored, Described
  <2>2. ClearInv'  BY <1>1, <1>4, <2>1
  <2>3. DoneInv'  BY <1>1, <1>4, <2>1
  <2>4. OpenInv'  BY <1>1, <1>4, <2>1
  <2>5. UndoneInv'  BY <1>1, <1>4, <2>1
  <2>6. DoingInv'  BY <1>1, <1>4, <2>1
  <2>. QED  BY <2>2, <2>3, <2>4, <2>5, <2>6
<1>. QED  BY <1>2, <1>3, <1>4 DEF SwitchInv

LEMMA RenameStagedKeeps ==
  ASSUME SwitchInv, RenameStaged
  PROVE  SwitchInv'
<1>. USE DEF RenameStaged, Installing, isFiles, isTransaction, isWatch, isHistory
<1>1. SwitchTypeOK /\ InstallActors  BY DEF SwitchInv
<1>2. SwitchTypeOK'
  <2>1. SwitchNamesOK'  BY <1>1
  <2>2. SwitchFilesOK' /\ SwitchModesOK'  BY <1>1
  <2>3. SwitchPlacesOK'  BY <1>1
  <2>4. SwitchFlagsOK'  BY <1>1
  <2>5. SwitchCountsOK'  BY <1>1
  <2>. QED  BY <2>1, <2>2, <2>3, <2>4, <2>5
<1>3. InstallActors'  BY <1>1 DEF InstallActors
<1>4. ASSUME ~isTorn' PROVE (ClearInv /\ DoneInv /\ OpenInv /\ UndoneInv /\ DoingInv)'
  <2>1. ~isTorn /\ ClearInv /\ DoneInv /\ OpenInv /\ UndoneInv /\ DoingInv  BY <1>4 DEF SwitchInv
  <2>. USE DEF InstallActors, ClearInv, DoneInv, OpenInv, TakingBack, UndoneInv, DoingInv, Replaced, Restored, Described
  <2>2. ClearInv'  BY <1>1, <1>4, <2>1
  <2>3. DoneInv'  BY <1>1, <1>4, <2>1
  <2>4. OpenInv'  BY <1>1, <1>4, <2>1
  <2>5. UndoneInv'  BY <1>1, <1>4, <2>1
  <2>6. DoingInv'  BY <1>1, <1>4, <2>1
  <2>. QED  BY <2>2, <2>3, <2>4, <2>5, <2>6
<1>. QED  BY <1>2, <1>3, <1>4 DEF SwitchInv

LEMMA ExchangeNamesKeeps ==
  ASSUME SwitchInv, ExchangeNames
  PROVE  SwitchInv'
<1>. USE DEF ExchangeNames, Installing, isFiles, isTransaction, isWatch, isHistory
<1>1. SwitchTypeOK /\ InstallActors  BY DEF SwitchInv
<1>2. SwitchTypeOK'
  <2>1. SwitchNamesOK'  BY <1>1
  <2>2. SwitchFilesOK' /\ SwitchModesOK'  BY <1>1
  <2>3. SwitchPlacesOK'  BY <1>1
  <2>4. SwitchFlagsOK'  BY <1>1
  <2>5. SwitchCountsOK'  BY <1>1
  <2>. QED  BY <2>1, <2>2, <2>3, <2>4, <2>5
<1>3. InstallActors'  BY <1>1 DEF InstallActors
<1>4. ASSUME ~isTorn' PROVE (ClearInv /\ DoneInv /\ OpenInv /\ UndoneInv /\ DoingInv)'
  <2>1. ~isTorn /\ ClearInv /\ DoneInv /\ OpenInv /\ UndoneInv /\ DoingInv  BY <1>4 DEF SwitchInv
  <2>. USE DEF InstallActors, ClearInv, DoneInv, OpenInv, TakingBack, UndoneInv, DoingInv, Replaced, Restored, Described
  <2>2. ClearInv'  BY <1>1, <1>4, <2>1
  <2>3. DoneInv'  BY <1>1, <1>4, <2>1
  <2>4. OpenInv'  BY <1>1, <1>4, <2>1
  <2>5. UndoneInv'  BY <1>1, <1>4, <2>1
  <2>6. DoingInv'  BY <1>1, <1>4, <2>1
  <2>. QED  BY <2>2, <2>3, <2>4, <2>5, <2>6
<1>. QED  BY <1>2, <1>3, <1>4 DEF SwitchInv

LEMMA RecordConfigKeeps ==
  ASSUME SwitchInv, RecordConfig
  PROVE  SwitchInv'
<1>. USE DEF RecordConfig, Installing, isRuntime, isFiles, isWatch, isHistory
<1>1. SwitchTypeOK /\ InstallActors  BY DEF SwitchInv
<1>2. SwitchTypeOK'
  <2>1. SwitchNamesOK'  BY <1>1
  <2>2. SwitchFilesOK' /\ SwitchModesOK'  BY <1>1
  <2>3. SwitchPlacesOK'  BY <1>1
  <2>4. SwitchFlagsOK'  BY <1>1
  <2>5. SwitchCountsOK'  BY <1>1
  <2>. QED  BY <2>1, <2>2, <2>3, <2>4, <2>5
<1>3. InstallActors'  BY <1>1 DEF InstallActors
<1>4. ASSUME ~isTorn' PROVE (ClearInv /\ DoneInv /\ OpenInv /\ UndoneInv /\ DoingInv)'
  <2>1. ~isTorn /\ ClearInv /\ DoneInv /\ OpenInv /\ UndoneInv /\ DoingInv  BY <1>4 DEF SwitchInv
  <2>. USE DEF InstallActors, ClearInv, DoneInv, OpenInv, TakingBack, UndoneInv, DoingInv, Replaced, Restored, Described
  <2>2. ClearInv'  BY <1>1, <1>4, <2>1
  <2>3. DoneInv'  BY <1>1, <1>4, <2>1
  <2>4. OpenInv'  BY <1>1, <1>4, <2>1
  <2>5. UndoneInv'  BY <1>1, <1>4, <2>1
  <2>6. DoingInv'  BY <1>1, <1>4, <2>1
  <2>. QED  BY <2>2, <2>3, <2>4, <2>5, <2>6
<1>. QED  BY <1>2, <1>3, <1>4 DEF SwitchInv

LEMMA WriteConfigKeeps ==
  ASSUME SwitchInv, WriteConfig
  PROVE  SwitchInv'
<1>. USE DEF WriteConfig, Installing, isRuntime, isTransaction, isWatch, isHistory
<1>1. SwitchTypeOK /\ InstallActors  BY DEF SwitchInv
<1>2. SwitchTypeOK'
  <2>1. SwitchNamesOK'  BY <1>1
  <2>2. SwitchFilesOK' /\ SwitchModesOK'  BY <1>1
  <2>3. SwitchPlacesOK'  BY <1>1
  <2>4. SwitchFlagsOK'  BY <1>1
  <2>5. SwitchCountsOK'  BY <1>1
  <2>. QED  BY <2>1, <2>2, <2>3, <2>4, <2>5
<1>3. InstallActors'  BY <1>1 DEF InstallActors
<1>4. ASSUME ~isTorn' PROVE (ClearInv /\ DoneInv /\ OpenInv /\ UndoneInv /\ DoingInv)'
  <2>1. ~isTorn /\ ClearInv /\ DoneInv /\ OpenInv /\ UndoneInv /\ DoingInv  BY <1>4 DEF SwitchInv
  <2>. USE DEF InstallActors, ClearInv, DoneInv, OpenInv, TakingBack, UndoneInv, DoingInv, Replaced, Restored, Described
  <2>2. ClearInv'  BY <1>1, <1>4, <2>1
  <2>3. DoneInv'  BY <1>1, <1>4, <2>1
  <2>4. OpenInv'  BY <1>1, <1>4, <2>1
  <2>5. UndoneInv'  BY <1>1, <1>4, <2>1
  <2>6. DoingInv'  BY <1>1, <1>4, <2>1
  <2>. QED  BY <2>2, <2>3, <2>4, <2>5, <2>6
<1>. QED  BY <1>2, <1>3, <1>4 DEF SwitchInv

LEMMA FinishPayloadKeeps ==
  ASSUME SwitchInv, FinishPayload
  PROVE  SwitchInv'
<1>. USE DEF FinishPayload, Installing, isRuntime, isTransaction, isWatch, isHistory
<1>1. SwitchTypeOK /\ InstallActors  BY DEF SwitchInv
<1>2. SwitchTypeOK'
  <2>1. SwitchNamesOK'  BY <1>1
  <2>2. SwitchFilesOK' /\ SwitchModesOK'  BY <1>1
  <2>3. SwitchPlacesOK'  BY <1>1
  <2>4. SwitchFlagsOK'  BY <1>1
  <2>5. SwitchCountsOK'  BY <1>1
  <2>. QED  BY <2>1, <2>2, <2>3, <2>4, <2>5
<1>3. InstallActors'  BY <1>1 DEF InstallActors
<1>4. ASSUME ~isTorn' PROVE (ClearInv /\ DoneInv /\ OpenInv /\ UndoneInv /\ DoingInv)'
  <2>1. ~isTorn /\ ClearInv /\ DoneInv /\ OpenInv /\ UndoneInv /\ DoingInv  BY <1>4 DEF SwitchInv
  <2>. USE DEF InstallActors, ClearInv, DoneInv, OpenInv, TakingBack, UndoneInv, DoingInv, Replaced, Restored, Described
  <2>2. ClearInv'  BY <1>1, <1>4, <2>1
  <2>3. DoneInv'  BY <1>1, <1>4, <2>1
  <2>4. OpenInv'  BY <1>1, <1>4, <2>1
  <2>5. UndoneInv'  BY <1>1, <1>4, <2>1
  <2>6. DoingInv'  BY <1>1, <1>4, <2>1
  <2>. QED  BY <2>2, <2>3, <2>4, <2>5, <2>6
<1>. QED  BY <1>2, <1>3, <1>4 DEF SwitchInv

LEMMA CommitKeeps ==
  ASSUME SwitchInv, Commit
  PROVE  SwitchInv'
<1>. USE DEF Commit, Installing, isRuntime, isFiles, isWatch
<1>1. SwitchTypeOK /\ InstallActors  BY DEF SwitchInv
<1>2. SwitchTypeOK'
  <2>1. SwitchNamesOK'  BY <1>1
  <2>2. SwitchFilesOK' /\ SwitchModesOK'  BY <1>1
  <2>3. SwitchPlacesOK'  BY <1>1
  <2>4. SwitchFlagsOK'  BY <1>1
  <2>5. SwitchCountsOK'  BY <1>1
  <2>. QED  BY <2>1, <2>2, <2>3, <2>4, <2>5
<1>3. InstallActors'  BY <1>1 DEF InstallActors
<1>4. ASSUME ~isTorn' PROVE (ClearInv /\ DoneInv /\ OpenInv /\ UndoneInv /\ DoingInv)'
  <2>1. ~isTorn /\ ClearInv /\ DoneInv /\ OpenInv /\ UndoneInv /\ DoingInv  BY <1>4 DEF SwitchInv
  <2>. USE DEF InstallActors, ClearInv, DoneInv, OpenInv, TakingBack, UndoneInv, DoingInv, Replaced, Restored, Described
  <2>2. ClearInv'  BY <1>1, <1>4, <2>1
  <2>3. DoneInv'  BY <1>1, <1>4, <2>1
  <2>4. OpenInv'  BY <1>1, <1>4, <2>1
  <2>5. UndoneInv'  BY <1>1, <1>4, <2>1
  <2>6. DoingInv'  BY <1>1, <1>4, <2>1
  <2>. QED  BY <2>2, <2>3, <2>4, <2>5, <2>6
<1>. QED  BY <1>2, <1>3, <1>4 DEF SwitchInv

LEMMA ReadyKeeps ==
  ASSUME SwitchInv, Ready
  PROVE  SwitchInv'
<1>. USE DEF Ready, Installing, LockReleased, isRuntime, isFiles, isTransaction, isWatch, isHistory
<1>1. SwitchTypeOK /\ InstallActors  BY DEF SwitchInv
<1>2. SwitchTypeOK'
  <2>1. SwitchNamesOK'  BY <1>1
  <2>2. SwitchFilesOK' /\ SwitchModesOK'  BY <1>1
  <2>3. SwitchPlacesOK'  BY <1>1
  <2>4. SwitchFlagsOK'  BY <1>1
  <2>5. SwitchCountsOK'  BY <1>1
  <2>. QED  BY <2>1, <2>2, <2>3, <2>4, <2>5
<1>3. InstallActors'  BY <1>1 DEF InstallActors
<1>4. ASSUME ~isTorn' PROVE (ClearInv /\ DoneInv /\ OpenInv /\ UndoneInv /\ DoingInv)'
  <2>1. ~isTorn /\ ClearInv /\ DoneInv /\ OpenInv /\ UndoneInv /\ DoingInv  BY <1>4 DEF SwitchInv
  <2>. USE DEF InstallActors, ClearInv, DoneInv, OpenInv, TakingBack, UndoneInv, DoingInv, Replaced, Restored, Described
  <2>2. ClearInv'  BY <1>1, <1>4, <2>1
  <2>3. DoneInv'  BY <1>1, <1>4, <2>1
  <2>4. OpenInv'  BY <1>1, <1>4, <2>1
  <2>5. UndoneInv'  BY <1>1, <1>4, <2>1
  <2>6. DoingInv'  BY <1>1, <1>4, <2>1
  <2>. QED  BY <2>2, <2>3, <2>4, <2>5, <2>6
<1>. QED  BY <1>2, <1>3, <1>4 DEF SwitchInv

LEMMA DropOldKeeps ==
  ASSUME SwitchInv, DropOld
  PROVE  SwitchInv'
<1>. USE DEF DropOld, Installing, isFiles, isTransaction, isWatch, isHistory
<1>1. SwitchTypeOK /\ InstallActors  BY DEF SwitchInv
<1>2. SwitchTypeOK'
  <2>1. SwitchNamesOK'  BY <1>1
  <2>2. SwitchFilesOK' /\ SwitchModesOK'  BY <1>1
  <2>3. SwitchPlacesOK'  BY <1>1
  <2>4. SwitchFlagsOK'  BY <1>1
  <2>5. SwitchCountsOK'  BY <1>1
  <2>. QED  BY <2>1, <2>2, <2>3, <2>4, <2>5
<1>3. InstallActors'  BY <1>1 DEF InstallActors
<1>4. ASSUME ~isTorn' PROVE (ClearInv /\ DoneInv /\ OpenInv /\ UndoneInv /\ DoingInv)'
  <2>1. ~isTorn /\ ClearInv /\ DoneInv /\ OpenInv /\ UndoneInv /\ DoingInv  BY <1>4 DEF SwitchInv
  <2>. USE DEF InstallActors, ClearInv, DoneInv, OpenInv, TakingBack, UndoneInv, DoingInv, Replaced, Restored, Described
  <2>2. ClearInv'  BY <1>1, <1>4, <2>1
  <2>3. DoneInv'  BY <1>1, <1>4, <2>1
  <2>4. OpenInv'  BY <1>1, <1>4, <2>1
  <2>5. UndoneInv'  BY <1>1, <1>4, <2>1
  <2>6. DoingInv'  BY <1>1, <1>4, <2>1
  <2>. QED  BY <2>2, <2>3, <2>4, <2>5, <2>6
<1>. QED  BY <1>2, <1>3, <1>4 DEF SwitchInv

LEMMA DisarmKeeps ==
  ASSUME SwitchInv, Disarm
  PROVE  SwitchInv'
<1>. USE DEF Disarm, Installing, LockReleased, isRuntime, isFiles, isTransaction, isHistory
<1>1. SwitchTypeOK /\ InstallActors  BY DEF SwitchInv
<1>2. SwitchTypeOK'
  <2>1. SwitchNamesOK'  BY <1>1
  <2>2. SwitchFilesOK' /\ SwitchModesOK'  BY <1>1
  <2>3. SwitchPlacesOK'  BY <1>1
  <2>4. SwitchFlagsOK'  BY <1>1
  <2>5. SwitchCountsOK'  BY <1>1
  <2>. QED  BY <2>1, <2>2, <2>3, <2>4, <2>5
<1>3. InstallActors'  BY <1>1 DEF InstallActors
<1>4. ASSUME ~isTorn' PROVE (ClearInv /\ DoneInv /\ OpenInv /\ UndoneInv /\ DoingInv)'
  <2>1. ~isTorn /\ ClearInv /\ DoneInv /\ OpenInv /\ UndoneInv /\ DoingInv  BY <1>4 DEF SwitchInv
  <2>. USE DEF InstallActors, ClearInv, DoneInv, OpenInv, TakingBack, UndoneInv, DoingInv, Replaced, Restored, Described
  <2>2. ClearInv'  BY <1>1, <1>4, <2>1
  <2>3. DoneInv'  BY <1>1, <1>4, <2>1
  <2>4. OpenInv'  BY <1>1, <1>4, <2>1
  <2>5. UndoneInv'  BY <1>1, <1>4, <2>1
  <2>6. DoingInv'  BY <1>1, <1>4, <2>1
  <2>. QED  BY <2>2, <2>3, <2>4, <2>5, <2>6
<1>. QED  BY <1>2, <1>3, <1>4 DEF SwitchInv

LEMMA InstallFailsKeeps ==
  ASSUME SwitchInv, InstallFails
  PROVE  SwitchInv'
<1>. USE DEF InstallFails, isRuntime, isFiles, isTransaction, isWatch
<1>1. SwitchTypeOK /\ InstallActors  BY DEF SwitchInv
<1>2. SwitchTypeOK'
  <2>1. SwitchNamesOK'  BY <1>1
  <2>2. SwitchFilesOK' /\ SwitchModesOK'  BY <1>1
  <2>3. SwitchPlacesOK'  BY <1>1
  <2>4. SwitchFlagsOK'  BY <1>1
  <2>5. SwitchCountsOK'  BY <1>1
  <2>. QED  BY <2>1, <2>2, <2>3, <2>4, <2>5
<1>3. InstallActors'  BY <1>1 DEF InstallActors
<1>4. ASSUME ~isTorn' PROVE (ClearInv /\ DoneInv /\ OpenInv /\ UndoneInv /\ DoingInv)'
  <2>1. ~isTorn /\ ClearInv /\ DoneInv /\ OpenInv /\ UndoneInv /\ DoingInv  BY <1>4 DEF SwitchInv
  <2>. USE DEF InstallActors, ClearInv, DoneInv, OpenInv, TakingBack, UndoneInv, DoingInv, Replaced, Restored, Described
  <2>2. ClearInv'  BY <1>1, <1>4, <2>1
  <2>3. DoneInv'  BY <1>1, <1>4, <2>1
  <2>4. OpenInv'  BY <1>1, <1>4, <2>1
  <2>5. UndoneInv'  BY <1>1, <1>4, <2>1
  <2>6. DoingInv'  BY <1>1, <1>4, <2>1
  <2>. QED  BY <2>2, <2>3, <2>4, <2>5, <2>6
<1>. QED  BY <1>2, <1>3, <1>4 DEF SwitchInv

LEMMA TimerFiresKeeps ==
  ASSUME SwitchInv, TimerFires
  PROVE  SwitchInv'
<1>. USE DEF TimerFires, isRuntime, isFiles, isTransaction, isHistory
<1>1. SwitchTypeOK /\ InstallActors  BY DEF SwitchInv
<1>2. SwitchTypeOK'
  <2>1. SwitchNamesOK'  BY <1>1
  <2>2. SwitchFilesOK' /\ SwitchModesOK'  BY <1>1
  <2>3. SwitchPlacesOK'  BY <1>1
  <2>4. SwitchFlagsOK'  BY <1>1
  <2>5. SwitchCountsOK'  BY <1>1
  <2>. QED  BY <2>1, <2>2, <2>3, <2>4, <2>5
<1>3. InstallActors'  BY <1>1 DEF InstallActors
<1>4. ASSUME ~isTorn' PROVE (ClearInv /\ DoneInv /\ OpenInv /\ UndoneInv /\ DoingInv)'
  <2>1. ~isTorn /\ ClearInv /\ DoneInv /\ OpenInv /\ UndoneInv /\ DoingInv  BY <1>4 DEF SwitchInv
  <2>. USE DEF InstallActors, ClearInv, DoneInv, OpenInv, TakingBack, UndoneInv, DoingInv, Replaced, Restored, Described
  <2>2. ClearInv'  BY <1>1, <1>4, <2>1
  <2>3. DoneInv'  BY <1>1, <1>4, <2>1
  <2>4. OpenInv'  BY <1>1, <1>4, <2>1
  <2>5. UndoneInv'  BY <1>1, <1>4, <2>1
  <2>6. DoingInv'  BY <1>1, <1>4, <2>1
  <2>. QED  BY <2>2, <2>3, <2>4, <2>5, <2>6
<1>. QED  BY <1>2, <1>3, <1>4 DEF SwitchInv

LEMMA LookKeeps ==
  ASSUME SwitchInv, Look
  PROVE  SwitchInv'
<1>. USE DEF Look, Marked, Undoing, isFiles, isTransaction, isWatch, isHistory
<1>1. SwitchTypeOK /\ InstallActors  BY DEF SwitchInv
<1>2. SwitchTypeOK'
  <2>1. SwitchNamesOK'  BY <1>1
  <2>2. SwitchFilesOK' /\ SwitchModesOK'  BY <1>1
  <2>3. SwitchPlacesOK'  BY <1>1
  <2>4. SwitchFlagsOK'  BY <1>1
  <2>5. SwitchCountsOK'  BY <1>1
  <2>. QED  BY <2>1, <2>2, <2>3, <2>4, <2>5
<1>3. InstallActors'  BY <1>1 DEF InstallActors
<1>4. ASSUME ~isTorn' PROVE (ClearInv /\ DoneInv /\ OpenInv /\ UndoneInv /\ DoingInv)'
  <2>1. ~isTorn /\ ClearInv /\ DoneInv /\ OpenInv /\ UndoneInv /\ DoingInv  BY <1>4 DEF SwitchInv
  <2>. USE DEF InstallActors, ClearInv, DoneInv, OpenInv, TakingBack, UndoneInv, DoingInv, Replaced, Restored, Described
  <2>2. ClearInv'  BY <1>1, <1>4, <2>1
  <2>3. DoneInv'  BY <1>1, <1>4, <2>1
  <2>4. OpenInv'  BY <1>1, <1>4, <2>1
  <2>5. UndoneInv'  BY <1>1, <1>4, <2>1
  <2>6. DoingInv'  BY <1>1, <1>4, <2>1
  <2>. QED  BY <2>2, <2>3, <2>4, <2>5, <2>6
<1>. QED  BY <1>2, <1>3, <1>4 DEF SwitchInv

LEMMA UndoPathsKeeps ==
  ASSUME SwitchInv, UndoPaths
  PROVE  SwitchInv'
<1>. USE DEF UndoPaths, KnownPaths, Undoing, isRuntime, isTransaction, isWatch, isHistory
<1>1. SwitchTypeOK /\ InstallActors  BY DEF SwitchInv
<1>2. SwitchTypeOK'
  <2>1. SwitchNamesOK'  BY <1>1
  <2>2. SwitchFilesOK' /\ SwitchModesOK'  BY <1>1
  <2>3. SwitchPlacesOK'  BY <1>1
  <2>4. SwitchFlagsOK'  BY <1>1
  <2>5. SwitchCountsOK'  BY <1>1
  <2>. QED  BY <2>1, <2>2, <2>3, <2>4, <2>5
<1>3. InstallActors'  BY <1>1 DEF InstallActors
<1>4. ASSUME ~isTorn' PROVE (ClearInv /\ DoneInv /\ OpenInv /\ UndoneInv /\ DoingInv)'
  <2>1. ~isTorn /\ ClearInv /\ DoneInv /\ OpenInv /\ UndoneInv /\ DoingInv  BY <1>4 DEF SwitchInv
  <2>. USE DEF InstallActors, ClearInv, DoneInv, OpenInv, TakingBack, UndoneInv, DoingInv, Replaced, Restored, Described
  <2>2. ClearInv'  BY <1>1, <1>4, <2>1
  <2>3. DoneInv'  BY <1>1, <1>4, <2>1
  <2>4. OpenInv'  BY <1>1, <1>4, <2>1
  <2>5. UndoneInv'
    <3>1. CASE isTxDir /\ ~isCommitted
      <4>1. isPc = "paths" /\ isPc' = "runtime" /\ isActor' = isActor /\ isTroubles' = isTroubles /\ isRecorded' = isRecorded
        BY DEF UndoPaths, Undoing, isTransaction, isHistory
      <4>2. "payload" \in isRecorded => "backups" \in isTx  BY <2>1, <3>1, <4>1 DEF OpenInv, Described
      <4>. DEFINE listed == IF isActor = "install" \/ "paths" \in isTx THEN isRecorded ELSE {}
                  undone == {k \in listed \cap KnownPaths : k = "config" \/ "backups" \in isTx}
      <4>3. /\ isPayload' = (IF "payload" \in undone THEN "old" ELSE isPayload)
            /\ isConfig' = (IF "config" \in undone THEN "none" ELSE isConfig)
            /\ isFailed' = (isFailed \/ undone # listed)
        BY DEF UndoPaths
      <4>4. listed = isRecorded  BY <2>1, <3>1, <4>1 DEF OpenInv, Described
      <4>5. \A k \in isRecorded : k \in {"payload", "config"}  BY <1>1 DEF SwitchTypeOK, SwitchFilesOK
      <4>6. /\ "payload" \in isRecorded => "payload" \in undone
            /\ isActor = "install" /\ "config" \in isRecorded => "config" \in undone
            /\ isActor # "install" /\ "config" \in isRecorded => undone # listed
        BY <4>2, <4>4 DEF KnownPaths
      <4>7. "config" \notin isRecorded => undone = listed  BY <4>2, <4>4, <4>5 DEF KnownPaths
      <4>8. "payload" \notin isRecorded => isPayload = "old" /\ isConfig # "new"  BY <2>1, <3>1, <4>1 DEF OpenInv, Restored
      <4>9. "config" \notin isRecorded => isConfig # "new"  BY <2>1, <3>1 DEF OpenInv
      <4>10. isActor = "recover" /\ isFailed => isTroubles > 0 \/ "config" \in isRecorded  BY <2>1, <3>1, <4>1 DEF UndoneInv
      <4>14. "committed" \in isTx => isActor = "install" /\ ~isFailed  BY <2>1, <3>1, <4>1
      <4>15. isActor = "install" => undone = listed  BY <4>2, <4>4, <4>5 DEF KnownPaths
      <4>16. isTx' = isTx  BY DEF UndoPaths, isTransaction
      <4>. HIDE DEF listed, undone
      <4>17. "committed" \in isTx' => ~isFailed'  BY <4>3, <4>14, <4>15, <4>16
      <4>11. ~isFailed' => isPayload' = "old"  BY <4>3, <4>6, <4>8
      <4>12. ~isFailed' => isConfig' # "new"  BY <4>3, <4>6, <4>9
      <4>13. isActor = "recover" /\ isFailed' => isTroubles > 0 \/ "config" \in isRecorded  BY <4>3, <4>7, <4>10
      <4>. QED  BY <4>1, <4>11, <4>12, <4>13, <4>17 DEF UndoneInv
    <3>2. CASE ~(isTxDir /\ ~isCommitted)  BY <3>2 DEF UndoPaths, UndoneInv, isTransaction, isHistory
    <3>. QED  BY <3>1, <3>2
  <2>6. DoingInv'  BY <1>1, <1>4, <2>1
  <2>. QED  BY <2>2, <2>3, <2>4, <2>5, <2>6
<1>. QED  BY <1>2, <1>3, <1>4 DEF SwitchInv

LEMMA UndoRuntimeKeeps ==
  ASSUME SwitchInv, UndoRuntime
  PROVE  SwitchInv'
<1>. USE DEF UndoRuntime, Original, KeptRuntime, HadRuntime, Undoing, isFiles, isTransaction, isWatch, isHistory
<1>1. SwitchTypeOK /\ InstallActors  BY DEF SwitchInv
<1>2. SwitchTypeOK'
  <2>1. SwitchNamesOK'  BY <1>1
  <2>2. SwitchFilesOK' /\ SwitchModesOK'  BY <1>1
  <2>3. SwitchPlacesOK'  BY <1>1
  <2>4. SwitchFlagsOK'  BY <1>1
  <2>5. SwitchCountsOK'  BY <1>1
  <2>. QED  BY <2>1, <2>2, <2>3, <2>4, <2>5
<1>3. InstallActors'  BY <1>1 DEF InstallActors
<1>4. ASSUME ~isTorn' PROVE (ClearInv /\ DoneInv /\ OpenInv /\ UndoneInv /\ DoingInv)'
  <2>1. ~isTorn /\ ClearInv /\ DoneInv /\ OpenInv /\ UndoneInv /\ DoingInv  BY <1>4 DEF SwitchInv
  <2>. USE DEF InstallActors, ClearInv, DoneInv, OpenInv, TakingBack, UndoneInv, DoingInv, Replaced, Restored, Described
  <2>2. ClearInv'  BY <1>1, <1>4, <2>1
  <2>3. DoneInv'  BY <1>1, <1>4, <2>1
  <2>4. OpenInv'  BY <1>1, <1>4, <2>1
  <2>5. UndoneInv'  BY <1>1, <1>4, <2>1
  <2>6. DoingInv'  BY <1>1, <1>4, <2>1
  <2>. QED  BY <2>2, <2>3, <2>4, <2>5, <2>6
<1>. QED  BY <1>2, <1>3, <1>4 DEF SwitchInv

LEMMA ExchangeBackKeeps ==
  ASSUME SwitchInv, ExchangeBack
  PROVE  SwitchInv'
<1>. USE DEF ExchangeBack, Undoing, isFiles, isTransaction, isWatch, isHistory
<1>1. SwitchTypeOK /\ InstallActors  BY DEF SwitchInv
<1>2. SwitchTypeOK'
  <2>1. SwitchNamesOK'  BY <1>1
  <2>2. SwitchFilesOK' /\ SwitchModesOK'  BY <1>1
  <2>3. SwitchPlacesOK'  BY <1>1
  <2>4. SwitchFlagsOK'  BY <1>1
  <2>5. SwitchCountsOK'  BY <1>1
  <2>. QED  BY <2>1, <2>2, <2>3, <2>4, <2>5
<1>3. InstallActors'  BY <1>1 DEF InstallActors
<1>4. ASSUME ~isTorn' PROVE (ClearInv /\ DoneInv /\ OpenInv /\ UndoneInv /\ DoingInv)'
  <2>1. ~isTorn /\ ClearInv /\ DoneInv /\ OpenInv /\ UndoneInv /\ DoingInv  BY <1>4 DEF SwitchInv
  <2>. USE DEF InstallActors, ClearInv, DoneInv, OpenInv, TakingBack, UndoneInv, DoingInv, Replaced, Restored, Described
  <2>2. ClearInv'  BY <1>1, <1>4, <2>1
  <2>3. DoneInv'  BY <1>1, <1>4, <2>1
  <2>4. OpenInv'
    <3>1. CASE isTxDir /\ ~isCommitted
      <4>1. /\ isPc = "exchange" /\ isPc' = "tidy" /\ isLive' = isStaged
            /\ UNCHANGED <<isRoll, isPayload, isConfig, isTxDir, isTx, isRecorded, isActor, isFailed, isFirst, isCommitted, isUnhealthy>>
        BY DEF ExchangeBack, Undoing, isFiles, isTransaction, isWatch, isHistory
      <4>2. ~isFirst /\ isStaged = "copy" /\ isRoll = "old" /\ isTx # {} /\ "started" \in isTx  BY <2>1, <3>1, <4>1 DEF OpenInv
      <4>. QED  BY <2>1, <3>1, <4>1, <4>2 DEF OpenInv, Restored, Described, InstallPlaces, UndoPlaces
    <3>2. CASE ~(isTxDir /\ ~isCommitted)  BY <3>2 DEF ExchangeBack, OpenInv, isTransaction, isHistory
    <3>. QED  BY <3>1, <3>2
  <2>5. UndoneInv'  BY <1>1, <1>4, <2>1
  <2>6. DoingInv'  BY <1>1, <1>4, <2>1
  <2>. QED  BY <2>2, <2>3, <2>4, <2>5, <2>6
<1>. QED  BY <1>2, <1>3, <1>4 DEF SwitchInv

LEMMA TidyKeeps ==
  ASSUME SwitchInv, Tidy
  PROVE  SwitchInv'
<1>. USE DEF Tidy, Undoing, LockReleased, isFiles, isTransaction, isWatch, isHistory
<1>1. SwitchTypeOK /\ InstallActors  BY DEF SwitchInv
<1>2. SwitchTypeOK'
  <2>1. SwitchNamesOK'  BY <1>1
  <2>2. SwitchFilesOK' /\ SwitchModesOK'  BY <1>1
  <2>3. SwitchPlacesOK'  BY <1>1
  <2>4. SwitchFlagsOK'  BY <1>1
  <2>5. SwitchCountsOK'  BY <1>1
  <2>. QED  BY <2>1, <2>2, <2>3, <2>4, <2>5
<1>3. InstallActors'  BY <1>1 DEF InstallActors
<1>4. ASSUME ~isTorn' PROVE (ClearInv /\ DoneInv /\ OpenInv /\ UndoneInv /\ DoingInv)'
  <2>1. ~isTorn /\ ClearInv /\ DoneInv /\ OpenInv /\ UndoneInv /\ DoingInv  BY <1>4 DEF SwitchInv
  <2>. USE DEF InstallActors, ClearInv, DoneInv, OpenInv, TakingBack, UndoneInv, DoingInv, Replaced, Restored, Described
  <2>2. ClearInv'  BY <1>1, <1>4, <2>1
  <2>3. DoneInv'  BY <1>1, <1>4, <2>1
  <2>4. OpenInv'  BY <1>1, <1>4, <2>1
  <2>5. UndoneInv'  BY <1>1, <1>4, <2>1
  <2>6. DoingInv'  BY <1>1, <1>4, <2>1
  <2>. QED  BY <2>2, <2>3, <2>4, <2>5, <2>6
<1>. QED  BY <1>2, <1>3, <1>4 DEF SwitchInv

LEMMA DropSavedKeeps ==
  ASSUME SwitchInv, DropSaved
  PROVE  SwitchInv'
<1>. USE DEF DropSaved, Undoing, isFiles, isTransaction, isHistory
<1>1. SwitchTypeOK /\ InstallActors  BY DEF SwitchInv
<1>2. SwitchTypeOK'
  <2>1. SwitchNamesOK'  BY <1>1
  <2>2. SwitchFilesOK' /\ SwitchModesOK'  BY <1>1
  <2>3. SwitchPlacesOK'  BY <1>1
  <2>4. SwitchFlagsOK'  BY <1>1
  <2>5. SwitchCountsOK'  BY <1>1
  <2>. QED  BY <2>1, <2>2, <2>3, <2>4, <2>5
<1>3. InstallActors'  BY <1>1 DEF InstallActors
<1>4. ASSUME ~isTorn' PROVE (ClearInv /\ DoneInv /\ OpenInv /\ UndoneInv /\ DoingInv)'
  <2>1. ~isTorn /\ ClearInv /\ DoneInv /\ OpenInv /\ UndoneInv /\ DoingInv  BY <1>4 DEF SwitchInv
  <2>. USE DEF InstallActors, ClearInv, DoneInv, OpenInv, TakingBack, UndoneInv, DoingInv, Replaced, Restored, Described
  <2>2. ClearInv'  BY <1>1, <1>4, <2>1
  <2>3. DoneInv'  BY <1>1, <1>4, <2>1
  <2>4. OpenInv'  BY <1>1, <1>4, <2>1
  <2>5. UndoneInv'  BY <1>1, <1>4, <2>1
  <2>6. DoingInv'  BY <1>1, <1>4, <2>1
  <2>. QED  BY <2>2, <2>3, <2>4, <2>5, <2>6
<1>. QED  BY <1>2, <1>3, <1>4 DEF SwitchInv

LEMMA CleanOldKeeps ==
  ASSUME SwitchInv, CleanOld
  PROVE  SwitchInv'
<1>. USE DEF CleanOld, Undoing, isFiles, isTransaction, isWatch, isHistory
<1>1. SwitchTypeOK /\ InstallActors  BY DEF SwitchInv
<1>2. SwitchTypeOK'
  <2>1. SwitchNamesOK'  BY <1>1
  <2>2. SwitchFilesOK' /\ SwitchModesOK'  BY <1>1
  <2>3. SwitchPlacesOK'  BY <1>1
  <2>4. SwitchFlagsOK'  BY <1>1
  <2>5. SwitchCountsOK'  BY <1>1
  <2>. QED  BY <2>1, <2>2, <2>3, <2>4, <2>5
<1>3. InstallActors'  BY <1>1 DEF InstallActors
<1>4. ASSUME ~isTorn' PROVE (ClearInv /\ DoneInv /\ OpenInv /\ UndoneInv /\ DoingInv)'
  <2>1. ~isTorn /\ ClearInv /\ DoneInv /\ OpenInv /\ UndoneInv /\ DoingInv  BY <1>4 DEF SwitchInv
  <2>. USE DEF InstallActors, ClearInv, DoneInv, OpenInv, TakingBack, UndoneInv, DoingInv, Replaced, Restored, Described
  <2>2. ClearInv'  BY <1>1, <1>4, <2>1
  <2>3. DoneInv'  BY <1>1, <1>4, <2>1
  <2>4. OpenInv'  BY <1>1, <1>4, <2>1
  <2>5. UndoneInv'  BY <1>1, <1>4, <2>1
  <2>6. DoingInv'  BY <1>1, <1>4, <2>1
  <2>. QED  BY <2>2, <2>3, <2>4, <2>5, <2>6
<1>. QED  BY <1>2, <1>3, <1>4 DEF SwitchInv

LEMMA ResolvedKeeps ==
  ASSUME SwitchInv, Resolved
  PROVE  SwitchInv'
<1>. USE DEF Resolved, LockReleased, isRuntime, isFiles, isTransaction, isWatch, isHistory
<1>1. SwitchTypeOK /\ InstallActors  BY DEF SwitchInv
<1>2. SwitchTypeOK'
  <2>1. SwitchNamesOK'  BY <1>1
  <2>2. SwitchFilesOK' /\ SwitchModesOK'  BY <1>1
  <2>3. SwitchPlacesOK'  BY <1>1
  <2>4. SwitchFlagsOK'  BY <1>1
  <2>5. SwitchCountsOK'  BY <1>1
  <2>. QED  BY <2>1, <2>2, <2>3, <2>4, <2>5
<1>3. InstallActors'  BY <1>1 DEF InstallActors
<1>4. ASSUME ~isTorn' PROVE (ClearInv /\ DoneInv /\ OpenInv /\ UndoneInv /\ DoingInv)'
  <2>1. ~isTorn /\ ClearInv /\ DoneInv /\ OpenInv /\ UndoneInv /\ DoingInv  BY <1>4 DEF SwitchInv
  <2>. USE DEF InstallActors, ClearInv, DoneInv, OpenInv, TakingBack, UndoneInv, DoingInv, Replaced, Restored, Described
  <2>2. ClearInv'  BY <1>1, <1>4, <2>1
  <2>3. DoneInv'  BY <1>1, <1>4, <2>1
  <2>4. OpenInv'  BY <1>1, <1>4, <2>1
  <2>5. UndoneInv'  BY <1>1, <1>4, <2>1
  <2>6. DoingInv'  BY <1>1, <1>4, <2>1
  <2>. QED  BY <2>2, <2>3, <2>4, <2>5, <2>6
<1>. QED  BY <1>2, <1>3, <1>4 DEF SwitchInv

LEMMA CheckHealthKeeps ==
  ASSUME SwitchInv, CheckHealth
  PROVE  SwitchInv'
<1>. USE DEF CheckHealth, KeptRuntime, Undoing, LockReleased, isFiles, isTransaction, isWatch
<1>1. SwitchTypeOK /\ InstallActors  BY DEF SwitchInv
<1>2. SwitchTypeOK'
  <2>1. SwitchNamesOK'  BY <1>1
  <2>2. SwitchFilesOK' /\ SwitchModesOK'  BY <1>1
  <2>3. SwitchPlacesOK'  BY <1>1
  <2>4. SwitchFlagsOK'  BY <1>1
  <2>5. SwitchCountsOK'  BY <1>1
  <2>. QED  BY <2>1, <2>2, <2>3, <2>4, <2>5
<1>3. InstallActors'  BY <1>1 DEF InstallActors
<1>4. ASSUME ~isTorn' PROVE (ClearInv /\ DoneInv /\ OpenInv /\ UndoneInv /\ DoingInv)'
  <2>1. ~isTorn /\ ClearInv /\ DoneInv /\ OpenInv /\ UndoneInv /\ DoingInv  BY <1>4 DEF SwitchInv
  <2>. USE DEF InstallActors, ClearInv, DoneInv, OpenInv, TakingBack, UndoneInv, DoingInv, Replaced, Restored, Described
  <2>2. ClearInv'  BY <1>1, <1>4, <2>1
  <2>3. DoneInv'  BY <1>1, <1>4, <2>1
  <2>4. OpenInv'  BY <1>1, <1>4, <2>1
  <2>5. UndoneInv'  BY <1>1, <1>4, <2>1
  <2>6. DoingInv'  BY <1>1, <1>4, <2>1
  <2>. QED  BY <2>2, <2>3, <2>4, <2>5, <2>6
<1>. QED  BY <1>2, <1>3, <1>4 DEF SwitchInv

LEMMA FallBackKeeps ==
  ASSUME SwitchInv, FallBack
  PROVE  SwitchInv'
<1>. USE DEF FallBack, Undoing, isFiles, isTransaction, isWatch, isHistory
<1>1. SwitchTypeOK /\ InstallActors  BY DEF SwitchInv
<1>2. SwitchTypeOK'
  <2>1. SwitchNamesOK'  BY <1>1
  <2>2. SwitchFilesOK' /\ SwitchModesOK'  BY <1>1
  <2>3. SwitchPlacesOK'  BY <1>1
  <2>4. SwitchFlagsOK'  BY <1>1
  <2>5. SwitchCountsOK'  BY <1>1
  <2>. QED  BY <2>1, <2>2, <2>3, <2>4, <2>5
<1>3. InstallActors'  BY <1>1 DEF InstallActors
<1>4. ASSUME ~isTorn' PROVE (ClearInv /\ DoneInv /\ OpenInv /\ UndoneInv /\ DoingInv)'
  <2>1. ~isTorn /\ ClearInv /\ DoneInv /\ OpenInv /\ UndoneInv /\ DoingInv  BY <1>4 DEF SwitchInv
  <2>. USE DEF InstallActors, ClearInv, DoneInv, OpenInv, TakingBack, UndoneInv, DoingInv, Replaced, Restored, Described
  <2>2. ClearInv'  BY <1>1, <1>4, <2>1
  <2>3. DoneInv'  BY <1>1, <1>4, <2>1
  <2>4. OpenInv'  BY <1>1, <1>4, <2>1
  <2>5. UndoneInv'  BY <1>1, <1>4, <2>1
  <2>6. DoingInv'  BY <1>1, <1>4, <2>1
  <2>. QED  BY <2>2, <2>3, <2>4, <2>5, <2>6
<1>. QED  BY <1>2, <1>3, <1>4 DEF SwitchInv

LEMMA UndoFailsKeeps ==
  ASSUME SwitchInv, UndoFails
  PROVE  SwitchInv'
<1>0. isTroubles' > 0
  <2>. HIDE DEF SwitchNamesOK, SwitchFilesOK, SwitchModesOK, SwitchPlacesOK, SwitchFlagsOK
  <2>. QED  BY DEF SwitchInv, UndoFails
<1>. USE DEF UndoFails, isRuntime, isFiles, isTransaction, isWatch
<1>1. SwitchTypeOK /\ InstallActors  BY DEF SwitchInv
<1>2. SwitchTypeOK'
  <2>1. SwitchNamesOK'  BY <1>1
  <2>2. SwitchFilesOK' /\ SwitchModesOK'  BY <1>1
  <2>3. SwitchPlacesOK'  BY <1>1
  <2>4. SwitchFlagsOK'  BY <1>1
  <2>5. SwitchCountsOK'
    <3>. HIDE DEF SwitchNamesOK, SwitchFilesOK, SwitchModesOK, SwitchPlacesOK, SwitchFlagsOK
    <3>. QED  BY <1>1
  <2>. QED  BY <2>1, <2>2, <2>3, <2>4, <2>5
<1>3. InstallActors'  BY <1>1 DEF InstallActors
<1>4. ASSUME ~isTorn' PROVE (ClearInv /\ DoneInv /\ OpenInv /\ UndoneInv /\ DoingInv)'
  <2>1. ~isTorn /\ ClearInv /\ DoneInv /\ OpenInv /\ UndoneInv /\ DoingInv  BY <1>4 DEF SwitchInv
  <2>. USE DEF InstallActors, ClearInv, DoneInv, OpenInv, TakingBack, UndoneInv, DoingInv, Replaced, Restored, Described
  <2>2. ClearInv'  BY <1>1, <1>4, <2>1
  <2>3. DoneInv'  BY <1>1, <1>4, <2>1
  <2>4. OpenInv'  BY <1>1, <1>4, <2>1
  <2>5. UndoneInv'
    <3>1. isFailed' /\ isPc' \in {"runtime", "tidy"}  OBVIOUS
    <3>2. "committed" \notin isTx'  BY <1>4
    <3>. QED  BY <1>0, <3>1, <3>2
  <2>6. DoingInv'  BY <1>1, <1>4, <2>1
  <2>. QED  BY <2>2, <2>3, <2>4, <2>5, <2>6
<1>. QED  BY <1>2, <1>3, <1>4 DEF SwitchInv

LEMMA KilledKeeps ==
  ASSUME SwitchInv, Killed
  PROVE  SwitchInv'
<1>0. SwitchCountsOK'
  <2>1. isInstalls' = isInstalls /\ isKills' = isKills + 1 /\ isTroubles' = isTroubles  BY DEF Killed
  <2>. HIDE DEF SwitchNamesOK, SwitchFilesOK, SwitchModesOK, SwitchPlacesOK, SwitchFlagsOK
  <2>. QED  BY <2>1 DEF SwitchInv
<1>. USE DEF Killed, Deleting, LockReleased, isRuntime, isFiles, isTransaction
<1>1. SwitchTypeOK /\ InstallActors  BY DEF SwitchInv
<1>2. SwitchTypeOK'
  <2>1. SwitchNamesOK'  BY <1>1 DEF SwitchTypeOK, SwitchNamesOK, RuntimeNames
  <2>2. SwitchFilesOK'  BY <1>1 DEF SwitchTypeOK, SwitchFilesOK, TxFiles
  <2>3. SwitchModesOK'  BY <1>1 DEF SwitchTypeOK, SwitchModesOK, Services
  <2>4. SwitchPlacesOK'  BY <1>1 DEF SwitchTypeOK, SwitchPlacesOK, InstallPlaces, UndoPlaces, DonePlaces, ClearPlaces
  <2>5. SwitchFlagsOK'  BY <1>1 DEF SwitchTypeOK, SwitchFlagsOK
  <2>6. SwitchCountsOK'  BY <1>0
  <2>. QED  BY <2>1, <2>2, <2>3, <2>4, <2>5, <2>6 DEF SwitchTypeOK
<1>3. InstallActors'  BY <1>1 DEF InstallActors, InstallPlaces, UndoPlaces, DonePlaces, ClearPlaces
<1>4. ASSUME ~isTorn' PROVE (ClearInv /\ DoneInv /\ OpenInv /\ UndoneInv /\ DoingInv)'
  <2>1. ~isTorn /\ ClearInv /\ DoneInv /\ OpenInv /\ UndoneInv /\ DoingInv  BY <1>4 DEF SwitchInv
  <2>. USE DEF InstallActors, ClearInv, DoneInv, OpenInv, TakingBack, UndoneInv, DoingInv, Replaced, Restored, Described
  <2>2. ClearInv'  BY <1>1, <1>4, <2>1
  <2>3. DoneInv'  BY <1>1, <1>4, <2>1
  <2>4. OpenInv'  BY <1>1, <1>4, <2>1
  <2>5. UndoneInv'  BY <1>1, <1>4, <2>1
  <2>6. DoingInv'  BY <1>1, <1>4, <2>1
  <2>. QED  BY <2>2, <2>3, <2>4, <2>5, <2>6
<1>. QED  BY <1>2, <1>3, <1>4 DEF SwitchInv

LEMMA DeleteDoneKeeps ==
  ASSUME SwitchInv, Delete("delete done", "drop old")
  PROVE  SwitchInv'
<1>. USE DEF Delete, Undoing, isRuntime, isFiles, isWatch, isHistory
<1>1. SwitchTypeOK /\ InstallActors  BY DEF SwitchInv
<1>2. SwitchTypeOK'
  <2>1. SwitchNamesOK'  BY <1>1
  <2>2. SwitchFilesOK' /\ SwitchModesOK'  BY <1>1
  <2>3. SwitchPlacesOK'  BY <1>1
  <2>4. SwitchFlagsOK'  BY <1>1
  <2>5. SwitchCountsOK'  BY <1>1
  <2>. QED  BY <2>1, <2>2, <2>3, <2>4, <2>5
<1>3. InstallActors'  BY <1>1 DEF InstallActors
<1>4. ASSUME ~isTorn' PROVE (ClearInv /\ DoneInv /\ OpenInv /\ UndoneInv /\ DoingInv)'
  <2>1. ~isTorn /\ ClearInv /\ DoneInv /\ OpenInv /\ UndoneInv /\ DoingInv  BY <1>4 DEF SwitchInv
  <2>. USE DEF InstallActors, ClearInv, DoneInv, OpenInv, TakingBack, UndoneInv, DoingInv, Replaced, Restored, Described
  <2>2. ClearInv'  BY <1>1, <1>4, <2>1
  <2>3. DoneInv'  BY <1>1, <1>4, <2>1
  <2>4. OpenInv'  BY <1>1, <1>4, <2>1
  <2>5. UndoneInv'  BY <1>1, <1>4, <2>1
  <2>6. DoingInv'  BY <1>1, <1>4, <2>1
  <2>. QED  BY <2>2, <2>3, <2>4, <2>5, <2>6
<1>. QED  BY <1>2, <1>3, <1>4 DEF SwitchInv

LEMMA DeleteUndoneKeeps ==
  ASSUME SwitchInv, Delete("delete undone", "resolved")
  PROVE  SwitchInv'
<1>. USE DEF Delete, Undoing, isRuntime, isFiles, isWatch, isHistory
<1>1. SwitchTypeOK /\ InstallActors  BY DEF SwitchInv
<1>2. SwitchTypeOK'
  <2>1. SwitchNamesOK'  BY <1>1
  <2>2. SwitchFilesOK' /\ SwitchModesOK'  BY <1>1
  <2>3. SwitchPlacesOK'  BY <1>1
  <2>4. SwitchFlagsOK'  BY <1>1
  <2>5. SwitchCountsOK'  BY <1>1
  <2>. QED  BY <2>1, <2>2, <2>3, <2>4, <2>5
<1>3. InstallActors'  BY <1>1 DEF InstallActors
<1>4. ASSUME ~isTorn' PROVE (ClearInv /\ DoneInv /\ OpenInv /\ UndoneInv /\ DoingInv)'
  <2>1. ~isTorn /\ ClearInv /\ DoneInv /\ OpenInv /\ UndoneInv /\ DoingInv  BY <1>4 DEF SwitchInv
  <2>. USE DEF InstallActors, ClearInv, DoneInv, OpenInv, TakingBack, UndoneInv, DoingInv, Replaced, Restored, Described
  <2>2. ClearInv'  BY <1>1, <1>4, <2>1
  <2>3. DoneInv'  BY <1>1, <1>4, <2>1
  <2>4. OpenInv'  BY <1>1, <1>4, <2>1
  <2>5. UndoneInv'  BY <1>1, <1>4, <2>1
  <2>6. DoingInv'  BY <1>1, <1>4, <2>1
  <2>. QED  BY <2>2, <2>3, <2>4, <2>5, <2>6
<1>. QED  BY <1>2, <1>3, <1>4 DEF SwitchInv

LEMMA DeleteCleanedKeeps ==
  ASSUME SwitchInv, Delete("delete cleaned", "resolved")
  PROVE  SwitchInv'
<1>. USE DEF Delete, Undoing, isRuntime, isFiles, isWatch, isHistory
<1>1. SwitchTypeOK /\ InstallActors  BY DEF SwitchInv
<1>2. SwitchTypeOK'
  <2>1. SwitchNamesOK'  BY <1>1
  <2>2. SwitchFilesOK' /\ SwitchModesOK'  BY <1>1
  <2>3. SwitchPlacesOK'  BY <1>1
  <2>4. SwitchFlagsOK'  BY <1>1
  <2>5. SwitchCountsOK'  BY <1>1
  <2>. QED  BY <2>1, <2>2, <2>3, <2>4, <2>5
<1>3. InstallActors'  BY <1>1 DEF InstallActors
<1>4. ASSUME ~isTorn' PROVE (ClearInv /\ DoneInv /\ OpenInv /\ UndoneInv /\ DoingInv)'
  <2>1. ~isTorn /\ ClearInv /\ DoneInv /\ OpenInv /\ UndoneInv /\ DoingInv  BY <1>4 DEF SwitchInv
  <2>. USE DEF InstallActors, ClearInv, DoneInv, OpenInv, TakingBack, UndoneInv, DoingInv, Replaced, Restored, Described
  <2>2. ClearInv'  BY <1>1, <1>4, <2>1
  <2>3. DoneInv'  BY <1>1, <1>4, <2>1
  <2>4. OpenInv'  BY <1>1, <1>4, <2>1
  <2>5. UndoneInv'  BY <1>1, <1>4, <2>1
  <2>6. DoingInv'  BY <1>1, <1>4, <2>1
  <2>. QED  BY <2>2, <2>3, <2>4, <2>5, <2>6
<1>. QED  BY <1>2, <1>3, <1>4 DEF SwitchInv

LEMMA DeleteCommittedKeeps ==
  ASSUME SwitchInv, Delete("delete committed", "health")
  PROVE  SwitchInv'
<1>. USE DEF Delete, Undoing, isRuntime, isFiles, isWatch, isHistory
<1>1. SwitchTypeOK /\ InstallActors  BY DEF SwitchInv
<1>2. SwitchTypeOK'
  <2>1. SwitchNamesOK'  BY <1>1
  <2>2. SwitchFilesOK' /\ SwitchModesOK'  BY <1>1
  <2>3. SwitchPlacesOK'  BY <1>1
  <2>4. SwitchFlagsOK'  BY <1>1
  <2>5. SwitchCountsOK'  BY <1>1
  <2>. QED  BY <2>1, <2>2, <2>3, <2>4, <2>5
<1>3. InstallActors'  BY <1>1 DEF InstallActors
<1>4. ASSUME ~isTorn' PROVE (ClearInv /\ DoneInv /\ OpenInv /\ UndoneInv /\ DoingInv)'
  <2>1. ~isTorn /\ ClearInv /\ DoneInv /\ OpenInv /\ UndoneInv /\ DoingInv  BY <1>4 DEF SwitchInv
  <2>. USE DEF InstallActors, ClearInv, DoneInv, OpenInv, TakingBack, UndoneInv, DoingInv, Replaced, Restored, Described
  <2>2. ClearInv'  BY <1>1, <1>4, <2>1
  <2>3. DoneInv'  BY <1>1, <1>4, <2>1
  <2>4. OpenInv'  BY <1>1, <1>4, <2>1
  <2>5. UndoneInv'  BY <1>1, <1>4, <2>1
  <2>6. DoingInv'  BY <1>1, <1>4, <2>1
  <2>. QED  BY <2>2, <2>3, <2>4, <2>5, <2>6
<1>. QED  BY <1>2, <1>3, <1>4 DEF SwitchInv

HIDE DEF SwitchTypeOK, SwitchNamesOK, SwitchFilesOK, SwitchModesOK, SwitchPlacesOK, SwitchFlagsOK, SwitchCountsOK,
         RuntimeNames, TxFiles, InstallPlaces, UndoPlaces, DonePlaces, ClearPlaces, Services

\* The invariant says what an installation promises.
LEMMA SwitchImplies == SwitchInv => InstallHolds
<1>. SUFFICES ASSUME SwitchInv, ~isTorn PROVE OriginalSafe /\ RuntimeStays /\ SettledWhole /\ CommittedStays /\ RecoveryWorks
  BY DEF InstallHolds
<1>1. SwitchTypeOK /\ InstallActors /\ ClearInv /\ DoneInv /\ OpenInv /\ UndoneInv /\ DoingInv  BY DEF SwitchInv
<1>. USE DEF SwitchTypeOK, SwitchFlagsOK, ClearInv, DoneInv, OpenInv, TakingBack, Replaced, Restored, UndoPlaces, DonePlaces, ClearPlaces
<1>2. OriginalSafe
  <2>1. CASE isPc = "delete undone" /\ isTxDir  BY <1>1, <2>1 DEF OriginalSafe, UndoneInv
  <2>2. CASE ~(isPc = "delete undone" /\ isTxDir)  BY <1>1, <2>2 DEF OriginalSafe
  <2>. QED  BY <2>1, <2>2
<1>3. RuntimeStays  BY <1>1 DEF RuntimeStays
<1>4. SettledWhole  BY <1>1 DEF SettledWhole
<1>5. CommittedStays  BY <1>1 DEF CommittedStays
<1>6. RecoveryWorks
  <2>1. CASE isTxDir /\ ~isCommitted  BY <1>1, <2>1 DEF RecoveryWorks, UndoneInv
  <2>2. CASE ~(isTxDir /\ ~isCommitted)  BY <1>1, <2>2 DEF RecoveryWorks
  <2>. QED  BY <2>1, <2>2
<1>. QED  BY <1>2, <1>3, <1>4, <1>5, <1>6

LEMMA SwitchStarts == SwitchInit => SwitchInv
<1>. SUFFICES ASSUME SwitchInit PROVE SwitchInv  OBVIOUS
<1>1. SwitchNamesOK /\ SwitchModesOK  BY DEF SwitchInit, SwitchNamesOK, SwitchModesOK, RuntimeNames, Services
<1>2. SwitchFilesOK /\ SwitchPlacesOK  BY DEF SwitchInit, SwitchFilesOK, SwitchPlacesOK
<1>3. SwitchFlagsOK  BY DEF SwitchInit, SwitchFlagsOK
<1>4. SwitchCountsOK  BY DEF SwitchInit, SwitchCountsOK
<1>5. InstallActors  BY DEF SwitchInit, InstallActors, InstallPlaces
<1>6. isTxDir = FALSE /\ isPc = "off" /\ isCommitted = FALSE /\ isUnhealthy = FALSE /\ Restored  BY DEF SwitchInit, Restored
<1>7. ClearInv /\ DoneInv /\ OpenInv /\ UndoneInv /\ DoingInv
  BY <1>6 DEF ClearInv, DoneInv, OpenInv, TakingBack, UndoneInv, DoingInv
<1>. QED  BY <1>1, <1>2, <1>3, <1>4, <1>5, <1>7 DEF SwitchInv, SwitchTypeOK

(* An installation of the shell, its failures, kills and recoveries keep what it promises. *)
THEOREM InstallIsSafe == SwitchSpec => []InstallHolds
<1>1. SwitchInv /\ [SwitchNext]_switchVars => SwitchInv'
  <2>1. SwitchInv /\ UNCHANGED switchVars => SwitchInv'
    <3>. SUFFICES ASSUME SwitchInv, UNCHANGED switchVars PROVE SwitchInv'  OBVIOUS
    <3>1. SwitchTypeOK' /\ InstallActors'
      <4>1. SwitchNamesOK' /\ SwitchFilesOK' /\ SwitchModesOK'
        BY DEF SwitchInv, switchVars, SwitchTypeOK, SwitchNamesOK, SwitchFilesOK, SwitchModesOK
      <4>2. SwitchPlacesOK' /\ InstallActors'  BY DEF SwitchInv, switchVars, SwitchTypeOK, SwitchPlacesOK, InstallActors
      <4>3. SwitchFlagsOK'  BY DEF SwitchInv, switchVars, SwitchTypeOK, SwitchFlagsOK
      <4>4. SwitchCountsOK'  BY DEF SwitchInv, switchVars, SwitchTypeOK, SwitchCountsOK
      <4>. QED  BY <4>1, <4>2, <4>3, <4>4 DEF SwitchTypeOK
    <3>2. ~isTorn => (ClearInv /\ DoneInv /\ OpenInv /\ UndoneInv /\ DoingInv)'
      BY DEF SwitchInv, switchVars, ClearInv, DoneInv, OpenInv, TakingBack, UndoneInv, DoingInv, Restored, Replaced, Described
    <3>. QED  BY <3>1, <3>2 DEF SwitchInv, switchVars
  <2>. QED  BY <2>1, BeginCleanKeeps, BeginRecoveringKeeps, BeginQueuesKeeps, ReserveKeeps, StageKeeps, ArmKeeps, SnapshotPayloadKeeps, InstallPayloadKeeps, RenameStagedKeeps, ExchangeNamesKeeps, RecordConfigKeeps, WriteConfigKeeps, FinishPayloadKeeps, CommitKeeps, ReadyKeeps, DropOldKeeps, DisarmKeeps, InstallFailsKeeps, TimerFiresKeeps, LookKeeps, UndoPathsKeeps, UndoRuntimeKeeps, ExchangeBackKeeps, TidyKeeps, DropSavedKeeps, CleanOldKeeps, ResolvedKeeps, CheckHealthKeeps, FallBackKeeps, UndoFailsKeeps, KilledKeeps, DeleteDoneKeeps, DeleteUndoneKeeps, DeleteCleanedKeeps, DeleteCommittedKeeps DEF SwitchNext
<1>. QED  BY <1>1, SwitchStarts, SwitchImplies, PTL DEF SwitchSpec

------------------------------------
(***************************************************************************)
(* The configuration store, for any settings, schema version, bounds and   *)
(* files that the program may find.                                        *)
(***************************************************************************)

------------------------------------
(* Where a transaction is *)

\* The task it is at, and the lines of tasks that each kind of transaction has
\* left to do.
At(todo) == IF todo = <<>> THEN "none" ELSE Head(todo)
Now == At(tx.todo)
Rests == {<<"check", "config", "applied">>, <<"failed">>}
MigrateLines ==
  {<<>>, <<"config", "fresh">>, <<"fresh">>, <<"syncConfig", "applied">>, <<"baseline">>,
   <<"check", "config", "applied">>, <<"config", "applied">>, <<"applied">>, <<"failed">>}
    \cup {<<"pending">> \o rest : rest \in Rests}
    \cup {<<"backup", "pending">> \o rest : rest \in Rests}
PatchLines  == {<<>>, <<"check", "syncConfig">>, <<"syncConfig">>, <<"check", "config">>, <<"config">>}
RepairLines == {<<>>, <<"journal", "check", "restore", "history", "unlink">>,
                <<"check", "restore", "history", "unlink">>, <<"restore", "history", "unlink">>,
                <<"history", "unlink">>, <<"unlink">>}

\* What each kind of transaction works on.
TxInv ==
  /\ tx.op = "idle" => tx.todo = <<>>
  /\ tx.op = "migrate" => tx.todo \in MigrateLines /\ tx.step \in 1..SchemaVersion + 1 /\ journal = NoPlan
  /\ tx.op = "migrate" /\ Now # "none" => tx.step \in Steps /\ tx.next \in Config
  /\ tx.op = "patch" => /\ tx.todo \in PatchLines /\ journal = NoPlan
                        /\ tx.source \in Config /\ tx.source.schema = SchemaVersion
                        /\ tx.next \in Config /\ tx.next.schema = SchemaVersion
  /\ tx.op = "repair" => tx.todo \in RepairLines /\ tx.plan \in plans /\ tx.next = tx.plan.after /\ tx.source = Missing
  /\ tx.renamed => Now \in Renames
  /\ \A p \in plans : p.after.schema = SchemaVersion

------------------------------------
(* What it knows of the files *)

NoEdits == editCount = 0
Reaches(c, i) == c \in Config /\ c.schema >= i

\* A migration has all steps below its own; it knows the document from its last
\* read to the rename, and what it is about to record of it is on disk.
BeforeTask(tasks) == Now \in tasks \/ (Now = "config" /\ ~tx.renamed)
MigrateInv == tx.op = "migrate" =>
  /\ \A k \in Steps : k < tx.step => ledger[k].status = "applied"
  /\ Now \in {"backup", "pending", "check", "failed"} => tx.source # Missing
  /\ (Now \in {"check", "config"} /\ tx.source # Missing) \/ (Now = "pending" /\ tx.renamed) =>
       ledger[tx.step].status = "pending"
  /\ tx.source # Missing /\ BeforeTask({"backup", "pending", "check", "failed"}) =>
       /\ tx.source \in Config /\ tx.source.schema = tx.step - 1 /\ tx.next = Upgraded(tx.source, tx.step)
       /\ NoEdits => config = tx.source
  /\ tx.source = Missing /\ BeforeTask({}) => tx.next.schema = SchemaVersion /\ (NoEdits => config = Missing)
  /\ tx.source # Missing /\ (BeforeTask({"pending", "check"}) \/ (Now = "backup" /\ tx.renamed)) =>
       [step |-> tx.step, config |-> tx.source] \in backups
  /\ Now = "config" /\ tx.renamed => tx.next.schema >= tx.step /\ (NoEdits => config = tx.next)
  /\ Now = "baseline" /\ ~tx.renamed => ledger[tx.step].status = "none"
  /\ Now \in {"baseline", "syncConfig"} /\ NoEdits => Reaches(config, tx.step)
  /\ Now = "applied" /\ NoEdits => config = onDisk.config /\ Reaches(config, tx.step)

PatchInv == tx.op = "patch" =>
  /\ BeforeTask({"check"}) /\ NoEdits => config = tx.source
  /\ Now = "none" /\ NoEdits => config = onDisk.config

\* A repair has its journal on disk before it replaces anything, and takes it
\* away when both files are.
RepairInv == tx.op = "repair" =>
  /\ Now = "journal" => journal = tx.plan \/ (~tx.renamed /\ journal = NoPlan)
  /\ Now \in {"check", "restore", "history"} \/ (Now = "unlink" /\ ~tx.renamed) =>
       journal = tx.plan /\ onDisk.journal = tx.plan
  /\ Now = "restore" /\ tx.renamed /\ NoEdits => config = tx.plan.after
  /\ Now \in {"history", "unlink", "none"} /\ NoEdits => config = tx.plan.after /\ config = onDisk.config
  /\ Now = "history" /\ tx.renamed => ledger = RepairHistory
  /\ Now \in {"unlink", "none"} => ledger = RepairHistory /\ onDisk.ledger = RepairHistory

\* Between the last look and the rename the document is the one looked at.
SeenInv == Now = "config" /\ ~tx.renamed /\ tx.source # Missing /\ ~raced => config = tx.source

------------------------------------
(* What every power loss leaves *)

\* The answer is about what is on disk, and what is answered unsynced was left by a kill.
AckInv == /\ NoEdits /\ acked # Missing /\ ~presumed => config = acked /\ onDisk.config = acked
          /\ NoEdits /\ presumed => kills # 0

\* After a restoration the rebuilt history is on disk, or the journal is.
HalfInv == restored # NoPlan => \/ (ledger = RepairHistory /\ onDisk.ledger = RepairHistory)
                                \/ (journal = restored /\ onDisk.journal = restored)

\* Processes that are not killed leave nothing unsynced but the file at hand.
TxSettled(tasks) == ~(tx.renamed /\ Now \in tasks)
LedgerTasks == {"pending", "applied", "failed", "baseline", "fresh", "history"}
SyncInv == kills = 0 =>
  /\ NoEdits /\ TxSettled({"config", "restore"}) => config = onDisk.config
  /\ TxSettled(LedgerTasks) => ledger = onDisk.ledger
  /\ TxSettled({"journal", "unlink"}) => journal = onDisk.journal
  /\ TxSettled({"backup"}) => backups = onDisk.backups

BackupInv == /\ onDisk.backups \subseteq backups
             /\ kills = 0 /\ NoEdits => migrated \subseteq onDisk.backups

\* Both files are the original or the replacement of the plan.
Within(p) == /\ config \in {p.before, p.after} /\ onDisk.config \in {p.before, p.after}
             /\ ledger \in {p.history, RepairHistory} /\ onDisk.ledger \in {p.history, RepairHistory}
ResumeInv == kills = 0 /\ NoEdits =>
  /\ tx.op = "repair" => Within(tx.plan) /\ {journal, onDisk.journal} \subseteq {NoPlan, tx.plan}
  /\ \A j \in {journal, onDisk.journal} : j # NoPlan => j \in plans /\ Within(j)

StoreInv == /\ TypeOK /\ TxInv /\ MigrateInv /\ PatchInv /\ RepairInv /\ SeenInv
            /\ AckInv /\ HalfInv /\ SyncInv /\ BackupInv /\ ResumeInv

------------------------------------
(* Records *)

\* What is recorded as applied is so in the document and on disk; a document on
\* disk that is behind has a journal, or a pending entry, to say so.
RecordInv == NoEdits =>
  /\ \A i \in Steps : ledger[i].status = "applied" \/ onDisk.ledger[i].status = "applied"
                      => Reaches(config, i) /\ Reaches(onDisk.config, i)
  /\ \A k \in Steps : Reaches(config, k) /\ ~Reaches(onDisk.config, k)
                      => journal # NoPlan \/ \E i \in 1..k : ledger[i].status = "pending"

\* A configuration that is there at the start is never missing, and no history
\* is made for a missing one.
FoundInv ==
  /\ config # Missing /\ onDisk.config # Missing
  /\ tx.op = "migrate" => Now # "fresh" /\ (Now = "config" => tx.todo = <<"config", "applied">>)

------------------------------------
(* Lines of tasks *)

\* A line in two parts is done from the first.
LEMMA LineOf ==
    ASSUME NEW s \in Seq(Tasks), s # <<>>, NEW rest \in Seq(Tasks)
    PROVE  /\ s \o rest \in Seq(Tasks) /\ s \o rest # <<>> /\ Head(s \o rest) = Head(s) /\ At(s \o rest) = Head(s)
           /\ Tail(s \o rest) = Tail(s) \o rest
<1>1. Len(s) \in Nat /\ Len(s) > 0 /\ Len(rest) \in Nat  BY EmptySeq, LenProperties
<1>2. /\ s \o rest \in Seq(Tasks) /\ Len(s \o rest) = Len(s) + Len(rest)
      /\ \A i \in 1..Len(s) + Len(rest) : (s \o rest)[i] = IF i <= Len(s) THEN s[i] ELSE rest[i - Len(s)]
  BY ConcatProperties
<1>3. s \o rest # <<>> /\ Head(s \o rest) = Head(s)  BY <1>1, <1>2
<1>4. /\ Tail(s) \in Seq(Tasks) /\ Len(Tail(s)) = Len(s) - 1 /\ \A i \in 1..Len(Tail(s)) : Tail(s)[i] = s[i + 1]
  BY HeadTailProperties
<1>5. /\ Tail(s \o rest) \in Seq(Tasks) /\ Len(Tail(s \o rest)) = Len(s \o rest) - 1
      /\ \A i \in 1..Len(Tail(s \o rest)) : Tail(s \o rest)[i] = (s \o rest)[i + 1]
  BY <1>2, <1>3, HeadTailProperties
<1>6. /\ Tail(s) \o rest \in Seq(Tasks) /\ Len(Tail(s) \o rest) = Len(s) - 1 + Len(rest)
      /\ \A i \in 1..Len(s) - 1 + Len(rest) :
            (Tail(s) \o rest)[i] = IF i <= Len(s) - 1 THEN Tail(s)[i] ELSE rest[i - (Len(s) - 1)]
  BY <1>4, ConcatProperties
<1>7. \A i \in 1..Len(Tail(s \o rest)) : Tail(s \o rest)[i] = (Tail(s) \o rest)[i]
  <2> SUFFICES ASSUME NEW i \in 1..Len(Tail(s \o rest)) PROVE Tail(s \o rest)[i] = (Tail(s) \o rest)[i]  OBVIOUS
  <2>1. Tail(s \o rest)[i] = IF i + 1 <= Len(s) THEN s[i + 1] ELSE rest[i + 1 - Len(s)]  BY <1>1, <1>2, <1>5
  <2>2. (Tail(s) \o rest)[i] = IF i <= Len(s) - 1 THEN s[i + 1] ELSE rest[i - (Len(s) - 1)]  BY <1>1, <1>2, <1>4, <1>5, <1>6
  <2>3. i + 1 - Len(s) = i - (Len(s) - 1) /\ (i + 1 <= Len(s) <=> i <= Len(s) - 1)  BY <1>1
  <2>4. QED  BY <2>1, <2>2, <2>3
<1>8. Tail(s \o rest) = Tail(s) \o rest  BY <1>1, <1>2, <1>5, <1>6, <1>7, SeqEqual
<1>9. QED  BY <1>2, <1>3, <1>8 DEF At

LEMMA RestLine ==
    ASSUME NEW rest \in Rests
    PROVE  rest \in Seq(Tasks) /\ rest # <<>> /\ At(rest) \in {"check", "failed"} /\ rest \in MigrateLines
<1>1. CASE rest = <<"failed">>
  <2>1. rest \in Seq(Tasks)  BY <1>1 DEF Tasks, Renames
  <2>2. At(rest) = "failed" /\ rest # <<>>  BY <1>1 DEF At
  <2>3. QED  BY <1>1, <2>1, <2>2 DEF MigrateLines
<1>2. CASE rest = <<"check", "config", "applied">>
  <2>1. rest \in Seq(Tasks)  BY <1>2 DEF Tasks, Renames
  <2>2. At(rest) = "check" /\ rest # <<>>  BY <1>2 DEF At
  <2>3. QED  BY <1>2, <2>1, <2>2 DEF MigrateLines
<1>3. QED  BY <1>1, <1>2 DEF Rests

\* What follows each task in a line of a migration, of a patch and of a repair.
LEMMA MigrateOnward ==
    ASSUME NEW s \in MigrateLines
    PROVE  /\ s \in Seq(Tasks)
           /\ At(s) = "none" <=> s = <<>>
           /\ At(s) \in {"none", "syncConfig", "backup", "pending", "check", "config", "applied", "failed", "baseline", "fresh"}
           /\ s # <<>> => Head(s) = At(s) /\ Tail(s) \in MigrateLines
           /\ At(s) = "backup" => At(Tail(s)) = "pending"
           /\ At(s) = "pending" => At(Tail(s)) \in {"check", "failed"}
           /\ At(s) = "check" => At(Tail(s)) = "config" /\ Tail(s) = <<"config", "applied">>
           /\ At(s) = "config" => At(Tail(s)) \in {"applied", "fresh"}
           /\ At(s) = "syncConfig" => At(Tail(s)) = "applied"
           /\ At(s) \in {"applied", "failed", "baseline", "fresh"} => At(Tail(s)) = "none"
<1>1. CASE s = <<>>  BY <1>1 DEF At
<1>2. CASE s = <<"config", "fresh">>
  <2>1. s # <<>> /\ Head(s) = "config" /\ At(s) = "config"  BY <1>2 DEF At
  <2>2. s \in Seq(Tasks)  BY <1>2 DEF Tasks, Renames
  <2>3. Tail(s) = <<"fresh">> /\ At(Tail(s)) = "fresh"  BY <1>2 DEF At
  <2>4. Tail(s) \in MigrateLines  BY <2>3 DEF MigrateLines
  <2>5. QED  BY <2>1, <2>2, <2>3, <2>4
<1>3. CASE s = <<"fresh">>
  <2>1. s # <<>> /\ Head(s) = "fresh" /\ At(s) = "fresh"  BY <1>3 DEF At
  <2>2. s \in Seq(Tasks)  BY <1>3 DEF Tasks, Renames
  <2>3. Tail(s) = <<>> /\ At(Tail(s)) = "none"  BY <1>3 DEF At
  <2>4. Tail(s) \in MigrateLines  BY <2>3 DEF MigrateLines
  <2>5. QED  BY <2>1, <2>2, <2>3, <2>4
<1>4. CASE s = <<"syncConfig", "applied">>
  <2>1. s # <<>> /\ Head(s) = "syncConfig" /\ At(s) = "syncConfig"  BY <1>4 DEF At
  <2>2. s \in Seq(Tasks)  BY <1>4 DEF Tasks, Renames
  <2>3. Tail(s) = <<"applied">> /\ At(Tail(s)) = "applied"  BY <1>4 DEF At
  <2>4. Tail(s) \in MigrateLines  BY <2>3 DEF MigrateLines
  <2>5. QED  BY <2>1, <2>2, <2>3, <2>4
<1>5. CASE s = <<"baseline">>
  <2>1. s # <<>> /\ Head(s) = "baseline" /\ At(s) = "baseline"  BY <1>5 DEF At
  <2>2. s \in Seq(Tasks)  BY <1>5 DEF Tasks, Renames
  <2>3. Tail(s) = <<>> /\ At(Tail(s)) = "none"  BY <1>5 DEF At
  <2>4. Tail(s) \in MigrateLines  BY <2>3 DEF MigrateLines
  <2>5. QED  BY <2>1, <2>2, <2>3, <2>4
<1>6. CASE s = <<"check", "config", "applied">>
  <2>1. s # <<>> /\ Head(s) = "check" /\ At(s) = "check"  BY <1>6 DEF At
  <2>2. s \in Seq(Tasks)  BY <1>6 DEF Tasks, Renames
  <2>3. Tail(s) = <<"config", "applied">> /\ At(Tail(s)) = "config"  BY <1>6 DEF At
  <2>4. Tail(s) \in MigrateLines  BY <2>3 DEF MigrateLines
  <2>5. QED  BY <2>1, <2>2, <2>3, <2>4
<1>7. CASE s = <<"config", "applied">>
  <2>1. s # <<>> /\ Head(s) = "config" /\ At(s) = "config"  BY <1>7 DEF At
  <2>2. s \in Seq(Tasks)  BY <1>7 DEF Tasks, Renames
  <2>3. Tail(s) = <<"applied">> /\ At(Tail(s)) = "applied"  BY <1>7 DEF At
  <2>4. Tail(s) \in MigrateLines  BY <2>3 DEF MigrateLines
  <2>5. QED  BY <2>1, <2>2, <2>3, <2>4
<1>8. CASE s = <<"applied">>
  <2>1. s # <<>> /\ Head(s) = "applied" /\ At(s) = "applied"  BY <1>8 DEF At
  <2>2. s \in Seq(Tasks)  BY <1>8 DEF Tasks, Renames
  <2>3. Tail(s) = <<>> /\ At(Tail(s)) = "none"  BY <1>8 DEF At
  <2>4. Tail(s) \in MigrateLines  BY <2>3 DEF MigrateLines
  <2>5. QED  BY <2>1, <2>2, <2>3, <2>4
<1>9. CASE s = <<"failed">>
  <2>1. s # <<>> /\ Head(s) = "failed" /\ At(s) = "failed"  BY <1>9 DEF At
  <2>2. s \in Seq(Tasks)  BY <1>9 DEF Tasks, Renames
  <2>3. Tail(s) = <<>> /\ At(Tail(s)) = "none"  BY <1>9 DEF At
  <2>4. Tail(s) \in MigrateLines  BY <2>3 DEF MigrateLines
  <2>5. QED  BY <2>1, <2>2, <2>3, <2>4
<1>10. CASE \E rest \in Rests : s = <<"pending">> \o rest
  <2>1. PICK rest \in Rests : s = <<"pending">> \o rest  BY <1>10
  <2>2. rest \in Seq(Tasks) /\ rest # <<>> /\ At(rest) \in {"check", "failed"} /\ rest \in MigrateLines  BY RestLine
  <2> DEFINE g == <<"pending">>
  <2>3. g \in Seq(Tasks) /\ g # <<>> /\ Head(g) = "pending" /\ Tail(g) = <<>>  BY DEF Tasks, Renames
  <2>4. s = g \o rest  BY <2>1
  <2> HIDE DEF g
  <2>5. At(s) = "pending" /\ Head(s) = "pending" /\ s # <<>> /\ s \in Seq(Tasks)  BY <2>2, <2>3, <2>4, LineOf
  <2>6. Tail(s) = rest
    <3>1. Tail(s) = <<>> \o rest  BY <2>2, <2>3, <2>4, LineOf
    <3>2. QED  BY <3>1, <2>2, ConcatEmptySeq
  <2>7. QED  BY <2>2, <2>5, <2>6
<1>11. CASE \E rest \in Rests : s = <<"backup", "pending">> \o rest
  <2>1. PICK rest \in Rests : s = <<"backup", "pending">> \o rest  BY <1>11
  <2>2. rest \in Seq(Tasks) /\ rest # <<>> /\ At(rest) \in {"check", "failed"} /\ rest \in MigrateLines  BY RestLine
  <2> DEFINE f == <<"backup", "pending">>
  <2> DEFINE g == <<"pending">>
  <2>3. /\ f \in Seq(Tasks) /\ f # <<>> /\ Head(f) = "backup" /\ Tail(f) = g
        /\ g \in Seq(Tasks) /\ g # <<>> /\ Head(g) = "pending"
    BY DEF Tasks, Renames
  <2>4. s = f \o rest /\ g \o rest \in MigrateLines  BY <2>1 DEF MigrateLines
  <2> HIDE DEF f, g
  <2>5. Tail(s) = g \o rest /\ At(s) = "backup" /\ Head(s) = "backup" /\ s # <<>> /\ s \in Seq(Tasks)  BY <2>2, <2>3, <2>4, LineOf
  <2>6. At(Tail(s)) = "pending" /\ Tail(s) \in MigrateLines
    <3>1. At(g \o rest) = "pending"  BY <2>2, <2>3, LineOf
    <3>2. QED  BY <3>1, <2>5, <2>4
  <2>7. QED  BY <2>2, <2>5, <2>6
<1>12. QED  BY <1>1, <1>2, <1>3, <1>4, <1>5, <1>6, <1>7, <1>8, <1>9, <1>10, <1>11 DEF MigrateLines

LEMMA PatchOnward ==
    ASSUME NEW s \in PatchLines
    PROVE  /\ s \in Seq(Tasks)
           /\ At(s) = "none" <=> s = <<>>
           /\ At(s) \in {"none", "check", "config", "syncConfig"}
           /\ s # <<>> => Head(s) = At(s) /\ Tail(s) \in PatchLines
           /\ At(s) = "check" => At(Tail(s)) \in {"config", "syncConfig"}
           /\ At(s) \in {"config", "syncConfig"} => At(Tail(s)) = "none"
<1>1. CASE s = <<>>  BY <1>1 DEF At
<1>2. CASE s = <<"check", "syncConfig">>
  <2>1. s # <<>> /\ Head(s) = "check" /\ At(s) = "check"  BY <1>2 DEF At
  <2>2. s \in Seq(Tasks)  BY <1>2 DEF Tasks, Renames
  <2>3. Tail(s) = <<"syncConfig">> /\ At(Tail(s)) = "syncConfig"  BY <1>2 DEF At
  <2>4. Tail(s) \in PatchLines  BY <2>3 DEF PatchLines
  <2>5. QED  BY <2>1, <2>2, <2>3, <2>4
<1>3. CASE s = <<"syncConfig">>
  <2>1. s # <<>> /\ Head(s) = "syncConfig" /\ At(s) = "syncConfig"  BY <1>3 DEF At
  <2>2. s \in Seq(Tasks)  BY <1>3 DEF Tasks, Renames
  <2>3. Tail(s) = <<>> /\ At(Tail(s)) = "none"  BY <1>3 DEF At
  <2>4. Tail(s) \in PatchLines  BY <2>3 DEF PatchLines
  <2>5. QED  BY <2>1, <2>2, <2>3, <2>4
<1>4. CASE s = <<"check", "config">>
  <2>1. s # <<>> /\ Head(s) = "check" /\ At(s) = "check"  BY <1>4 DEF At
  <2>2. s \in Seq(Tasks)  BY <1>4 DEF Tasks, Renames
  <2>3. Tail(s) = <<"config">> /\ At(Tail(s)) = "config"  BY <1>4 DEF At
  <2>4. Tail(s) \in PatchLines  BY <2>3 DEF PatchLines
  <2>5. QED  BY <2>1, <2>2, <2>3, <2>4
<1>5. CASE s = <<"config">>
  <2>1. s # <<>> /\ Head(s) = "config" /\ At(s) = "config"  BY <1>5 DEF At
  <2>2. s \in Seq(Tasks)  BY <1>5 DEF Tasks, Renames
  <2>3. Tail(s) = <<>> /\ At(Tail(s)) = "none"  BY <1>5 DEF At
  <2>4. Tail(s) \in PatchLines  BY <2>3 DEF PatchLines
  <2>5. QED  BY <2>1, <2>2, <2>3, <2>4
<1>6. QED  BY <1>1, <1>2, <1>3, <1>4, <1>5 DEF PatchLines

LEMMA RepairOnward ==
    ASSUME NEW s \in RepairLines
    PROVE  /\ s \in Seq(Tasks)
           /\ At(s) = "none" <=> s = <<>>
           /\ At(s) \in {"none", "journal", "check", "restore", "history", "unlink"}
           /\ s # <<>> => Head(s) = At(s) /\ Tail(s) \in RepairLines
           /\ At(s) = "journal" => At(Tail(s)) = "check"
           /\ At(s) = "check" => At(Tail(s)) = "restore"
           /\ At(s) = "restore" => At(Tail(s)) = "history"
           /\ At(s) = "history" => At(Tail(s)) = "unlink"
           /\ At(s) = "unlink" => At(Tail(s)) = "none"
<1>1. CASE s = <<>>  BY <1>1 DEF At
<1>2. CASE s = <<"journal", "check", "restore", "history", "unlink">>
  <2>1. s # <<>> /\ Head(s) = "journal" /\ At(s) = "journal"  BY <1>2 DEF At
  <2>2. s \in Seq(Tasks)  BY <1>2 DEF Tasks, Renames
  <2>3. Tail(s) = <<"check", "restore", "history", "unlink">> /\ At(Tail(s)) = "check"  BY <1>2 DEF At
  <2>4. Tail(s) \in RepairLines  BY <2>3 DEF RepairLines
  <2>5. QED  BY <2>1, <2>2, <2>3, <2>4
<1>3. CASE s = <<"check", "restore", "history", "unlink">>
  <2>1. s # <<>> /\ Head(s) = "check" /\ At(s) = "check"  BY <1>3 DEF At
  <2>2. s \in Seq(Tasks)  BY <1>3 DEF Tasks, Renames
  <2>3. Tail(s) = <<"restore", "history", "unlink">> /\ At(Tail(s)) = "restore"  BY <1>3 DEF At
  <2>4. Tail(s) \in RepairLines  BY <2>3 DEF RepairLines
  <2>5. QED  BY <2>1, <2>2, <2>3, <2>4
<1>4. CASE s = <<"restore", "history", "unlink">>
  <2>1. s # <<>> /\ Head(s) = "restore" /\ At(s) = "restore"  BY <1>4 DEF At
  <2>2. s \in Seq(Tasks)  BY <1>4 DEF Tasks, Renames
  <2>3. Tail(s) = <<"history", "unlink">> /\ At(Tail(s)) = "history"  BY <1>4 DEF At
  <2>4. Tail(s) \in RepairLines  BY <2>3 DEF RepairLines
  <2>5. QED  BY <2>1, <2>2, <2>3, <2>4
<1>5. CASE s = <<"history", "unlink">>
  <2>1. s # <<>> /\ Head(s) = "history" /\ At(s) = "history"  BY <1>5 DEF At
  <2>2. s \in Seq(Tasks)  BY <1>5 DEF Tasks, Renames
  <2>3. Tail(s) = <<"unlink">> /\ At(Tail(s)) = "unlink"  BY <1>5 DEF At
  <2>4. Tail(s) \in RepairLines  BY <2>3 DEF RepairLines
  <2>5. QED  BY <2>1, <2>2, <2>3, <2>4
<1>6. CASE s = <<"unlink">>
  <2>1. s # <<>> /\ Head(s) = "unlink" /\ At(s) = "unlink"  BY <1>6 DEF At
  <2>2. s \in Seq(Tasks)  BY <1>6 DEF Tasks, Renames
  <2>3. Tail(s) = <<>> /\ At(Tail(s)) = "none"  BY <1>6 DEF At
  <2>4. Tail(s) \in RepairLines  BY <2>3 DEF RepairLines
  <2>5. QED  BY <2>1, <2>2, <2>3, <2>4
<1>7. QED  BY <1>1, <1>2, <1>3, <1>4, <1>5, <1>6 DEF RepairLines

\* The line of a step that begins: a backup unless there is one, the entry, and
\* the rest.
LEMMA StartedLine ==
    ASSUME NEW first \in {<<"pending">>, <<"backup", "pending">>}, NEW rest \in LastTasks
    PROVE  first \o rest \in MigrateLines /\ At(first \o rest) = At(first) /\ rest \in MigrateLines
<1>1. rest \in Rests /\ rest \in Seq(Tasks) /\ rest \in MigrateLines  BY RestLine DEF LastTasks, Rests
<1>2. first \in Seq(Tasks) /\ first # <<>> /\ Head(first) = At(first)
  <2>1. CASE first = <<"pending">>  BY <2>1 DEF Tasks, Renames, At
  <2>2. CASE first = <<"backup", "pending">>  BY <2>2 DEF Tasks, Renames, At
  <2>3. QED  BY <2>1, <2>2
<1>3. QED  BY <1>1, <1>2, LineOf DEF MigrateLines

------------------------------------
(* Where a step takes the transaction *)

LEMMA OpFacts ==
    ASSUME TypeOK, TxInv
    PROVE  /\ tx \in Tx /\ (Now = "none" <=> tx.todo = <<>>) /\ (tx.todo # <<>> => Task = Now)
           /\ tx.op = "idle" => Now = "none"
           /\ tx.op = "migrate" =>
                Now \in {"none", "syncConfig", "backup", "pending", "check", "config", "applied", "failed", "baseline", "fresh"}
           /\ tx.op = "patch" => Now \in {"none", "check", "config", "syncConfig"}
           /\ tx.op = "repair" => Now \in {"none", "journal", "check", "restore", "history", "unlink"}
           /\ Now = "none" => ~tx.renamed
<1>1. tx \in Tx /\ tx.op \in {"idle", "migrate", "patch", "repair"}  BY DEF TypeOK, Tx
<1>2. tx.op = "idle" => tx.todo = <<>> /\ Now = "none"  BY DEF TxInv, Now, At
<1>3. tx.todo # <<>> => Task = Now  BY DEF Task, Now, At
<1>4. CASE tx.op = "idle"  BY <1>1, <1>2, <1>3, <1>4 DEF TxInv, Renames
<1>5. CASE tx.op = "migrate"  BY <1>1, <1>3, <1>5, MigrateOnward DEF TxInv, Renames, Now
<1>6. CASE tx.op = "patch"  BY <1>1, <1>3, <1>6, PatchOnward DEF TxInv, Renames, Now
<1>7. CASE tx.op = "repair"  BY <1>1, <1>3, <1>7, RepairOnward DEF TxInv, Renames, Now
<1>8. QED  BY <1>1, <1>4, <1>5, <1>6, <1>7

\* The file at hand is renamed.
LEMMA RenamedTx ==
    ASSUME TypeOK, TxInv, tx' = [tx EXCEPT !.renamed = TRUE]
    PROVE  /\ tx' \in Tx /\ Now' = Now /\ tx'.renamed /\ tx'.todo = tx.todo
           /\ tx'.op = tx.op /\ tx'.step = tx.step /\ tx'.source = tx.source /\ tx'.next = tx.next /\ tx'.plan = tx.plan
BY DEF TypeOK, Tx, Now

\* The next task is at hand.
LEMMA OntoTx ==
    ASSUME TypeOK, TxInv, tx.todo # <<>>, tx' = Onto
    PROVE  /\ tx' \in Tx /\ ~tx'.renamed /\ tx.op # "idle"
           /\ tx'.op = tx.op /\ tx'.step = tx.step /\ tx'.source = tx.source /\ tx'.next = tx.next /\ tx'.plan = tx.plan
           /\ tx.op = "migrate" =>
                /\ tx'.todo \in MigrateLines
                /\ Now = "backup" => Now' = "pending"
                /\ Now = "pending" => Now' \in {"check", "failed"}
                /\ Now = "check" => Now' = "config" /\ tx'.todo = <<"config", "applied">>
                /\ Now = "config" => Now' \in {"applied", "fresh"}
                /\ Now = "syncConfig" => Now' = "applied"
                /\ Now \in {"applied", "failed", "baseline", "fresh"} => Now' = "none"
           /\ tx.op = "patch" =>
                /\ tx'.todo \in PatchLines
                /\ Now = "check" => Now' \in {"config", "syncConfig"}
                /\ Now \in {"config", "syncConfig"} => Now' = "none"
           /\ tx.op = "repair" =>
                /\ tx'.todo \in RepairLines
                /\ Now = "journal" => Now' = "check"
                /\ Now = "check" => Now' = "restore"
                /\ Now = "restore" => Now' = "history"
                /\ Now = "history" => Now' = "unlink"
                /\ Now = "unlink" => Now' = "none"
<1>1. tx \in Tx /\ tx.op \in {"idle", "migrate", "patch", "repair"} /\ tx.op # "idle"  BY DEF TypeOK, TxInv, Tx
<1>2. /\ tx'.todo = Tail(tx.todo) /\ ~tx'.renamed
      /\ tx'.op = tx.op /\ tx'.step = tx.step /\ tx'.source = tx.source /\ tx'.next = tx.next /\ tx'.plan = tx.plan
  BY <1>1 DEF Onto, Tx
<1>3. Now' = At(Tail(tx.todo))  BY <1>2 DEF Now
<1>4. Tail(tx.todo) \in Seq(Tasks)  BY HeadTailProperties DEF TypeOK, Tx
<1>5. tx' \in Tx  BY <1>1, <1>4 DEF Onto, Tx
<1>6. CASE tx.op = "migrate"  BY <1>1, <1>2, <1>3, <1>5, <1>6, MigrateOnward DEF TxInv, Now
<1>7. CASE tx.op = "patch"  BY <1>1, <1>2, <1>3, <1>5, <1>7, PatchOnward DEF TxInv, Now
<1>8. CASE tx.op = "repair"  BY <1>1, <1>2, <1>3, <1>5, <1>8, RepairOnward DEF TxInv, Now
<1>9. QED  BY <1>1, <1>6, <1>7, <1>8

LEMMA IdleTx == Idle \in Tx /\ At(Idle.todo) = "none" /\ Idle.op = "idle" /\ Idle.todo = <<>> /\ ~Idle.renamed
BY ConfigAssumption, NoPlanAssumption DEF Idle, Tx, At, File

\* A transaction that is over leaves nothing to say of transactions.
LEMMA IdleInv ==
    ASSUME tx' = Idle, \A p \in plans' : p.after.schema = SchemaVersion
    PROVE  TxInv' /\ MigrateInv' /\ PatchInv' /\ RepairInv' /\ SeenInv' /\ tx' \in Tx /\ Now' = "none" /\ tx'.op = "idle" /\ ~tx'.renamed
<1>1. tx' \in Tx /\ Now' = "none" /\ tx'.op = "idle" /\ tx'.todo = <<>> /\ ~tx'.renamed  BY IdleTx DEF Now
<1>2. QED  BY <1>1 DEF TxInv, MigrateInv, PatchInv, RepairInv, SeenInv

LEMMA StoreInit == Init => StoreInv
<1> SUFFICES ASSUME Init PROVE StoreInv  OBVIOUS
<1>1. tx = Idle /\ tx \in Tx /\ Now = "none" /\ tx.op = "idle" /\ ~tx.renamed /\ tx.todo = <<>>  BY IdleTx DEF Init, Now
<1>2. ledger \in StepLedger /\ config \in File  BY ConfigAssumption DEF Init, NoHistory, NoEntry, StepLedger, StepEntry, File
<1>3. TypeOK
  <2>1. onDisk \in [config: File, ledger: StepLedger, journal: Plan \cup {NoPlan}, backups: SUBSET Backup]  BY <1>2 DEF Init
  <2>2. calls \in 0..MaxCalls /\ kills \in 0..MaxKills /\ losses \in 0..MaxLosses /\ editCount \in 0..MaxEditorWrites
    BY ConfigAssumption DEF Init
  <2>3. acked \in File /\ restored \in Plan \cup {NoPlan} /\ migrated \subseteq Backup /\ raced \in BOOLEAN /\ presumed \in BOOLEAN
    BY DEF Init, File
  <2>4. journal \in Plan \cup {NoPlan} /\ backups \subseteq Backup /\ plans \subseteq Plan  BY DEF Init
  <2>5. QED  BY <1>1, <1>2, <2>1, <2>2, <2>3, <2>4 DEF TypeOK
<1>4. TxInv /\ MigrateInv /\ PatchInv /\ RepairInv /\ SeenInv  BY <1>1 DEF Init, TxInv, MigrateInv, PatchInv, RepairInv, SeenInv
<1>5. AckInv /\ HalfInv /\ SyncInv /\ BackupInv /\ ResumeInv  BY <1>1 DEF Init, AckInv, HalfInv, SyncInv, BackupInv, ResumeInv
<1>6. QED  BY <1>3, <1>4, <1>5 DEF StoreInv

------------------------------------
(* Interruptions and editors *)

LEMMA KillInv == StoreInv /\ Kill => StoreInv'
<1> SUFFICES ASSUME StoreInv, Kill PROVE StoreInv'  OBVIOUS
<1>1. /\ UNCHANGED <<config, ledger, journal, backups, plans, onDisk, calls, losses, editCount, acked, restored, migrated, raced, presumed>>
      /\ tx' = Idle /\ kills' = kills + 1 /\ kills < MaxKills
  BY DEF Kill, history
<1>2. TxInv' /\ MigrateInv' /\ PatchInv' /\ RepairInv' /\ SeenInv' /\ tx' \in Tx /\ Now' = "none" /\ tx'.op = "idle"
  BY <1>1, IdleInv DEF StoreInv, TxInv
<1>3. kills' # 0 /\ kills' \in 0..MaxKills  BY <1>1, ConfigAssumption DEF StoreInv, TypeOK
<1>4. TypeOK'  BY <1>1, <1>2, <1>3 DEF StoreInv, TypeOK
<1>5. AckInv' /\ HalfInv' /\ SyncInv' /\ BackupInv' /\ ResumeInv'
  BY <1>1, <1>3 DEF StoreInv, AckInv, HalfInv, SyncInv, BackupInv, ResumeInv, NoEdits
<1>6. QED  BY <1>2, <1>4, <1>5 DEF StoreInv

LEMMA PowerLossInv == StoreInv /\ PowerLoss => StoreInv'
<1> SUFFICES ASSUME StoreInv, PowerLoss PROVE StoreInv'  OBVIOUS
<1>1. /\ UNCHANGED <<plans, calls, kills, editCount, acked, restored, migrated, raced, presumed>>
      /\ tx' = Idle /\ losses' = losses + 1 /\ losses < MaxLosses
      /\ config' \in {config, onDisk.config} /\ ledger' \in {ledger, onDisk.ledger}
      /\ journal' \in {journal, onDisk.journal} /\ backups' \in {backups, onDisk.backups}
      /\ onDisk' = [config |-> config', ledger |-> ledger', journal |-> journal', backups |-> backups']
  BY DEF PowerLoss, history
<1>2. TxInv' /\ MigrateInv' /\ PatchInv' /\ RepairInv' /\ SeenInv' /\ tx' \in Tx /\ Now' = "none" /\ tx'.op = "idle"
  BY <1>1, IdleInv DEF StoreInv, TxInv
<1>3. config' \in File /\ ledger' \in StepLedger /\ journal' \in Plan \cup {NoPlan} /\ backups' \subseteq Backup
  BY <1>1 DEF StoreInv, TypeOK
<1>4. onDisk' \in [config: File, ledger: StepLedger, journal: Plan \cup {NoPlan}, backups: SUBSET Backup]  BY <1>1, <1>3
<1>5. losses' \in 0..MaxLosses  BY <1>1, ConfigAssumption DEF StoreInv, TypeOK
<1>6. TypeOK'  BY <1>1, <1>2, <1>3, <1>4, <1>5 DEF StoreInv, TypeOK
<1>7. /\ onDisk'.config = config' /\ onDisk'.ledger = ledger' /\ onDisk'.journal = journal' /\ onDisk'.backups = backups'  BY <1>1
<1>8. AckInv' /\ HalfInv' /\ SyncInv'  BY <1>1, <1>7 DEF StoreInv, AckInv, HalfInv, SyncInv, NoEdits
<1>9. BackupInv'  BY <1>1, <1>7 DEF StoreInv, BackupInv, NoEdits
<1>10. ResumeInv'  BY <1>1, <1>2, <1>7 DEF StoreInv, ResumeInv, Within, NoEdits
<1>11. QED  BY <1>2, <1>6, <1>8, <1>9, <1>10 DEF StoreInv

LEMMA EditInv == StoreInv /\ (\E c \in FirstConfigs : Edit(c)) => StoreInv'
<1> SUFFICES ASSUME StoreInv, NEW c \in FirstConfigs, Edit(c) PROVE StoreInv'  OBVIOUS
<1>1. /\ UNCHANGED <<ledger, journal, backups, plans, onDisk, tx, calls, kills, losses, migrated>>
      /\ editCount' = editCount + 1 /\ editCount < MaxEditorWrites /\ config' = c /\ acked' = Missing /\ presumed' = FALSE /\ restored' = NoPlan
      /\ raced' = (tx.op # "idle" /\ Doable({"config", "restore"}))
  BY DEF Edit
<1>2. editCount' # 0 /\ editCount' \in 0..MaxEditorWrites  BY <1>1, ConfigAssumption DEF StoreInv, TypeOK
<1>3. Now' = Now  BY <1>1 DEF Now
<1>4. raced' \in BOOLEAN  BY <1>1
<1>5. TypeOK'
  <2>1. config' \in File /\ acked' \in File /\ restored' \in Plan \cup {NoPlan}  BY <1>1, ConfigAssumption DEF File
  <2>2. QED  BY <1>1, <1>2, <1>4, <2>1 DEF StoreInv, TypeOK
<1>6. TxInv'  BY <1>1, <1>3 DEF StoreInv, TxInv
<1>7. MigrateInv'  BY <1>1, <1>2, <1>3 DEF StoreInv, MigrateInv, BeforeTask, NoEdits
<1>8. PatchInv' /\ RepairInv'  BY <1>1, <1>2, <1>3 DEF StoreInv, PatchInv, RepairInv, BeforeTask, NoEdits
<1>9. SeenInv'
  <2>1. Now = "config" /\ ~tx.renamed => tx.op # "idle" /\ Doable({"config", "restore"})  BY OpFacts DEF StoreInv, Doable
  <2>2. QED  BY <1>1, <1>3, <2>1 DEF SeenInv
<1>10. AckInv' /\ HalfInv' /\ BackupInv' /\ ResumeInv'  BY <1>1, <1>2 DEF StoreInv, AckInv, HalfInv, BackupInv, ResumeInv, NoEdits
<1>11. SyncInv'  BY <1>1, <1>2, <1>3 DEF StoreInv, SyncInv, NoEdits, TxSettled
<1>12. QED  BY <1>5, <1>6, <1>7, <1>8, <1>9, <1>10, <1>11 DEF StoreInv
------------------------------------
(* Transactions begin *)

LEMMA BeginFacts ==
    ASSUME StoreInv, Begin
    PROVE  /\ UNCHANGED <<config, ledger, journal, backups, onDisk, kills, losses, editCount, acked, restored, migrated, raced, presumed>>
           /\ tx.op = "idle" /\ tx.todo = <<>> /\ ~tx.renamed /\ calls' \in 0..MaxCalls
<1>1. /\ UNCHANGED <<config, ledger, journal, backups, onDisk, kills, losses, editCount, acked, restored, migrated, raced, presumed>>
      /\ tx.op = "idle" /\ calls' = calls + 1 /\ calls < MaxCalls
  BY DEF Begin, StoreLocked, history
<1>2. calls' \in 0..MaxCalls  BY <1>1, ConfigAssumption DEF StoreInv, TypeOK
<1>3. tx.todo = <<>> /\ ~tx.renamed  BY <1>1, OpFacts DEF StoreInv
<1>4. QED  BY <1>1, <1>2, <1>3

\* Until it renames something, a transaction that begins changes nothing that
\* is known of the files.
LEMMA BeginInv ==
    ASSUME StoreInv, Begin, plans' = plans, tx' \in Tx, ~tx'.renamed,
           TxInv', MigrateInv', PatchInv', RepairInv', SeenInv',
           tx'.op = "repair" => ResumeInv'
    PROVE  StoreInv'
<1>1. /\ UNCHANGED <<config, ledger, journal, backups, onDisk, kills, losses, editCount, acked, restored, migrated, raced, presumed>>
      /\ tx.op = "idle" /\ tx.todo = <<>> /\ ~tx.renamed /\ calls' \in 0..MaxCalls
  BY BeginFacts
<1>2. TypeOK'  BY <1>1 DEF StoreInv, TypeOK
<1>3. AckInv' /\ HalfInv' /\ BackupInv'  BY <1>1 DEF StoreInv, AckInv, HalfInv, BackupInv, NoEdits
<1>4. SyncInv'  BY <1>1 DEF StoreInv, SyncInv, NoEdits, TxSettled
<1>5. ResumeInv'  BY <1>1 DEF StoreInv, ResumeInv, NoEdits, Within
<1>6. QED  BY <1>2, <1>3, <1>4, <1>5 DEF StoreInv

LEMMA FreshIsConfig == FreshConfig \in Config /\ FreshConfig.schema = SchemaVersion
BY ConfigAssumption DEF FreshConfig, Config

LEMMA MigrateBeginInv == StoreInv /\ MigrateBegin => StoreInv'
<1> SUFFICES ASSUME StoreInv, MigrateBegin PROVE StoreInv'  OBVIOUS
<1>1. /\ UNCHANGED <<config, ledger, journal, backups, onDisk, kills, losses, editCount, acked, restored, migrated, raced, presumed>>
      /\ tx.op = "idle" /\ tx.todo = <<>> /\ ~tx.renamed /\ calls' \in 0..MaxCalls
  BY BeginFacts DEF MigrateBegin
<1>2. Begin /\ journal = NoPlan /\ plans' = plans  BY DEF MigrateBegin
<1>3. tx \in Tx /\ \A p \in plans : p.after.schema = SchemaVersion  BY DEF StoreInv, TypeOK, TxInv
<1>4. SchemaVersion \in Nat \ {0} /\ 1 \in 0..SchemaVersion + 1 /\ 1 \in 1..SchemaVersion + 1 /\ 1 \in Steps
  BY ConfigAssumption DEF Steps
<1>5. CASE config = Missing /\ tx' = [Doing(<<"config", "fresh">>, FreshConfig) EXCEPT !.op = "migrate", !.step = 1]
  <2>1. <<"config", "fresh">> \in Seq(Tasks) /\ At(<<"config", "fresh">>) = "config" /\ <<"config", "fresh">> \in MigrateLines
    BY DEF Tasks, Renames, At, MigrateLines
  <2>2. /\ tx'.op = "migrate" /\ tx'.step = 1 /\ tx'.todo = <<"config", "fresh">> /\ tx'.source = Missing
        /\ tx'.next = FreshConfig /\ ~tx'.renamed
    BY <1>1, <1>3, <1>5 DEF Doing, Tx
  <2>3. tx' \in Tx  BY <1>3, <1>4, <1>5, <2>1, FreshIsConfig DEF Doing, Tx, File
  <2>4. Now' = "config"  BY <2>1, <2>2 DEF Now
  <2>5. TxInv'  BY <1>1, <1>2, <1>3, <1>4, <2>1, <2>2, <2>4, FreshIsConfig DEF TxInv
  <2>6. MigrateInv'  BY <1>1, <1>4, <1>5, <2>2, <2>4, FreshIsConfig DEF MigrateInv, BeforeTask, Steps
  <2>7. PatchInv' /\ RepairInv' /\ SeenInv'  BY <2>2, <2>4 DEF PatchInv, RepairInv, SeenInv
  <2>8. QED  BY <1>2, <2>2, <2>3, <2>5, <2>6, <2>7, BeginInv
<1>6. CASE tx' = [Idle EXCEPT !.op = "migrate", !.step = 1]
  <2>1. tx'.op = "migrate" /\ tx'.step = 1 /\ tx'.todo = <<>> /\ ~tx'.renamed  BY <1>6 DEF Idle
  <2>2. tx' \in Tx  BY <1>4, <1>6, IdleTx DEF Idle, Tx
  <2>3. Now' = "none"  BY <2>1 DEF Now, At
  <2>4. TxInv'  BY <1>1, <1>2, <1>3, <1>4, <2>1, <2>3 DEF TxInv, MigrateLines
  <2>5. MigrateInv'  BY <1>4, <2>1, <2>3 DEF MigrateInv, BeforeTask, Steps
  <2>6. PatchInv' /\ RepairInv' /\ SeenInv'  BY <2>1, <2>3 DEF PatchInv, RepairInv, SeenInv
  <2>7. QED  BY <1>2, <2>1, <2>2, <2>4, <2>5, <2>6, BeginInv
<1>7. QED  BY <1>5, <1>6 DEF MigrateBegin

LEMMA PatchStepInv == StoreInv /\ (\E before, value \in Values : Patch(before, value)) => StoreInv'
<1> SUFFICES ASSUME StoreInv, NEW before \in Values, NEW value \in Values, Patch(before, value) PROVE StoreInv'  OBVIOUS
<1>1. /\ UNCHANGED <<config, ledger, journal, backups, onDisk, kills, losses, editCount, acked, restored, migrated, raced, presumed>>
      /\ tx.op = "idle" /\ tx.todo = <<>> /\ ~tx.renamed /\ calls' \in 0..MaxCalls
  BY BeginFacts DEF Patch
<1>2. Begin /\ journal = NoPlan /\ plans' = plans /\ config \in Config /\ config.schema = SchemaVersion  BY DEF Patch, Readable
<1>3. tx \in Tx /\ \A p \in plans : p.after.schema = SchemaVersion  BY DEF StoreInv, TypeOK, TxInv
<1> DEFINE next == [config EXCEPT !.data = value]
           todo == IF next = config THEN <<"check", "syncConfig">> ELSE <<"check", "config">>
<1>4. tx' = [Doing(todo, next) EXCEPT !.op = "patch"]  BY DEF Patch
<1>5. next \in Config /\ next.schema = SchemaVersion  BY <1>2 DEF Config
<1>6. todo \in Seq(Tasks) /\ At(todo) = "check" /\ todo \in PatchLines
  <2>1. <<"check", "syncConfig">> \in Seq(Tasks) /\ At(<<"check", "syncConfig">>) = "check"
        /\ <<"check", "syncConfig">> \in PatchLines
    BY DEF Tasks, Renames, At, PatchLines
  <2>2. <<"check", "config">> \in Seq(Tasks) /\ At(<<"check", "config">>) = "check" /\ <<"check", "config">> \in PatchLines
    BY DEF Tasks, Renames, At, PatchLines
  <2>3. CASE next = config  BY <2>1, <2>3
  <2>4. CASE next # config  BY <2>2, <2>4
  <2>5. QED  BY <2>3, <2>4
<1> HIDE DEF next, todo
<1>7. /\ tx'.op = "patch" /\ tx'.todo = todo /\ tx'.source = config /\ tx'.next = next /\ ~tx'.renamed
  BY <1>1, <1>3, <1>4 DEF Doing, Tx
<1>8. tx' \in Tx  BY <1>2, <1>3, <1>4, <1>5, <1>6 DEF Doing, Tx, File
<1>9. Now' = "check"  BY <1>6, <1>7 DEF Now
<1>10. TxInv'  BY <1>1, <1>2, <1>3, <1>5, <1>6, <1>7, <1>9 DEF TxInv
<1>11. MigrateInv' /\ PatchInv' /\ RepairInv' /\ SeenInv'  BY <1>1, <1>7, <1>9 DEF MigrateInv, PatchInv, RepairInv, SeenInv
<1>12. QED  BY <1>2, <1>7, <1>8, <1>10, <1>11, BeginInv

LEMMA PreviewInv == StoreInv /\ (\E candidate \in FirstConfigs \cap Config : Preview(candidate)) => StoreInv'
<1> SUFFICES ASSUME StoreInv, NEW candidate \in FirstConfigs \cap Config, Preview(candidate) PROVE StoreInv'  OBVIOUS
<1> DEFINE plan == [before |-> config, history |-> ledger, after |-> Upgraded(candidate, SchemaVersion)]
<1>1. /\ UNCHANGED <<config, ledger, journal, backups, onDisk, kills, losses, editCount, acked, restored, migrated, raced, presumed>>
      /\ tx.op = "idle" /\ tx.todo = <<>> /\ ~tx.renamed /\ calls' \in 0..MaxCalls
  BY BeginFacts DEF Preview
<1>2. plans' = plans \cup {plan} /\ tx' = tx  BY DEF Preview
<1>3. Upgraded(candidate, SchemaVersion) \in Config /\ Upgraded(candidate, SchemaVersion).schema = SchemaVersion
  BY ConfigAssumption DEF Upgraded, Config
<1>4. plan \in Plan /\ plan.after.schema = SchemaVersion  BY <1>3 DEF Plan, StoreInv, TypeOK
<1> HIDE DEF plan
<1>5. Now' = Now  BY <1>2 DEF Now
<1>6. TypeOK'  BY <1>1, <1>2, <1>4 DEF StoreInv, TypeOK
<1>7. TxInv'  BY <1>1, <1>2, <1>4, <1>5 DEF StoreInv, TxInv
<1>8. MigrateInv' /\ PatchInv' /\ RepairInv'  BY <1>1, <1>2 DEF StoreInv, MigrateInv, PatchInv, RepairInv
<1>9. SeenInv'  BY <1>1, <1>2, <1>5 DEF StoreInv, SeenInv
<1>10. AckInv' /\ HalfInv' /\ BackupInv'  BY <1>1, <1>2 DEF StoreInv, AckInv, HalfInv, BackupInv, NoEdits
<1>11. SyncInv'  BY <1>1, <1>2, <1>5 DEF StoreInv, SyncInv, NoEdits, TxSettled
<1>12. ResumeInv'  BY <1>1, <1>2 DEF StoreInv, ResumeInv, NoEdits, Within
<1>13. QED  BY <1>6, <1>7, <1>8, <1>9, <1>10, <1>11, <1>12 DEF StoreInv

LEMMA RepairBeginInv == StoreInv /\ (\E plan \in plans : RepairBegin(plan)) => StoreInv'
<1> SUFFICES ASSUME StoreInv, NEW plan \in plans, RepairBegin(plan) PROVE StoreInv'  OBVIOUS
<1> DEFINE todo == <<"journal", "check", "restore", "history", "unlink">>
<1>1. /\ UNCHANGED <<config, ledger, journal, backups, onDisk, kills, losses, editCount, acked, restored, migrated, raced, presumed>>
      /\ tx.op = "idle" /\ tx.todo = <<>> /\ ~tx.renamed /\ calls' \in 0..MaxCalls
  BY BeginFacts DEF RepairBegin
<1>2. /\ Begin /\ journal \in {NoPlan, plan} /\ plans' = plans
      /\ config = plan.before \/ (journal = plan /\ config = plan.after)
      /\ ledger = plan.history \/ (journal = plan /\ ledger = RepairHistory)
      /\ tx' = [Idle EXCEPT !.op = "repair", !.plan = plan, !.next = plan.after, !.todo = todo]
  BY DEF RepairBegin
<1>3. plan \in Plan /\ plan.after \in Config /\ plan.after.schema = SchemaVersion /\ \A p \in plans : p.after.schema = SchemaVersion
  BY DEF StoreInv, TypeOK, TxInv, Plan
<1>4. todo \in Seq(Tasks) /\ At(todo) = "journal" /\ todo \in RepairLines  BY DEF Tasks, Renames, At, RepairLines
<1> HIDE DEF todo
<1>5. tx'.op = "repair" /\ tx'.todo = todo /\ tx'.plan = plan /\ tx'.next = plan.after /\ tx'.source = Missing /\ ~tx'.renamed
  BY <1>2 DEF Idle
<1>6. tx' \in Tx  BY <1>2, <1>3, <1>4, IdleTx DEF Idle, Tx, File
<1>7. Now' = "journal"  BY <1>4, <1>5 DEF Now
<1>8. TxInv'  BY <1>2, <1>3, <1>4, <1>5, <1>7 DEF TxInv
<1>9. MigrateInv' /\ PatchInv' /\ RepairInv' /\ SeenInv'  BY <1>1, <1>2, <1>5, <1>7 DEF MigrateInv, PatchInv, RepairInv, SeenInv
<1>10. ResumeInv'
  <2> SUFFICES ASSUME kills = 0, NoEdits
               PROVE  /\ Within(plan)' /\ {journal', onDisk'.journal} \subseteq {NoPlan, plan}
                      /\ \A j \in {journal', onDisk'.journal} : j # NoPlan => j \in plans' /\ Within(j)'
    BY <1>1, <1>2, <1>5 DEF ResumeInv, NoEdits, Within
  <2>1. config = onDisk.config /\ ledger = onDisk.ledger /\ journal = onDisk.journal  BY <1>1 DEF StoreInv, SyncInv, TxSettled
  <2>2. Within(plan)  BY <1>2, <2>1 DEF Within
  <2>3. QED  BY <1>1, <1>2, <2>1, <2>2 DEF Within
<1>11. QED  BY <1>2, <1>5, <1>6, <1>8, <1>9, <1>10, BeginInv

------------------------------------
(* A migration takes a step, and the last look at the document *)

\* The answer of a repair that was applied before.
LEMMA RepairAgainInv == StoreInv /\ (\E plan \in plans : RepairAgain(plan)) => StoreInv'
<1> SUFFICES ASSUME StoreInv, NEW plan \in plans, RepairAgain(plan) PROVE StoreInv'  OBVIOUS
<1>1. /\ UNCHANGED <<config, ledger, journal, backups, plans, onDisk, tx, kills, losses, editCount, restored, migrated, raced>>
      /\ acked' = config /\ presumed' = (config # onDisk.config)
      /\ tx.op = "idle" /\ calls < MaxCalls /\ calls' = calls + 1
  BY DEF RepairAgain, StoreLocked
<1>2. Now' = Now /\ ~tx.renamed  BY <1>1, OpFacts DEF Now, StoreInv
<1>3. calls' \in 0..MaxCalls  BY <1>1, ConfigAssumption DEF StoreInv, TypeOK
<1>4. TypeOK'  BY <1>1, <1>3 DEF StoreInv, TypeOK
<1>5. TxInv' /\ PatchInv' /\ RepairInv' /\ SeenInv'
  BY <1>1, <1>2 DEF StoreInv, TxInv, PatchInv, RepairInv, SeenInv, BeforeTask, NoEdits
<1>6. MigrateInv'  BY <1>1, <1>2 DEF StoreInv, MigrateInv, BeforeTask, NoEdits, Reaches
<1>7. AckInv'
  <2>1. kills = 0 /\ NoEdits => config = onDisk.config  BY <1>2 DEF StoreInv, SyncInv, TxSettled
  <2>2. QED  BY <1>1, <2>1 DEF AckInv, NoEdits
<1>8. HalfInv' /\ SyncInv' /\ BackupInv' /\ ResumeInv'
  BY <1>1, <1>2 DEF StoreInv, HalfInv, SyncInv, BackupInv, ResumeInv, Within, TxSettled, NoEdits
<1>9. QED  BY <1>4, <1>5, <1>6, <1>7, <1>8 DEF StoreInv

\* Neither changes a file.
Still == UNCHANGED <<config, ledger, journal, backups, plans, onDisk, calls, kills, losses, editCount,
                     acked, restored, migrated, raced, presumed>>

LEMMA StillInv ==
    ASSUME StoreInv, Still, ~tx.renamed, tx' \in Tx, ~tx'.renamed,
           TxInv', MigrateInv', PatchInv', RepairInv', SeenInv',
           tx'.op = "repair" => tx.op = "repair" /\ tx'.plan = tx.plan
    PROVE  StoreInv'
<1>1. TypeOK'  BY DEF StoreInv, TypeOK, Still
<1>2. AckInv' /\ HalfInv' /\ BackupInv'  BY DEF StoreInv, AckInv, HalfInv, BackupInv, NoEdits, Still
<1>3. SyncInv'  BY DEF StoreInv, SyncInv, NoEdits, TxSettled, Still
<1>4. ResumeInv'  BY DEF StoreInv, ResumeInv, NoEdits, Within, Still
<1>5. QED  BY <1>1, <1>2, <1>3, <1>4 DEF StoreInv

\* What a step of a migration takes up: a line of tasks for the document it read.
LEMMA TakenUp ==
    ASSUME StoreInv, MigrateStep, Readable, tx.step \in Steps,
           NEW todo \in MigrateLines, NEW next \in Config, tx' = Doing(todo, next),
           At(todo) \in {"syncConfig", "baseline", "check", "failed", "backup", "pending"},
           At(todo) \in {"check", "failed", "backup", "pending"} =>
             config.schema = tx.step - 1 /\ next = Upgraded(config, tx.step),
           At(todo) \in {"check", "pending"} => [step |-> tx.step, config |-> config] \in backups,
           At(todo) = "check" => ledger[tx.step].status = "pending",
           At(todo) = "baseline" => ledger[tx.step].status = "none",
           At(todo) \in {"syncConfig", "baseline"} => config.schema >= tx.step
    PROVE  StoreInv'
<1>1. Still /\ tx.op = "migrate" /\ tx.todo = <<>>  BY DEF MigrateStep, Still, counters, history
<1>2. tx \in Tx /\ ~tx.renamed /\ journal = NoPlan /\ tx.step \in 1..SchemaVersion + 1  BY <1>1, OpFacts DEF StoreInv, TxInv
<1>3. todo \in Seq(Tasks)  BY MigrateOnward
<1>4. config \in Config /\ config # Missing  BY ConfigAssumption DEF Readable
<1>5. /\ tx'.op = "migrate" /\ tx'.todo = todo /\ tx'.step = tx.step /\ tx'.source = config
      /\ tx'.next = next /\ ~tx'.renamed
  BY <1>1, <1>2 DEF Doing, Tx
<1>6. tx' \in Tx  BY <1>2, <1>3, <1>4 DEF Doing, Tx, File
<1>7. Now' = At(todo)  BY <1>5 DEF Now
<1>8. TxInv'  BY <1>1, <1>2, <1>5, <1>7 DEF StoreInv, TxInv, Still
<1>9. MigrateInv'
  <2>1. \A k \in Steps : k < tx.step => ledger[k].status = "applied"  BY <1>1 DEF StoreInv, MigrateInv
  <2>2. QED  BY <1>1, <1>4, <1>5, <1>7, <2>1 DEF MigrateInv, BeforeTask, Reaches, Still
<1>10. PatchInv' /\ RepairInv' /\ SeenInv'  BY <1>5, <1>7 DEF PatchInv, RepairInv, SeenInv
<1>11. QED  BY <1>1, <1>2, <1>5, <1>6, <1>8, <1>9, <1>10, StillInv

LEMMA MigrateStepInv == StoreInv /\ MigrateStep => StoreInv'
<1> SUFFICES ASSUME StoreInv, MigrateStep PROVE StoreInv'  OBVIOUS
<1>1. Still /\ tx.op = "migrate" /\ tx.todo = <<>>  BY DEF MigrateStep, Still, counters, history
<1>2. tx \in Tx /\ ~tx.renamed /\ journal = NoPlan /\ tx.step \in 1..SchemaVersion + 1 /\ \A p \in plans : p.after.schema = SchemaVersion
  BY <1>1, OpFacts DEF StoreInv, TxInv
<1>3. SchemaVersion \in Nat  BY ConfigAssumption
<1> DEFINE e == ledger[tx.step]
           s == config.schema
<1>4. CASE StepRefused
  <2>1. tx' = Idle /\ plans' = plans  BY <1>1, <1>4 DEF StepRefused, Still
  <2>2. TxInv' /\ MigrateInv' /\ PatchInv' /\ RepairInv' /\ SeenInv' /\ tx' \in Tx /\ tx'.op = "idle" /\ ~tx'.renamed
    BY <1>2, <2>1, IdleInv
  <2>3. QED  BY <1>1, <1>2, <2>2, StillInv
<1>5. ASSUME StepTaken PROVE StoreInv'
  <2>1. /\ tx.step <= SchemaVersion /\ Readable
        /\ AlreadyApplied(e, s) \/ Resumed(e, s) \/ AtBaseline(e, s) \/ RetriedStep(e, s) \/ Started(e, s)
    BY <1>5 DEF StepTaken
  <2>2. tx.step \in Steps /\ config \in Config /\ s \in 0..SchemaVersion /\ e \in StepEntry
    <3>1. tx.step \in Steps  BY <1>2, <1>3, <2>1 DEF Steps
    <3>2. config \in Config  BY <2>1 DEF Readable
    <3>3. s \in 0..SchemaVersion  BY <3>2 DEF Config
    <3>4. e \in StepEntry  BY <3>1 DEF StoreInv, TypeOK, StepLedger
    <3>5. QED  BY <3>1, <3>2, <3>3, <3>4
  <2>3. Upgraded(config, tx.step) \in Config  BY <1>3, <2>2 DEF Upgraded, Config, Steps
  <2>4. CASE AlreadyApplied(e, s)
    <3>1. tx' = [Idle EXCEPT !.op = "migrate", !.step = tx.step + 1] /\ e.status = "applied"  BY <2>4 DEF AlreadyApplied
    <3>2. tx'.op = "migrate" /\ tx'.step = tx.step + 1 /\ tx'.todo = <<>> /\ ~tx'.renamed /\ Now' = "none"
      BY <3>1 DEF Idle, Now, At
    <3>3. tx.step + 1 \in 0..SchemaVersion + 1 /\ tx.step + 1 \in 1..SchemaVersion + 1  BY <1>3, <2>2 DEF Steps
    <3>4. tx' \in Tx  BY <3>1, <3>3, IdleTx DEF Idle, Tx
    <3>5. TxInv'  BY <1>1, <1>2, <3>2, <3>3 DEF TxInv, MigrateLines, Still
    <3>6. MigrateInv'
      <4>1. \A k \in Steps : k < tx.step => ledger[k].status = "applied"  BY <1>1 DEF StoreInv, MigrateInv
      <4>2. \A k \in Steps : k < tx.step + 1 => ledger[k].status = "applied"  BY <2>2, <3>1, <4>1 DEF Steps
      <4>3. QED  BY <1>1, <3>2, <4>2 DEF MigrateInv, BeforeTask, Still
    <3>7. PatchInv' /\ RepairInv' /\ SeenInv'  BY <3>2 DEF PatchInv, RepairInv, SeenInv
    <3>8. QED  BY <1>1, <1>2, <3>2, <3>4, <3>5, <3>6, <3>7, StillInv
  <2>5. CASE Resumed(e, s)
    <3> DEFINE todo == <<"syncConfig", "applied">>
    <3>1. todo \in MigrateLines /\ At(todo) = "syncConfig"  BY DEF MigrateLines, At
    <3>2. tx' = Doing(todo, config) /\ s >= tx.step  BY <2>5 DEF Resumed
    <3> HIDE DEF todo
    <3>3. QED  BY <2>1, <2>2, <3>1, <3>2, TakenUp
  <2>6. CASE AtBaseline(e, s)
    <3> DEFINE todo == <<"baseline">>
    <3>1. todo \in MigrateLines /\ At(todo) = "baseline"  BY DEF MigrateLines, At
    <3>2. tx' = Doing(todo, config) /\ s >= tx.step /\ e.status = "none"  BY <2>6 DEF AtBaseline
    <3> HIDE DEF todo
    <3>3. QED  BY <2>1, <2>2, <3>1, <3>2, TakenUp
  <2>7. CASE RetriedStep(e, s)
    <3>1. PICK rest \in LastTasks : tx' = Doing(rest, Upgraded(config, tx.step))  BY <2>7 DEF RetriedStep
    <3>2. rest \in MigrateLines /\ At(rest) \in {"check", "failed"}  BY RestLine DEF LastTasks, Rests
    <3>3. e.status = "pending" /\ s = tx.step - 1 /\ [step |-> tx.step, config |-> config] \in backups
      BY <2>7 DEF RetriedStep, KeptStep
    <3>4. QED  BY <2>1, <2>2, <2>3, <3>1, <3>2, <3>3, TakenUp
  <2>8. CASE Started(e, s)
    <3> DEFINE first == IF [step |-> tx.step, config |-> config] \in backups
                          THEN <<"pending">> ELSE <<"backup", "pending">>
    <3>1. PICK rest \in LastTasks : tx' = Doing(first \o rest, Upgraded(config, tx.step))  BY <2>8 DEF Started
    <3>2. e.status = "none" /\ s = tx.step - 1  BY <2>8 DEF Started
    <3>3. /\ first \in {<<"pending">>, <<"backup", "pending">>} /\ At(first) \in {"pending", "backup"}
          /\ At(first) = "pending" => [step |-> tx.step, config |-> config] \in backups
      <4>1. CASE [step |-> tx.step, config |-> config] \in backups  BY <4>1 DEF At
      <4>2. CASE [step |-> tx.step, config |-> config] \notin backups  BY <4>2 DEF At
      <4>3. QED  BY <4>1, <4>2
    <3> HIDE DEF first
    <3>4. first \o rest \in MigrateLines /\ At(first \o rest) = At(first)  BY <3>3, StartedLine
    <3>5. QED  BY <2>1, <2>2, <2>3, <3>1, <3>2, <3>3, <3>4, TakenUp
  <2>9. QED  BY <2>1, <2>4, <2>5, <2>6, <2>7, <2>8
<1>6. QED  BY <1>4, <1>5 DEF MigrateStep

LEMMA CheckInv == StoreInv /\ CheckSource => StoreInv'
<1> SUFFICES ASSUME StoreInv, CheckSource PROVE StoreInv'  OBVIOUS
<1>1. Still /\ tx.todo # <<>> /\ ~tx.renamed /\ Task = "check" /\ tx' = IF Untouched THEN Onto ELSE Idle
  BY DEF CheckSource, Doable, Still, counters, history
<1>2. Now = "check" /\ tx \in Tx /\ \A p \in plans : p.after.schema = SchemaVersion  BY <1>1, OpFacts DEF StoreInv, TxInv
<1>3. CASE tx' = Idle
  <2>1. TxInv' /\ MigrateInv' /\ PatchInv' /\ RepairInv' /\ SeenInv' /\ tx' \in Tx /\ tx'.op = "idle" /\ ~tx'.renamed
    BY <1>1, <1>2, <1>3, IdleInv DEF Still
  <2>2. QED  BY <1>1, <2>1, StillInv
<1>4. CASE tx' = Onto /\ Untouched
  <2>1. /\ tx' \in Tx /\ ~tx'.renamed /\ tx.op # "idle"
        /\ tx'.op = tx.op /\ tx'.step = tx.step /\ tx'.source = tx.source /\ tx'.next = tx.next /\ tx'.plan = tx.plan
        /\ tx.op = "migrate" => tx'.todo \in MigrateLines /\ Now' = "config"
        /\ tx.op = "patch" => tx'.todo \in PatchLines /\ Now' \in {"config", "syncConfig"}
        /\ tx.op = "repair" => tx'.todo \in RepairLines /\ Now' = "restore"
    BY <1>1, <1>2, <1>4, OntoTx DEF StoreInv
  <2>2. TxInv'  BY <1>1, <1>2, <2>1 DEF StoreInv, TxInv, Still
  <2>3. MigrateInv'  BY <1>1, <1>2, <2>1 DEF StoreInv, MigrateInv, BeforeTask, NoEdits, Still
  <2>4. PatchInv'  BY <1>1, <1>2, <2>1 DEF StoreInv, PatchInv, BeforeTask, NoEdits, Still
  <2>5. RepairInv'  BY <1>1, <1>2, <2>1 DEF StoreInv, RepairInv, NoEdits, Still
  <2>6. SeenInv'  BY <1>1, <1>4, <2>1 DEF SeenInv, Untouched, Still, Tx
  <2>7. QED  BY <1>1, <2>1, <2>2, <2>3, <2>4, <2>5, <2>6, StillInv
<1>5. QED  BY <1>1, <1>3, <1>4

------------------------------------
(* Files are replaced *)

\* What every rename shares: the transaction stays where it is.
Renamed == tx.todo # <<>> /\ ~tx.renamed /\ tx' = [tx EXCEPT !.renamed = TRUE]

LEMMA RenameFacts ==
    ASSUME StoreInv, Renamed
    PROVE  /\ tx' \in Tx /\ Now' = Now /\ tx'.renamed /\ tx'.todo = tx.todo /\ tx.op \in {"migrate", "patch", "repair"}
           /\ tx'.op = tx.op /\ tx'.step = tx.step /\ tx'.source = tx.source /\ tx'.next = tx.next /\ tx'.plan = tx.plan
           /\ Task = Now /\ Now # "none" /\ tx \in Tx
           /\ tx.op = "migrate" => tx.step \in Steps /\ tx.next \in Config
           /\ tx.op = "migrate" => Now \in {"syncConfig", "backup", "pending", "check", "config", "applied", "failed", "baseline", "fresh"}
           /\ tx.op = "patch" => Now \in {"check", "config", "syncConfig"}
           /\ tx.op = "repair" => Now \in {"journal", "check", "restore", "history", "unlink"}
<1>1. /\ tx' \in Tx /\ Now' = Now /\ tx'.renamed /\ tx'.todo = tx.todo
      /\ tx'.op = tx.op /\ tx'.step = tx.step /\ tx'.source = tx.source /\ tx'.next = tx.next /\ tx'.plan = tx.plan
  BY RenamedTx DEF StoreInv, Renamed
<1>2. Task = Now /\ Now # "none" /\ tx \in Tx /\ tx.op # "idle"  BY OpFacts DEF StoreInv, Renamed
<1>3. tx.op \in {"migrate", "patch", "repair"}  BY <1>2 DEF Tx
<1>4. tx.op = "migrate" => tx.step \in Steps /\ tx.next \in Config  BY <1>2 DEF StoreInv, TxInv
<1>5. QED  BY <1>1, <1>2, <1>3, <1>4, OpFacts DEF StoreInv

LEMMA RenameConfigInv == StoreInv /\ RenameConfig => StoreInv'
<1> SUFFICES ASSUME StoreInv, RenameConfig PROVE StoreInv'  OBVIOUS
<1>1. /\ UNCHANGED <<ledger, journal, backups, plans, onDisk, calls, kills, losses, editCount>>
      /\ config' = tx.next /\ acked' = Missing /\ raced' = FALSE /\ presumed' = FALSE
      /\ restored' = IF Task = "restore" THEN tx.plan ELSE NoPlan
      /\ migrated' = IF tx.op = "migrate" /\ Readable
                       THEN migrated \cup {[step |-> tx.step, config |-> config]} ELSE migrated
  BY DEF RenameConfig, counters
<1>2. Renamed /\ Task \in {"config", "restore"}  BY DEF RenameConfig, Renamed, Doable
<1>3. /\ tx' \in Tx /\ Now' = Now /\ tx'.renamed /\ tx'.todo = tx.todo /\ tx.op \in {"migrate", "patch", "repair"}
      /\ tx'.op = tx.op /\ tx'.step = tx.step /\ tx'.source = tx.source /\ tx'.next = tx.next /\ tx'.plan = tx.plan
      /\ Task = Now /\ tx \in Tx /\ ~tx.renamed
      /\ tx.op = "migrate" => tx.step \in Steps /\ tx.next \in Config /\ Now = "config"
      /\ tx.op = "patch" => Now = "config"
      /\ tx.op = "repair" => Now = "restore"
      /\ Now \in {"config", "restore"}
  BY <1>2, RenameFacts DEF Renamed
<1>4. tx.op = "repair" => tx.plan \in plans /\ tx.plan \in Plan /\ tx.next = tx.plan.after  BY DEF StoreInv, TxInv, TypeOK
<1>5. TypeOK'
  <2>1. config' \in File /\ acked' \in File /\ raced' \in BOOLEAN /\ presumed' \in BOOLEAN  BY <1>1, <1>3 DEF Tx, File
  <2>2. restored' \in Plan \cup {NoPlan}  BY <1>1, <1>3, <1>4
  <2>3. migrated' \subseteq Backup  BY <1>1, <1>3 DEF Readable, Backup, StoreInv, TypeOK
  <2>4. QED  BY <1>1, <1>3, <2>1, <2>2, <2>3 DEF StoreInv, TypeOK
<1>6. TxInv'  BY <1>1, <1>3 DEF StoreInv, TxInv, Renames
<1>7. MigrateInv'
  <2>1. CASE tx.op = "migrate"
    <3>1. tx.next.schema >= tx.step
      <4>1. CASE tx.source = Missing  BY <1>3, <2>1, <4>1, ConfigAssumption DEF StoreInv, MigrateInv, BeforeTask, Steps
      <4>2. CASE tx.source # Missing
        <5>1. tx.source \in Config /\ tx.next = Upgraded(tx.source, tx.step)
          BY <1>3, <2>1, <4>2 DEF StoreInv, MigrateInv, BeforeTask
        <5>2. tx.next.schema = tx.step  BY <5>1 DEF Upgraded, Config
        <5>3. QED  BY <1>3, <2>1, <5>2 DEF Steps
      <4>3. QED  BY <4>1, <4>2
    <3>2. \A k \in Steps : k < tx.step => ledger[k].status = "applied"  BY <2>1 DEF StoreInv, MigrateInv
    <3>3. tx.source # Missing => ledger[tx.step].status = "pending"  BY <1>3, <2>1 DEF StoreInv, MigrateInv
    <3>4. QED  BY <1>1, <1>3, <2>1, <3>1, <3>2, <3>3 DEF MigrateInv, BeforeTask, NoEdits
  <2>2. QED  BY <1>3, <2>1 DEF MigrateInv
<1>8. PatchInv'  BY <1>1, <1>3 DEF PatchInv, BeforeTask
<1>9. RepairInv'  BY <1>1, <1>3, <1>4 DEF StoreInv, RepairInv
<1>10. SeenInv' /\ AckInv'  BY <1>1, <1>3 DEF SeenInv, AckInv
<1>11. HalfInv'  BY <1>1, <1>3 DEF StoreInv, HalfInv, RepairInv
<1>12. SyncInv'  BY <1>1, <1>3 DEF StoreInv, SyncInv, TxSettled, NoEdits, LedgerTasks
<1>13. BackupInv'
  <2>1. onDisk'.backups \subseteq backups'  BY <1>1 DEF StoreInv, BackupInv
  <2>2. ASSUME kills = 0, NoEdits PROVE migrated' \subseteq onDisk.backups
    <3>1. migrated \subseteq onDisk.backups  BY <2>2 DEF StoreInv, BackupInv
    <3>2. CASE tx.op = "migrate" /\ Readable
      <4>1. tx.source # Missing  BY <1>3, <2>2, <3>2, ConfigAssumption DEF StoreInv, MigrateInv, BeforeTask, Readable
      <4>2. config = tx.source /\ [step |-> tx.step, config |-> tx.source] \in backups
        BY <1>3, <2>2, <3>2, <4>1 DEF StoreInv, MigrateInv, BeforeTask
      <4>3. backups = onDisk.backups  BY <1>3, <2>2 DEF StoreInv, SyncInv, TxSettled
      <4>4. QED  BY <1>1, <3>1, <4>2, <4>3
    <3>3. QED  BY <1>1, <3>1, <3>2
  <2>3. QED  BY <1>1, <2>1, <2>2 DEF BackupInv, NoEdits
<1>14. ResumeInv'
  <2>1. CASE tx.op = "repair"  BY <1>1, <1>3, <1>4, <2>1 DEF StoreInv, ResumeInv, Within, NoEdits
  <2>2. CASE tx.op # "repair"
    <3>1. kills = 0 => journal = NoPlan /\ onDisk.journal = NoPlan  BY <1>3, <2>2 DEF StoreInv, TxInv, SyncInv, TxSettled
    <3>2. QED  BY <1>1, <1>3, <2>2, <3>1 DEF ResumeInv
  <2>3. QED  BY <2>1, <2>2
<1>15. QED  BY <1>5, <1>6, <1>7, <1>8, <1>9, <1>10, <1>11, <1>12, <1>13, <1>14 DEF StoreInv

LEMMA RenameLedgerInv == StoreInv /\ RenameLedger => StoreInv'
<1> SUFFICES ASSUME StoreInv, RenameLedger PROVE StoreInv'  OBVIOUS
<1>1. /\ UNCHANGED <<config, journal, backups, plans, onDisk, calls, kills, losses, editCount, acked, migrated, raced, presumed>>
      /\ ledger' = Recorded(Task)
      /\ restored' = IF Task = "history" THEN restored ELSE NoPlan
  BY DEF RenameLedger, counters
<1>2. Renamed /\ Task \in LedgerTasks  BY DEF RenameLedger, Renamed, Doable, LedgerTasks
<1>3. /\ tx' \in Tx /\ Now' = Now /\ tx'.renamed /\ tx'.todo = tx.todo /\ tx.op \in {"migrate", "repair"}
      /\ tx'.op = tx.op /\ tx'.step = tx.step /\ tx'.source = tx.source /\ tx'.next = tx.next /\ tx'.plan = tx.plan
      /\ Task = Now /\ tx \in Tx /\ ~tx.renamed
      /\ tx.op = "migrate" => tx.step \in Steps /\ Now \in {"pending", "applied", "failed", "baseline", "fresh"}
      /\ tx.op = "repair" => Now = "history"
  BY <1>2, RenameFacts DEF Renamed, LedgerTasks
<1>4. ledger \in StepLedger /\ tx.source \in File  BY <1>3 DEF StoreInv, TypeOK, Tx
<1>5. CASE tx.op = "migrate"
  <2>1. ledger' \in StepLedger /\ (Now = "pending" => ledger'[tx.step].status = "pending")
    <3>1. CASE Now = "pending"  BY <1>1, <1>3, <1>4, <1>5, <3>1 DEF Recorded, StepLedger, StepEntry
    <3>2. CASE Now = "baseline"  BY <1>1, <1>3, <1>4, <1>5, <3>2 DEF Recorded, StepLedger, StepEntry, Baseline, File
    <3>3. CASE Now = "fresh"  BY <1>1, <1>3, <1>4, <1>5, <3>3 DEF Recorded, StepLedger, StepEntry, Baseline, File, FreshHistory
    <3>4. CASE Now \in {"applied", "failed"}
      <4>1. ledger' = [ledger EXCEPT ![tx.step].status = Now]  BY <1>1, <1>3, <3>4 DEF Recorded
      <4>2. QED  BY <1>3, <1>4, <1>5, <3>4, <4>1 DEF StepLedger, StepEntry
    <3>5. QED  BY <1>3, <1>5, <3>1, <3>2, <3>3, <3>4
  <2>2. \A k \in Steps : k < tx.step => ledger'[k].status = "applied"
    <3>1. \A k \in Steps : k < tx.step => ledger[k].status = "applied" /\ k # tx.step  BY <1>3, <1>5 DEF StoreInv, MigrateInv, Steps
    <3>2. CASE Now = "fresh"  BY <1>1, <1>3, <3>2 DEF Recorded, FreshHistory, Baseline
    <3>3. CASE Now = "pending"  BY <1>1, <1>3, <1>4, <3>1, <3>3 DEF Recorded, StepLedger
    <3>4. CASE Now = "baseline"  BY <1>1, <1>3, <1>4, <3>1, <3>4 DEF Recorded, StepLedger
    <3>5. CASE Now \in {"applied", "failed"}
      <4>1. ledger' = [ledger EXCEPT ![tx.step].status = Now]  BY <1>1, <1>3, <3>5 DEF Recorded
      <4>2. QED  BY <1>4, <3>1, <4>1 DEF StepLedger
    <3>6. QED  BY <1>3, <1>5, <3>2, <3>3, <3>4, <3>5
  <2>3. restored' = NoPlan  BY <1>1, <1>3, <1>5
  <2>4. TypeOK'  BY <1>1, <1>3, <2>1, <2>3 DEF StoreInv, TypeOK
  <2>5. TxInv'  BY <1>1, <1>3, <1>5 DEF StoreInv, TxInv, Renames
  <2>6. MigrateInv'
    <3>1. /\ Now \in {"pending", "failed"} => tx.source # Missing
          /\ tx.source # Missing /\ Now \in {"pending", "failed"} =>
               /\ tx.source \in Config /\ tx.source.schema = tx.step - 1 /\ tx.next = Upgraded(tx.source, tx.step)
               /\ NoEdits => config = tx.source
          /\ tx.source # Missing /\ Now = "pending" => [step |-> tx.step, config |-> tx.source] \in backups
          /\ Now = "baseline" /\ NoEdits => Reaches(config, tx.step)
          /\ Now = "applied" /\ NoEdits => config = onDisk.config /\ Reaches(config, tx.step)
      BY <1>3, <1>5 DEF StoreInv, MigrateInv, BeforeTask
    <3>2. QED  BY <1>1, <1>3, <1>5, <2>1, <2>2, <3>1 DEF MigrateInv, BeforeTask, NoEdits, Reaches
  <2>7. PatchInv' /\ RepairInv' /\ SeenInv' /\ HalfInv'  BY <1>3, <1>5, <2>3 DEF PatchInv, RepairInv, SeenInv, HalfInv
  <2>8. AckInv' /\ BackupInv'  BY <1>1 DEF StoreInv, AckInv, BackupInv, NoEdits
  <2>9. SyncInv'  BY <1>1, <1>3, <1>5 DEF StoreInv, SyncInv, TxSettled, NoEdits, LedgerTasks
  <2>10. ResumeInv'
    <3>1. kills = 0 => journal = NoPlan /\ onDisk.journal = NoPlan  BY <1>3, <1>5 DEF StoreInv, TxInv, SyncInv, TxSettled
    <3>2. QED  BY <1>1, <1>3, <1>5, <3>1 DEF ResumeInv
  <2>11. QED  BY <2>4, <2>5, <2>6, <2>7, <2>8, <2>9, <2>10 DEF StoreInv
<1>6. CASE tx.op = "repair"
  <2>1. Now = "history" /\ ledger' = RepairHistory /\ restored' = restored  BY <1>1, <1>3, <1>6 DEF Recorded
  <2>2. RepairHistory \in StepLedger  BY DEF RepairHistory, Baseline, StepLedger, StepEntry, File
  <2>3. TypeOK'  BY <1>1, <1>3, <2>1, <2>2 DEF StoreInv, TypeOK
  <2>4. TxInv'  BY <1>1, <1>3, <1>6, <2>1 DEF StoreInv, TxInv, Renames
  <2>5. MigrateInv' /\ PatchInv' /\ SeenInv'  BY <1>3, <1>6, <2>1 DEF MigrateInv, PatchInv, SeenInv
  <2>6. RepairInv'  BY <1>1, <1>3, <1>6, <2>1 DEF StoreInv, RepairInv, NoEdits
  <2>7. AckInv' /\ BackupInv' /\ HalfInv'  BY <1>1, <2>1 DEF StoreInv, AckInv, BackupInv, HalfInv, NoEdits
  <2>8. SyncInv'  BY <1>1, <1>3, <2>1 DEF StoreInv, SyncInv, TxSettled, NoEdits, LedgerTasks
  <2>9. ResumeInv'  BY <1>1, <1>3, <2>1 DEF StoreInv, ResumeInv, Within, NoEdits
  <2>10. QED  BY <2>3, <2>4, <2>5, <2>6, <2>7, <2>8, <2>9 DEF StoreInv
<1>7. QED  BY <1>3, <1>5, <1>6

LEMMA RenameJournalInv == StoreInv /\ RenameJournal => StoreInv'
<1> SUFFICES ASSUME StoreInv, RenameJournal PROVE StoreInv'  OBVIOUS
<1>1. /\ UNCHANGED <<config, ledger, backups, plans, onDisk, calls, kills, losses, editCount, acked, restored, migrated, raced, presumed>>
      /\ journal' = IF Task = "journal" THEN tx.plan ELSE NoPlan
  BY DEF RenameJournal, counters, history
<1>2. Renamed /\ Task \in {"journal", "unlink"}  BY DEF RenameJournal, Renamed, Doable
<1>3. /\ tx' \in Tx /\ Now' = Now /\ tx'.renamed /\ tx'.todo = tx.todo /\ tx.op = "repair"
      /\ tx'.op = tx.op /\ tx'.step = tx.step /\ tx'.source = tx.source /\ tx'.next = tx.next /\ tx'.plan = tx.plan
      /\ Task = Now /\ tx \in Tx /\ ~tx.renamed /\ Now \in {"journal", "unlink"}
  BY <1>2, RenameFacts DEF Renamed
<1>4. tx.plan \in plans /\ tx.plan \in Plan  BY <1>3 DEF StoreInv, TxInv, TypeOK
<1>5. journal' \in {NoPlan, tx.plan} /\ (Now = "journal" => journal' = tx.plan) /\ (Now = "unlink" => journal' = NoPlan)
  BY <1>1, <1>3
<1>6. TypeOK'  BY <1>1, <1>3, <1>4, <1>5 DEF StoreInv, TypeOK
<1>7. TxInv'  BY <1>1, <1>3 DEF StoreInv, TxInv, Renames
<1>8. MigrateInv' /\ PatchInv' /\ SeenInv'  BY <1>3 DEF MigrateInv, PatchInv, SeenInv
<1>9. RepairInv'  BY <1>1, <1>3, <1>5 DEF StoreInv, RepairInv, NoEdits
<1>10. AckInv' /\ BackupInv'  BY <1>1 DEF StoreInv, AckInv, BackupInv, NoEdits
<1>11. HalfInv'  BY <1>1, <1>3, <1>5 DEF StoreInv, HalfInv, RepairInv
<1>12. SyncInv'  BY <1>1, <1>3 DEF StoreInv, SyncInv, TxSettled, NoEdits, LedgerTasks
<1>13. ResumeInv'  BY <1>1, <1>3, <1>4, <1>5 DEF StoreInv, ResumeInv, Within, NoEdits
<1>14. QED  BY <1>6, <1>7, <1>8, <1>9, <1>10, <1>11, <1>12, <1>13 DEF StoreInv

LEMMA RenameBackupInv == StoreInv /\ RenameBackup => StoreInv'
<1> SUFFICES ASSUME StoreInv, RenameBackup PROVE StoreInv'  OBVIOUS
<1>1. /\ UNCHANGED <<config, ledger, journal, plans, onDisk, calls, kills, losses, editCount, acked, restored, migrated, raced, presumed>>
      /\ backups' = backups \cup {[step |-> tx.step, config |-> tx.source]}
  BY DEF RenameBackup, counters, history
<1>2. Renamed /\ Task = "backup"  BY DEF RenameBackup, Renamed, Doable
<1>3. /\ tx' \in Tx /\ Now' = Now /\ tx'.renamed /\ tx'.todo = tx.todo /\ tx.op = "migrate"
      /\ tx'.op = tx.op /\ tx'.step = tx.step /\ tx'.source = tx.source /\ tx'.next = tx.next /\ tx'.plan = tx.plan
      /\ tx \in Tx /\ ~tx.renamed /\ Now = "backup" /\ tx.step \in Steps
  BY <1>2, RenameFacts DEF Renamed
<1>4. /\ \A k \in Steps : k < tx.step => ledger[k].status = "applied"
      /\ tx.source # Missing /\ tx.source \in Config /\ tx.source.schema = tx.step - 1 /\ tx.next = Upgraded(tx.source, tx.step)
      /\ NoEdits => config = tx.source
  BY <1>3 DEF StoreInv, MigrateInv, BeforeTask
<1>5. TypeOK'
  <2>1. backups' \subseteq Backup  BY <1>1, <1>3, <1>4 DEF StoreInv, TypeOK, Backup
  <2>2. QED  BY <1>1, <1>3, <2>1 DEF StoreInv, TypeOK
<1>6. TxInv'  BY <1>1, <1>3 DEF StoreInv, TxInv, Renames
<1>7. MigrateInv'  BY <1>1, <1>3, <1>4 DEF MigrateInv, BeforeTask, NoEdits
<1>8. PatchInv' /\ RepairInv' /\ SeenInv'  BY <1>3 DEF PatchInv, RepairInv, SeenInv
<1>9. AckInv' /\ HalfInv' /\ BackupInv'  BY <1>1 DEF StoreInv, AckInv, HalfInv, BackupInv, NoEdits
<1>10. SyncInv'  BY <1>1, <1>3 DEF StoreInv, SyncInv, TxSettled, NoEdits, LedgerTasks
<1>11. ResumeInv'  BY <1>1, <1>3 DEF StoreInv, ResumeInv, Within, NoEdits
<1>12. QED  BY <1>5, <1>6, <1>7, <1>8, <1>9, <1>10, <1>11 DEF StoreInv

------------------------------------
(* Directories are synced, and clients answered *)

LEMMA SyncStepInv == StoreInv /\ Sync => StoreInv'
<1> SUFFICES ASSUME StoreInv, Sync PROVE StoreInv'  OBVIOUS
<1>1. /\ UNCHANGED <<config, ledger, journal, backups, plans, calls, kills, losses, editCount, acked, restored, migrated, raced, presumed>>
      /\ tx.todo # <<>> /\ (tx.renamed \/ Task = "syncConfig") /\ tx' = Onto
      /\ onDisk' = CASE Task \in {"config", "restore", "syncConfig"} -> [onDisk EXCEPT !.config = config]
                      [] Task = "backup" -> [onDisk EXCEPT !.backups = backups]
                      [] OTHER -> [onDisk EXCEPT !.ledger = ledger, !.journal = journal]
  BY DEF Sync, counters, history
<1>2. /\ Task = Now /\ tx \in Tx /\ Now # "none" /\ tx.op \in {"migrate", "patch", "repair"}
      /\ tx.op = "migrate" => Now \in {"syncConfig", "backup", "pending", "config", "applied", "failed", "baseline", "fresh"}
      /\ tx.op = "patch" => Now \in {"config", "syncConfig"}
      /\ tx.op = "repair" => Now \in {"journal", "restore", "history", "unlink"}
      /\ tx.renamed \/ Now = "syncConfig"
  <2>1. Task = Now /\ tx \in Tx /\ Now # "none" /\ tx.op # "idle"  BY <1>1, OpFacts DEF StoreInv
  <2>2. tx.op \in {"migrate", "patch", "repair"}  BY <2>1 DEF Tx
  <2>3. Now # "check"  BY <1>1, <2>1 DEF StoreInv, TxInv, Renames
  <2>4. QED  BY <1>1, <2>1, <2>2, <2>3, OpFacts DEF StoreInv
<1>3. /\ tx' \in Tx /\ ~tx'.renamed /\ tx'.op = tx.op /\ tx'.step = tx.step /\ tx'.source = tx.source
      /\ tx'.next = tx.next /\ tx'.plan = tx.plan
      /\ tx.op = "migrate" =>
           /\ tx'.todo \in MigrateLines
           /\ Now = "backup" => Now' = "pending"
           /\ Now = "pending" => Now' \in {"check", "failed"}
           /\ Now = "config" => Now' \in {"applied", "fresh"}
           /\ Now = "syncConfig" => Now' = "applied"
           /\ Now \in {"applied", "failed", "baseline", "fresh"} => Now' = "none"
      /\ tx.op = "patch" => tx'.todo \in PatchLines /\ Now' = "none"
      /\ tx.op = "repair" =>
           /\ tx'.todo \in RepairLines
           /\ Now = "journal" => Now' = "check"
           /\ Now = "restore" => Now' = "history"
           /\ Now = "history" => Now' = "unlink"
           /\ Now = "unlink" => Now' = "none"
  BY <1>1, <1>2, OntoTx DEF StoreInv
\* What is on disk afterwards.
<1>4. /\ onDisk' \in [config: File, ledger: StepLedger, journal: Plan \cup {NoPlan}, backups: SUBSET Backup]
      /\ Now \in {"config", "restore", "syncConfig"} =>
           onDisk'.config = config /\ onDisk'.ledger = onDisk.ledger /\ onDisk'.journal = onDisk.journal /\ onDisk'.backups = onDisk.backups
      /\ Now = "backup" =>
           onDisk'.config = onDisk.config /\ onDisk'.ledger = onDisk.ledger /\ onDisk'.journal = onDisk.journal /\ onDisk'.backups = backups
      /\ Now \in {"journal", "unlink"} \cup LedgerTasks =>
           onDisk'.config = onDisk.config /\ onDisk'.ledger = ledger /\ onDisk'.journal = journal /\ onDisk'.backups = onDisk.backups
  <2>1. /\ onDisk \in [config: File, ledger: StepLedger, journal: Plan \cup {NoPlan}, backups: SUBSET Backup]
        /\ config \in File /\ ledger \in StepLedger /\ journal \in Plan \cup {NoPlan} /\ backups \subseteq Backup
    BY DEF StoreInv, TypeOK
  <2>2. CASE Now \in {"config", "restore", "syncConfig"}
    <3>1. onDisk' = [onDisk EXCEPT !.config = config]  BY <1>1, <1>2, <2>2
    <3>2. QED  BY <2>1, <2>2, <3>1 DEF LedgerTasks
  <2>3. CASE Now = "backup"
    <3>1. onDisk' = [onDisk EXCEPT !.backups = backups]  BY <1>1, <1>2, <2>3
    <3>2. QED  BY <2>1, <2>3, <3>1 DEF LedgerTasks
  <2>4. CASE Now \in {"journal", "unlink"} \cup LedgerTasks
    <3>1. onDisk' = [onDisk EXCEPT !.ledger = ledger, !.journal = journal]  BY <1>1, <1>2, <2>4 DEF LedgerTasks
    <3>2. QED  BY <2>1, <2>4, <3>1 DEF LedgerTasks
  <2>5. QED  BY <1>2, <2>2, <2>3, <2>4 DEF LedgerTasks
<1>5. Now \in {"config", "restore", "syncConfig"} \/ Now = "backup" \/ Now \in {"journal", "unlink"} \cup LedgerTasks
  BY <1>2 DEF LedgerTasks
<1>6. TypeOK'  BY <1>1, <1>3, <1>4 DEF StoreInv, TypeOK
<1>7. TxInv'  BY <1>1, <1>2, <1>3 DEF StoreInv, TxInv
<1>8. MigrateInv'
  <2>1. CASE tx.op = "migrate"
    <3>1. \A k \in Steps : k < tx.step => ledger[k].status = "applied"  BY <2>1 DEF StoreInv, MigrateInv
    <3>2. CASE Now = "backup"
      <4>1. /\ tx.source # Missing /\ tx.source \in Config /\ tx.source.schema = tx.step - 1
            /\ tx.next = Upgraded(tx.source, tx.step) /\ (NoEdits => config = tx.source)
            /\ [step |-> tx.step, config |-> tx.source] \in backups
        BY <1>2, <2>1, <3>2 DEF StoreInv, MigrateInv, BeforeTask
      <4>2. QED  BY <1>1, <1>3, <2>1, <3>1, <3>2, <4>1 DEF MigrateInv, BeforeTask, NoEdits
    <3>3. CASE Now = "pending"
      <4>1. /\ tx.source # Missing /\ tx.source \in Config /\ tx.source.schema = tx.step - 1
            /\ tx.next = Upgraded(tx.source, tx.step) /\ (NoEdits => config = tx.source)
            /\ [step |-> tx.step, config |-> tx.source] \in backups /\ ledger[tx.step].status = "pending"
        BY <1>2, <2>1, <3>3 DEF StoreInv, MigrateInv, BeforeTask
      <4>2. QED  BY <1>1, <1>3, <2>1, <3>1, <3>3, <4>1 DEF MigrateInv, BeforeTask, NoEdits
    <3>4. CASE Now = "config"
      <4>1. tx.next.schema >= tx.step /\ tx.next \in Config /\ (NoEdits => config = tx.next)
        BY <1>2, <2>1, <3>4 DEF StoreInv, MigrateInv, TxInv
      <4>2. QED  BY <1>1, <1>3, <1>4, <2>1, <3>1, <3>4, <4>1 DEF MigrateInv, BeforeTask, NoEdits, Reaches
    <3>5. CASE Now = "syncConfig"
      <4>1. NoEdits => Reaches(config, tx.step)  BY <1>2, <2>1, <3>5 DEF StoreInv, MigrateInv
      <4>2. QED  BY <1>1, <1>3, <1>4, <2>1, <3>1, <3>5, <4>1 DEF MigrateInv, BeforeTask, NoEdits, Reaches
    <3>6. CASE Now \in {"applied", "failed", "baseline", "fresh"}  BY <1>1, <1>3, <2>1, <3>1, <3>6 DEF MigrateInv, BeforeTask
    <3>7. QED  BY <1>2, <2>1, <3>2, <3>3, <3>4, <3>5, <3>6
  <2>2. QED  BY <1>3, <2>1 DEF MigrateInv
<1>9. PatchInv'  BY <1>1, <1>2, <1>3, <1>4 DEF PatchInv, BeforeTask
<1>10. RepairInv'
  <2>1. CASE tx.op = "repair"
    <3>1. CASE Now = "journal"
      <4>1. journal = tx.plan  BY <1>2, <2>1, <3>1 DEF StoreInv, RepairInv
      <4>2. QED  BY <1>1, <1>3, <1>4, <2>1, <3>1, <4>1 DEF RepairInv
    <3>2. CASE Now = "restore"  BY <1>1, <1>2, <1>3, <1>4, <2>1, <3>2 DEF StoreInv, RepairInv, NoEdits
    <3>3. CASE Now = "history"  BY <1>1, <1>2, <1>3, <1>4, <2>1, <3>3 DEF StoreInv, RepairInv, NoEdits, LedgerTasks
    <3>4. CASE Now = "unlink"  BY <1>1, <1>2, <1>3, <1>4, <2>1, <3>4 DEF StoreInv, RepairInv, NoEdits, LedgerTasks
    <3>5. QED  BY <1>2, <2>1, <3>1, <3>2, <3>3, <3>4
  <2>2. QED  BY <1>3, <2>1 DEF RepairInv
<1>11. SeenInv'  BY <1>2, <1>3 DEF SeenInv
<1>12. AckInv' /\ HalfInv'  BY <1>1, <1>4, <1>5 DEF StoreInv, AckInv, HalfInv, NoEdits
<1>13. SyncInv'  BY <1>1, <1>3, <1>4, <1>5 DEF StoreInv, SyncInv, TxSettled, NoEdits, LedgerTasks
<1>14. BackupInv'  BY <1>1, <1>4, <1>5 DEF StoreInv, BackupInv, NoEdits
<1>15. ResumeInv'
  <2> SUFFICES ASSUME kills = 0, NoEdits
               PROVE  /\ tx.op = "repair" => Within(tx.plan)' /\ {journal', onDisk'.journal} \subseteq {NoPlan, tx.plan}
                      /\ \A j \in {journal', onDisk'.journal} : j # NoPlan => j \in plans' /\ Within(j)'
    BY <1>1, <1>3 DEF ResumeInv, NoEdits, Within
  <2>1. \A p \in plans : Within(p) => Within(p)'  BY <1>1, <1>4, <1>5 DEF Within
  <2>2. journal' \in {journal, onDisk.journal} /\ onDisk'.journal \in {journal, onDisk.journal}  BY <1>1, <1>4, <1>5
  <2>3. tx.op = "repair" => tx.plan \in plans /\ Within(tx.plan) /\ {journal, onDisk.journal} \subseteq {NoPlan, tx.plan}
    BY DEF StoreInv, ResumeInv, TxInv
  <2>4. \A j \in {journal, onDisk.journal} : j # NoPlan => j \in plans /\ Within(j)  BY DEF StoreInv, ResumeInv
  <2>5. tx.op = "repair" => Within(tx.plan)'  BY <1>1, <1>3, <1>4, <1>5, <2>3 DEF Within
  <2>6. QED  BY <1>1, <2>1, <2>2, <2>3, <2>4, <2>5
<1>16. QED  BY <1>6, <1>7, <1>8, <1>9, <1>10, <1>11, <1>12, <1>13, <1>14, <1>15 DEF StoreInv

LEMMA FinishInv == StoreInv /\ FinishTx => StoreInv'
<1> SUFFICES ASSUME StoreInv, FinishTx PROVE StoreInv'  OBVIOUS
<1>1. /\ UNCHANGED <<config, ledger, journal, backups, plans, onDisk, calls, kills, losses, editCount, restored, migrated, raced>>
      /\ tx.op \in {"patch", "repair"} /\ tx.todo = <<>> /\ tx' = Idle /\ acked' = config /\ presumed' = FALSE
  BY DEF FinishTx, counters
<1>2. Now = "none" /\ ~tx.renamed  BY <1>1, OpFacts DEF StoreInv
<1>3. TxInv' /\ MigrateInv' /\ PatchInv' /\ RepairInv' /\ SeenInv' /\ tx' \in Tx /\ tx'.op = "idle" /\ ~tx'.renamed
  BY <1>1, IdleInv DEF StoreInv, TxInv
<1>4. TypeOK'  BY <1>1, <1>3 DEF StoreInv, TypeOK
<1>5. AckInv'  BY <1>1, <1>2 DEF StoreInv, AckInv, PatchInv, RepairInv, NoEdits
<1>6. HalfInv' /\ BackupInv'  BY <1>1 DEF StoreInv, HalfInv, BackupInv, NoEdits
<1>7. SyncInv'  BY <1>1, <1>2 DEF StoreInv, SyncInv, TxSettled, NoEdits
<1>8. ResumeInv'  BY <1>1, <1>3 DEF StoreInv, ResumeInv, Within, NoEdits
<1>9. QED  BY <1>3, <1>4, <1>5, <1>6, <1>7, <1>8 DEF StoreInv

------------------------------------
(* Records, where a configuration is there at the start *)

LEMMA FoundInit == Missing \notin FirstConfigs /\ Init => FoundInv /\ RecordInv
<1> SUFFICES ASSUME Missing \notin FirstConfigs, Init PROVE FoundInv /\ RecordInv  OBVIOUS
<1>1. tx.op = "idle" /\ config # Missing /\ onDisk.config = config /\ onDisk.ledger = ledger  BY IdleTx DEF Init
<1>2. \A i \in Steps : ledger[i].status = "none"  BY DEF Init, NoHistory, NoEntry
<1>3. QED  BY <1>1, <1>2 DEF FoundInv, RecordInv

\* A transaction that begins, ends or moves on while the files stay.
LEMMA FoundStill ==
    ASSUME FoundInv, RecordInv, UNCHANGED <<config, ledger, journal, onDisk, editCount>>,
           tx'.op = "migrate" => Now' # "fresh" /\ (Now' = "config" => tx'.todo = <<"config", "applied">>)
    PROVE  FoundInv' /\ RecordInv'
BY DEF FoundInv, RecordInv, NoEdits, Reaches

LEMMA FoundRename ==
    ASSUME StoreInv, FoundInv, RecordInv, RenameConfig
    PROVE  FoundInv' /\ RecordInv'
<1>1. UNCHANGED <<ledger, journal, onDisk, editCount>> /\ config' = tx.next  BY DEF RenameConfig, counters
<1>2. Renamed /\ Task \in {"config", "restore"}  BY DEF RenameConfig, Renamed, Doable
<1>3. /\ Now' = Now /\ tx'.todo = tx.todo /\ tx.op \in {"migrate", "patch", "repair"}
      /\ tx'.op = tx.op /\ tx \in Tx /\ ~tx.renamed
      /\ tx.op = "migrate" => tx.step \in Steps /\ tx.next \in Config /\ Now = "config"
      /\ tx.op = "patch" => Now = "config"
      /\ tx.op = "repair" => Now = "restore"
  BY <1>2, RenameFacts DEF Renamed
<1>4. tx.next \in Config /\ Missing \notin Config  BY <1>3, ConfigAssumption DEF StoreInv, TxInv, TypeOK, Plan
<1>5. FoundInv'  BY <1>1, <1>3, <1>4 DEF FoundInv
<1>6. ASSUME NoEdits PROVE RecordInv'
  <2>1. CASE tx.op = "migrate"
    <3>1. tx.source # Missing  BY <1>3, <1>6, <2>1 DEF StoreInv, MigrateInv, BeforeTask, FoundInv
    <3>2. /\ config = tx.source /\ config \in Config /\ config.schema = tx.step - 1 /\ tx.next = Upgraded(config, tx.step)
          /\ ledger[tx.step].status = "pending"
      BY <1>3, <1>6, <2>1, <3>1 DEF StoreInv, MigrateInv, BeforeTask
    <3>3. config'.schema = tx.step  BY <1>1, <3>2 DEF Upgraded, Config
    <3>4. \A i \in Steps : Reaches(config', i) <=> Reaches(config, i) \/ i = tx.step
      <4>1. tx.step \in Nat /\ \A i \in Steps : i \in Nat  BY <1>3, <2>1 DEF Steps
      <4>2. \A i \in Steps : tx.step >= i <=> tx.step - 1 >= i \/ i = tx.step  BY <4>1
      <4>3. QED  BY <1>1, <1>4, <3>2, <3>3, <4>2 DEF Reaches
    <3>5. \A k \in Steps : k = tx.step => \E i \in 1..k : ledger[i].status = "pending"  BY <1>3, <2>1, <3>2 DEF Steps
    <3> HIDE DEF Reaches
    <3>6. \A i \in Steps : ledger'[i].status = "applied" \/ onDisk'.ledger[i].status = "applied"
                             => Reaches(config', i) /\ Reaches(onDisk'.config, i)
      BY <1>1, <1>6, <3>4 DEF RecordInv
    <3>7. \A k \in Steps : Reaches(config', k) /\ ~Reaches(onDisk'.config, k)
                             => journal' # NoPlan \/ \E i \in 1..k : ledger'[i].status = "pending"
      BY <1>1, <1>6, <3>4, <3>5 DEF RecordInv
    <3>8. QED  BY <3>6, <3>7 DEF RecordInv, Reaches
  <2>2. CASE tx.op \in {"patch", "repair"}
    <3>1. config'.schema = SchemaVersion  BY <1>1, <2>2 DEF StoreInv, TxInv
    <3>2. \A i \in Steps : Reaches(config', i)  BY <1>1, <1>4, <3>1, ConfigAssumption DEF Reaches, Steps
    <3>3. \A i \in Steps : tx.op = "patch" => Reaches(config, i)
      <4>1. tx.op = "patch" => config = tx.source /\ tx.source \in Config /\ tx.source.schema = SchemaVersion
        BY <1>3, <1>6 DEF StoreInv, PatchInv, BeforeTask, TxInv
      <4>2. QED  BY <4>1, ConfigAssumption DEF Reaches, Steps
    <3>4. tx.op = "repair" => journal # NoPlan  BY <1>3, NoPlanAssumption DEF StoreInv, RepairInv, TxInv, TypeOK
    <3>5. \A i \in Steps : ledger'[i].status = "applied" \/ onDisk'.ledger[i].status = "applied"
                             => Reaches(onDisk'.config, i)
      BY <1>1, <1>6 DEF RecordInv
    <3>6. \A k \in Steps : ~Reaches(onDisk'.config, k)
                             => journal' # NoPlan \/ \E i \in 1..k : ledger'[i].status = "pending"
      BY <1>1, <1>6, <2>2, <3>3, <3>4 DEF RecordInv
    <3>7. QED  BY <3>2, <3>5, <3>6 DEF RecordInv
  <2>3. QED  BY <1>3, <2>1, <2>2
<1>7. QED  BY <1>1, <1>5, <1>6 DEF RecordInv, NoEdits

LEMMA FoundLedger ==
    ASSUME StoreInv, FoundInv, RecordInv, RenameLedger
    PROVE  FoundInv' /\ RecordInv'
<1>1. UNCHANGED <<config, journal, onDisk, editCount>> /\ ledger' = Recorded(Task)  BY DEF RenameLedger, counters
<1>2. Renamed /\ Task \in LedgerTasks  BY DEF RenameLedger, Renamed, Doable, LedgerTasks
<1>3. /\ Now' = Now /\ tx'.todo = tx.todo /\ tx.op \in {"migrate", "repair"} /\ tx'.op = tx.op
      /\ Task = Now /\ tx \in Tx /\ ~tx.renamed
      /\ tx.op = "migrate" => tx.step \in Steps /\ Now \in {"pending", "applied", "failed", "baseline"}
      /\ tx.op = "repair" => Now = "history"
  BY <1>2, RenameFacts DEF Renamed, LedgerTasks, FoundInv
<1>4. FoundInv'  BY <1>1, <1>3 DEF FoundInv
<1>5. ASSUME NoEdits PROVE RecordInv'
  <2>1. CASE tx.op = "migrate"
    <3>1. /\ tx.step \in Steps /\ ledger \in StepLedger /\ journal = NoPlan
          /\ \A k \in Steps : k < tx.step => ledger[k].status = "applied"
      BY <1>3, <2>1 DEF StoreInv, TypeOK, MigrateInv, TxInv
    <3>2. /\ \A i \in Steps : i # tx.step => ledger'[i] = ledger[i]
          /\ ledger'[tx.step].status = IF Now = "baseline" THEN "applied" ELSE Now
      <4>1. CASE Now = "pending"  BY <1>1, <1>3, <3>1, <4>1 DEF Recorded, StepLedger
      <4>2. CASE Now = "baseline"  BY <1>1, <1>3, <3>1, <4>2 DEF Recorded, StepLedger, Baseline
      <4>3. CASE Now \in {"applied", "failed"}
        <5>1. ledger' = [ledger EXCEPT ![tx.step].status = Now]  BY <1>1, <1>3, <4>3 DEF Recorded
        <5>2. QED  BY <3>1, <4>3, <5>1 DEF StepLedger, StepEntry
      <4>4. QED
        BY <1>3, <2>1, <4>1, <4>2, <4>3
    \* Below the step everything is applied, so nothing there is pending.
    <3>3. \A k \in Steps : Reaches(config, k) /\ ~Reaches(onDisk.config, k)
                             => \E i \in tx.step..k : ledger[i].status = "pending"
      <4> SUFFICES ASSUME NEW k \in Steps, Reaches(config, k), ~Reaches(onDisk.config, k)
                   PROVE  \E i \in tx.step..k : ledger[i].status = "pending"
        OBVIOUS
      <4>1. PICK i \in 1..k : ledger[i].status = "pending"  BY <1>5, <3>1 DEF RecordInv
      <4>2. i \in Steps /\ ~(i < tx.step)  BY <3>1, <4>1, ConfigAssumption DEF Steps
      <4>3. i \in tx.step..k  BY <3>1, <4>1, <4>2 DEF Steps
      <4>4. QED  BY <4>1, <4>3
    <3>4. \A i \in Steps : onDisk.ledger[i].status = "applied" \/ ledger[i].status = "applied"
                             => Reaches(config, i) /\ Reaches(onDisk.config, i)
      BY <1>5 DEF RecordInv
    <3>5. CASE Now \in {"pending", "failed"}
      <4>1. config \in Config /\ config.schema = tx.step - 1  BY <1>3, <1>5, <2>1, <3>5 DEF StoreInv, MigrateInv, BeforeTask
      <4>2. \A k \in Steps : Reaches(config, k) => k < tx.step  BY <3>1, <4>1 DEF Reaches, Steps
      <4>3. \A k \in Steps : Reaches(config, k) => Reaches(onDisk.config, k)  BY <3>1, <3>4, <4>2
      <4>4. QED  BY <1>1, <3>1, <3>2, <3>4, <3>5, <4>3 DEF RecordInv
    <3>6. CASE Now = "applied"
      <4>1. config = onDisk.config /\ Reaches(config, tx.step)  BY <1>3, <1>5, <2>1, <3>6 DEF StoreInv, MigrateInv
      <4>2. QED  BY <1>1, <3>1, <3>2, <3>4, <3>6, <4>1 DEF RecordInv
    <3>7. CASE Now = "baseline"
      <4>1. ledger[tx.step].status = "none" /\ Reaches(config, tx.step)  BY <1>3, <1>5, <2>1, <3>7 DEF StoreInv, MigrateInv
      <4>2. Reaches(onDisk.config, tx.step)
        <5>1. SUFFICES ASSUME ~Reaches(onDisk.config, tx.step) PROVE FALSE  OBVIOUS
        <5>2. PICK i \in tx.step..tx.step : ledger[i].status = "pending"  BY <3>1, <3>3, <4>1, <5>1
        <5>3. i = tx.step  BY <3>1, <5>2 DEF Steps
        <5>4. QED  BY <4>1, <5>2, <5>3
      <4>3. \A i \in Steps : ledger'[i].status = "applied" \/ onDisk'.ledger[i].status = "applied"
                               => Reaches(config', i) /\ Reaches(onDisk'.config, i)
        BY <1>1, <3>2, <3>4, <4>1, <4>2
      <4>4. \A k \in Steps : \A i \in 1..k : ledger[i].status = "pending" => ledger'[i].status = "pending"
        BY <3>2, <4>1, ConfigAssumption DEF Steps
      <4>5. \A k \in Steps : Reaches(config', k) /\ ~Reaches(onDisk'.config, k)
                               => \E i \in 1..k : ledger'[i].status = "pending"
        BY <1>1, <1>5, <3>1, <4>4 DEF RecordInv
      <4>6. QED  BY <4>3, <4>5 DEF RecordInv
    <3>8. QED  BY <1>3, <2>1, <3>5, <3>6, <3>7
  <2>2. CASE tx.op = "repair"
    <3>1. config = onDisk.config /\ config = tx.plan.after /\ tx.plan \in plans  BY <1>3, <1>5, <2>2 DEF StoreInv, RepairInv, TxInv
    <3>2. config \in Config /\ config.schema = SchemaVersion  BY <3>1 DEF StoreInv, TxInv, TypeOK, Plan
    <3>3. \A i \in Steps : Reaches(config, i)  BY <3>2, ConfigAssumption DEF Reaches, Steps
    <3>4. QED  BY <1>1, <3>1, <3>3 DEF RecordInv
  <2>3. QED  BY <1>3, <2>1, <2>2
<1>6. QED  BY <1>1, <1>4, <1>5 DEF RecordInv, NoEdits

LEMMA FoundJournal ==
    ASSUME StoreInv, FoundInv, RecordInv, RenameJournal
    PROVE  FoundInv' /\ RecordInv'
<1>1. UNCHANGED <<config, ledger, onDisk, editCount>> /\ journal' = IF Task = "journal" THEN tx.plan ELSE NoPlan
  BY DEF RenameJournal, counters, history
<1>2. Renamed /\ Task \in {"journal", "unlink"}  BY DEF RenameJournal, Renamed, Doable
<1>3. Now' = Now /\ tx'.op = tx.op /\ tx.op = "repair" /\ Task = Now /\ ~tx.renamed  BY <1>2, RenameFacts DEF Renamed
<1>4. Now = "journal" => journal' # NoPlan  BY <1>1, <1>3, NoPlanAssumption DEF StoreInv, TxInv, TypeOK
<1>5. Now = "unlink" /\ NoEdits => config = onDisk.config  BY <1>3 DEF StoreInv, RepairInv
<1>6. FoundInv'  BY <1>1, <1>3 DEF FoundInv
<1>7. QED  BY <1>1, <1>2, <1>3, <1>4, <1>5, <1>6 DEF RecordInv, NoEdits, Reaches

LEMMA FoundSync ==
    ASSUME StoreInv, FoundInv, RecordInv, Sync
    PROVE  FoundInv' /\ RecordInv'
<1>1. /\ UNCHANGED <<config, ledger, journal, editCount>> /\ tx.todo # <<>> /\ tx' = Onto
      /\ tx.renamed \/ Task = "syncConfig"
      /\ onDisk' = CASE Task \in {"config", "restore", "syncConfig"} -> [onDisk EXCEPT !.config = config]
                      [] Task = "backup" -> [onDisk EXCEPT !.backups = backups]
                      [] OTHER -> [onDisk EXCEPT !.ledger = ledger, !.journal = journal]
  BY DEF Sync, counters, history
<1>2. Task = Now /\ Now # "none"  BY <1>1, OpFacts DEF StoreInv
<1>3. onDisk \in [config: File, ledger: StepLedger, journal: Plan \cup {NoPlan}, backups: SUBSET Backup]  BY DEF StoreInv, TypeOK
<1>4. /\ onDisk'.config = config \/ onDisk'.config = onDisk.config
      /\ onDisk'.ledger = ledger \/ onDisk'.ledger = onDisk.ledger
  <2>1. CASE Task \in {"config", "restore", "syncConfig"}  BY <1>1, <1>3, <2>1
  <2>2. CASE Task = "backup"  BY <1>1, <1>3, <2>2
  <2>3. CASE Task \notin {"config", "restore", "syncConfig", "backup"}
    <3>1. onDisk' = [onDisk EXCEPT !.ledger = ledger, !.journal = journal]  BY <1>1, <2>3
    <3>2. QED  BY <1>3, <3>1
  <2>4. QED  BY <2>1, <2>2, <2>3
<1>5. tx'.op = "migrate" => Now' # "fresh" /\ Now' # "config"
  <2> SUFFICES ASSUME tx'.op = "migrate" PROVE Now' # "fresh" /\ Now' # "config"  OBVIOUS
  <2>1. tx.op = "migrate" /\ Now # "check" /\ Now # "fresh"  BY <1>1, <1>2, OntoTx DEF StoreInv, TxInv, Renames, FoundInv
  <2>2. CASE Now = "config"
    <3>1. tx.todo = <<"config", "applied">>  BY <2>1, <2>2 DEF FoundInv
    <3>2. tx'.todo = <<"applied">>  BY <1>1, <3>1 DEF Onto, StoreInv, TypeOK, Tx
    <3>3. QED  BY <3>2 DEF Now, At
  <2>3. CASE Now # "config"  BY <1>1, <1>2, <2>1, <2>3, OpFacts, OntoTx DEF StoreInv
  <2>4. QED  BY <2>2, <2>3
<1>6. FoundInv'  BY <1>1, <1>4, <1>5 DEF FoundInv
<1>7. RecordInv'
  <2>1. ASSUME NoEdits PROVE RecordInv'  BY <1>1, <1>4, <2>1 DEF RecordInv, Reaches
  <2>2. QED  BY <1>1, <2>1 DEF RecordInv, NoEdits
<1>8. QED  BY <1>6, <1>7

LEMMA FoundPowerLoss ==
    ASSUME FoundInv, RecordInv, PowerLoss
    PROVE  FoundInv' /\ RecordInv'
<1>1. /\ editCount' = editCount /\ tx' = Idle /\ config' \in {config, onDisk.config} /\ ledger' \in {ledger, onDisk.ledger}
      /\ onDisk' = [config |-> config', ledger |-> ledger', journal |-> journal', backups |-> backups']
  BY DEF PowerLoss
<1>2. onDisk'.config = config' /\ onDisk'.ledger = ledger' /\ tx'.op = "idle"  BY <1>1, IdleTx
<1>3. FoundInv'  BY <1>1, <1>2 DEF FoundInv
<1>4. QED  BY <1>1, <1>2, <1>3 DEF RecordInv, NoEdits, Reaches

LEMMA FoundStep ==
    ASSUME Missing \notin FirstConfigs, StoreInv, FoundInv, RecordInv, [Next]_vars
    PROVE  FoundInv' /\ RecordInv'
<1>1. CASE MigrateBegin
  <2>1. UNCHANGED <<config, ledger, journal, onDisk, editCount>> /\ tx' = [Idle EXCEPT !.op = "migrate", !.step = 1]
    BY <1>1 DEF MigrateBegin, Begin, StoreLocked, FoundInv
  <2>2. Now' = "none"  BY <2>1 DEF Now, At, Idle
  <2>3. QED  BY <2>1, <2>2, FoundStill
<1>2. CASE \E before, value \in Values : Patch(before, value)
  <2>1. UNCHANGED <<config, ledger, journal, onDisk, editCount>> /\ tx'.op # "migrate"
    BY <1>2 DEF Patch, Begin, StoreLocked, Doing, StoreInv, TypeOK, Tx
  <2>2. QED  BY <2>1, FoundStill
<1>3. CASE \E candidate \in FirstConfigs \cap Config : Preview(candidate)
  <2>1. UNCHANGED <<config, ledger, journal, onDisk, editCount, tx>>  BY <1>3 DEF Preview, Begin, StoreLocked
  <2>2. QED  BY <2>1, FoundStill DEF FoundInv, Now
<1>4. CASE \E plan \in plans : RepairBegin(plan)
  <2>1. UNCHANGED <<config, ledger, journal, onDisk, editCount>> /\ tx'.op # "migrate"  BY <1>4 DEF RepairBegin, Begin, StoreLocked, Idle
  <2>2. QED  BY <2>1, FoundStill
<1>12. CASE \E plan \in plans : RepairAgain(plan)
  <2>1. UNCHANGED <<config, ledger, journal, onDisk, editCount, tx>>  BY <1>12 DEF RepairAgain, StoreLocked
  <2>2. QED  BY <2>1, FoundStill DEF FoundInv, Now
<1>5. CASE MigrateStep
  <2>1. UNCHANGED <<config, ledger, journal, onDisk, editCount>> /\ tx.op = "migrate" /\ tx.todo = <<>>
    BY <1>5 DEF MigrateStep, counters
  <2>2. Now' # "fresh" /\ Now' # "config"
    <3>1. CASE tx'.todo = <<>>  BY <3>1 DEF Now, At
    <3>2. ASSUME NEW todo, NEW next, tx' = Doing(todo, next), At(todo) \notin {"fresh", "config"}
          PROVE  Now' # "fresh" /\ Now' # "config"
      BY <3>2 DEF Doing, Now, StoreInv, TypeOK, Tx
    <3>3. CASE StepRefused  BY <3>1, <3>3 DEF StepRefused, Idle
    <3>4. CASE StepTaken
      <4> DEFINE e == ledger[tx.step]
                 s == config.schema
      <4>1. AlreadyApplied(e, s) \/ Resumed(e, s) \/ AtBaseline(e, s) \/ RetriedStep(e, s) \/ Started(e, s)  BY <3>4 DEF StepTaken
      <4>2. CASE AlreadyApplied(e, s)  BY <3>1, <4>2 DEF AlreadyApplied, Idle
      <4>3. CASE Resumed(e, s)
        <5>1. At(<<"syncConfig", "applied">>) = "syncConfig"  BY DEF At
        <5>2. QED  BY <3>2, <4>3, <5>1 DEF Resumed
      <4>4. CASE AtBaseline(e, s)
        <5>1. At(<<"baseline">>) = "baseline"  BY DEF At
        <5>2. QED  BY <3>2, <4>4, <5>1 DEF AtBaseline
      <4>5. CASE RetriedStep(e, s)
        <5>1. PICK rest \in LastTasks : tx' = Doing(rest, Upgraded(config, tx.step))  BY <4>5 DEF RetriedStep
        <5>2. At(rest) \in {"check", "failed"}  BY RestLine DEF LastTasks, Rests
        <5>3. QED  BY <3>2, <5>1, <5>2
      <4>6. CASE Started(e, s)
        <5> DEFINE first == IF [step |-> tx.step, config |-> config] \in backups
                              THEN <<"pending">> ELSE <<"backup", "pending">>
        <5>1. PICK rest \in LastTasks : tx' = Doing(first \o rest, Upgraded(config, tx.step))  BY <4>6 DEF Started
        <5>2. first \in {<<"pending">>, <<"backup", "pending">>} /\ At(first) \in {"pending", "backup"}
          <6>1. At(<<"pending">>) = "pending" /\ At(<<"backup", "pending">>) = "backup"  BY DEF At
          <6>2. QED  BY <6>1
        <5> HIDE DEF first
        <5>3. At(first \o rest) \in {"pending", "backup"}  BY <5>2, StartedLine
        <5>4. QED  BY <3>2, <5>1, <5>3
      <4>7. QED  BY <4>1, <4>2, <4>3, <4>4, <4>5, <4>6
    <3>5. QED  BY <1>5, <3>3, <3>4 DEF MigrateStep
  <2>3. QED  BY <2>1, <2>2, FoundStill
<1>6. CASE CheckSource
  <2>1. /\ UNCHANGED <<config, ledger, journal, onDisk, editCount>> /\ tx.todo # <<>> /\ Task = "check"
        /\ tx' = IF Untouched THEN Onto ELSE Idle
    BY <1>6 DEF CheckSource, Doable, counters
  <2>2. Now = "check"  BY <2>1, OpFacts DEF StoreInv
  <2>3. CASE tx' = Onto  BY <2>1, <2>2, <2>3, OntoTx, FoundStill DEF StoreInv
  <2>4. CASE tx' = Idle  BY <2>1, <2>4, IdleTx, FoundStill
  <2>5. QED  BY <2>1, <2>3, <2>4
<1>7. CASE RenameBackup
  <2>1. UNCHANGED <<config, ledger, journal, onDisk, editCount>> /\ Renamed  BY <1>7 DEF RenameBackup, Renamed, Doable, counters
  <2>2. Now' = Now /\ tx'.op = tx.op /\ tx'.todo = tx.todo  BY <2>1, RenameFacts
  <2>3. QED  BY <2>1, <2>2, FoundStill DEF FoundInv
<1>8. CASE FinishTx \/ Kill
  <2>1. UNCHANGED <<config, ledger, journal, onDisk, editCount>> /\ tx' = Idle  BY <1>8 DEF FinishTx, Kill, counters
  <2>2. QED  BY <2>1, IdleTx, FoundStill
<1>9. CASE \E c \in FirstConfigs : Edit(c)
  <2>1. UNCHANGED <<onDisk, tx>> /\ config' \in FirstConfigs /\ editCount' = editCount + 1  BY <1>9 DEF Edit
  <2>2. editCount' # 0 /\ Now' = Now /\ config' # Missing  BY <2>1, ConfigAssumption DEF Now, StoreInv, TypeOK
  <2>3. QED  BY <2>1, <2>2 DEF FoundInv, RecordInv, NoEdits
<1>10. CASE UNCHANGED vars
  <2>1. UNCHANGED <<config, ledger, journal, onDisk, editCount, tx>>  BY <1>10 DEF vars
  <2>2. QED  BY <2>1, FoundStill DEF FoundInv, Now
<1>11. QED
  BY <1>1, <1>2, <1>3, <1>4, <1>5, <1>6, <1>7, <1>8, <1>9, <1>10, <1>12,
     FoundRename, FoundLedger, FoundJournal, FoundSync, FoundPowerLoss DEF Next, Plans, Carry

------------------------------------
(* Theorems *)

LEMMA StepInv == StoreInv /\ [Next]_vars => StoreInv'
<1> SUFFICES ASSUME StoreInv, [Next]_vars PROVE StoreInv'  OBVIOUS
<1>1. CASE Plans  BY <1>1, MigrateBeginInv, PatchStepInv, PreviewInv, RepairBeginInv, RepairAgainInv DEF Plans
<1>2. CASE Carry
  BY <1>2, MigrateStepInv, CheckInv, RenameConfigInv, RenameLedgerInv, RenameJournalInv, RenameBackupInv,
     SyncStepInv, FinishInv DEF Carry
<1>3. CASE Kill  BY <1>3, KillInv
<1>4. CASE PowerLoss  BY <1>4, PowerLossInv
<1>5. CASE \E c \in FirstConfigs : Edit(c)  BY <1>5, EditInv
<1>6. CASE UNCHANGED vars
  <2>1. Now' = Now  BY <1>6 DEF vars, Now
  <2>2. TypeOK' /\ TxInv' /\ PatchInv' /\ RepairInv' /\ SeenInv'
    BY <1>6, <2>1 DEF StoreInv, vars, TypeOK, TxInv, PatchInv, RepairInv, SeenInv, BeforeTask, NoEdits
  <2>3. MigrateInv'  BY <1>6, <2>1 DEF StoreInv, vars, MigrateInv, BeforeTask, NoEdits, Reaches
  <2>4. AckInv' /\ HalfInv' /\ SyncInv' /\ BackupInv' /\ ResumeInv'
    BY <1>6, <2>1 DEF StoreInv, vars, AckInv, HalfInv, SyncInv, BackupInv, ResumeInv, Within, TxSettled, NoEdits
  <2>5. QED  BY <2>2, <2>3, <2>4 DEF StoreInv
<1>7. QED  BY <1>1, <1>2, <1>3, <1>4, <1>5, <1>6 DEF Next

\* Where a transaction is, what it knows of the files, and what a power loss
\* leaves of them, fit together at every moment.
THEOREM Inductive == Spec => []StoreInv
BY StoreInit, StepInv, PTL DEF Spec

\* Every variable keeps its type.
THEOREM TypeCorrect == Spec => []TypeOK
<1>1. StoreInv => TypeOK  BY DEF StoreInv
<1>2. QED  BY <1>1, Inductive, PTL

\* What a migration replaced is in its backup or still in place, whatever the
\* power does (backup_config before every replacement, config-migrations.py).
THEOREM Originals == Spec => []OriginalKept
<1>1. StoreInv => OriginalKept  BY DEF StoreInv, BackupInv, NoEdits, OriginalKept
<1>2. QED  BY <1>1, Inductive, PTL

\* A repair is done as a whole, or can be resumed with its token (the journal of
\* config-repair.py).
THEOREM Repairs == Spec => []RepairWhole
<1>1. StoreInv => RepairWhole  BY DEF StoreInv, ResumeInv, HalfInv, Within, NoEdits, RepairWhole, RepairResumable, NoHalfRepair
<1>2. QED  BY <1>1, Inductive, PTL

\* An answered change survives every kill and power loss until it is replaced,
\* a replayed one included (apply_patch, config-write.py); not so the answer of a
\* repair applied before, after a kill (config-repair.py:102).
THEOREM Answers == Spec => []AckedIsDurable
<1>1. StoreInv => AckedIsDurable  BY ConfigAssumption DEF StoreInv, TypeOK, AckInv, NoEdits, AckedIsDurable
<1>2. QED  BY <1>1, Inductive, PTL

\* No writer replaces a document that it has not looked at, unless it changed
\* between the last look and the rename.
THEOREM EditsSeen == Spec => EditsAreSeen
<1>1. StoreInv /\ [Next]_vars => [RenameConfig /\ tx.source # Missing /\ ~raced => config = tx.source]_vars
  <2> SUFFICES ASSUME StoreInv, RenameConfig, tx.source # Missing, ~raced PROVE config = tx.source  OBVIOUS
  <2>1. tx.todo # <<>> /\ ~tx.renamed /\ Task \in {"config", "restore"}  BY DEF RenameConfig, Doable
  <2>2. Now \in {"config", "restore"} /\ tx \in Tx  BY <2>1, OpFacts DEF StoreInv
  <2>3. CASE Now = "config"  BY <2>1, <2>3 DEF StoreInv, SeenInv
  <2>4. CASE Now = "restore"
    <3>1. tx.op = "repair"  BY <2>2, <2>4, OpFacts DEF StoreInv, Tx
    <3>2. QED  BY <3>1 DEF StoreInv, TxInv
  <2>5. QED  BY <2>2, <2>3, <2>4
<1>2. QED  BY <1>1, Inductive, PTL DEF Spec, EditsAreSeen

\* No record of an applied migration is ever ahead of the configuration, and no
\* answered change is lost but as Answers says, where a configuration is there at the start: a first
\* one that is created and lost again may leave its record behind.
THEOREM ToldTruly ==
    ASSUME Missing \notin FirstConfigs
    PROVE  Spec => []ToldIsReal
<1>1. Init => StoreInv /\ FoundInv /\ RecordInv  BY StoreInit, FoundInit
<1>2. (StoreInv /\ FoundInv /\ RecordInv) /\ [Next]_vars => (StoreInv /\ FoundInv /\ RecordInv)'  BY StepInv, FoundStep
<1>3. StoreInv /\ FoundInv /\ RecordInv => ToldIsReal
  BY ConfigAssumption DEF StoreInv, TypeOK, RecordInv, Reaches, AckInv, NoEdits, ToldIsReal, AppliedIsReal, AckedIsDurable
<1>4. QED  BY <1>1, <1>2, <1>3, PTL DEF Spec
=============================================================================
