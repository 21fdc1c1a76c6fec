------------------------ MODULE StickSession_proof ------------------------
(***************************************************************************)
(* What the stick's scripts keep for any filesystem and any number of      *)
(* crashes, in every interleaving with the watch, the pulls and the power. *)
(***************************************************************************)
EXTENDS StickSession, TLAPS

\* The console has a launcher, or is between two of them.
Session == {"round", "launcher", "select", "work", "standby"}

\* What is owed a check and has not got by: the boot, or the wait, is still to make it.
Pending == Owed /\ "wait" \notin passed /\ ~(kind = "fat" /\ "poweroff" \in passed)

\* It still carries the marker, and the flag that asks for the check.
HarmIsKnown ==
    /\ Pending => marker /\ (HasFlag => flag \/ "poweroff" \in passed)
    /\ Pending /\ mnt \in {"rw", "ro"} =>
           /\ cached
           /\ HasFlag => gate \/ "poweroff" \in passed
           /\ pc \in {"sony", "boot", "readflag", "check", "released", "unflag", "halt"}
    /\ Pending => pc \notin {"bmount", "unmounted"}
    /\ Pending /\ checked /\ (kind = "fat" \/ look = "check") => pc = "wfsck"
    /\ "wait" \in passed => kind # "fat"
    /\ "poweroff" \in passed => HasFlag

\* A mounted volume that can be lost with writes under way says it is dirty.
MountedIsDirty ==
    /\ mnt \in {"rw", "ro"} /\ HasFlag => flag \/ (pc \in {"clearing", "ours", "halt"} /\ ~pending)
    /\ pc = "clearing" => owned \/ ~gate \/ ~HasFlag
    /\ pc = "unflag" /\ mnt = "rw" => ~pending

\* Where the volume is mounted, and what of it the steps rely on.
MountIsWhere ==
    /\ ~plugged => mnt \in {"no", "dead"}
    /\ mnt = "ro" => pc \in {"boot", "check", "clearing"}
    /\ pc \in {"off", "bfsck", "bmount", "unmounted", "asleep", "poweroff", "wfsck", "wmount"} => mnt = "no"
    /\ pc \in {"boot", "readflag"} => mnt # "no"
    /\ pc = "clearing" => mnt # "rw"
    /\ pc = "look" => mnt = "no" \/ (mnt = "dead" /\ watch = "killed")
    /\ pc = "readflag" => kind = "fat"
    /\ mnt = "rw" /\ pc \in Session \cup {"synced", "unmark"} => cached
    /\ pc \in {"wfsck", "wmount"} => checked
    /\ checked => pc \in {"look", "wfsck", "wmount"}

\* The watch and the selection it leaves.
WatchIsWhere ==
    /\ watch # "off" => mnt # "no" /\ pc \in Session \cup {"look"}
    /\ watch \in {"seen", "stopped", "killed"} => mnt = "dead"
    /\ watch = "killed" => pc \in {"round", "launcher", "select", "look"}
    /\ pc = "look" => watch \in {"off", "killed"}
    /\ watch = "stopped" \/ (watch = "killed" /\ pc # "look") => sel = "nostick"
    /\ sel = "nostick" =>
           /\ pc \in Session
           /\ watch = "off" => mnt = "no"
           /\ watch \in {"off", "stopped", "killed"}
           /\ watch # "stopped" => pc \in {"round", "launcher", "select"}

\* The crash that is one too many is the last.
CrashesCounted == pc \notin {"down", "halt"} => crashes < MaxCrashes

IInv == TypeOK /\ HarmIsKnown /\ MountedIsDirty /\ MountIsWhere /\ WatchIsWhere /\ CrashesCounted

\* TypeOK's flags, its history and the rest of IInv: the provers take the three apart.
Flags ==
    /\ plugged \in BOOLEAN
    /\ flag \in BOOLEAN
    /\ marker \in BOOLEAN
    /\ gate \in BOOLEAN
    /\ cached \in BOOLEAN
    /\ pending \in BOOLEAN
    /\ owned \in BOOLEAN
    /\ nostick \in BOOLEAN
    /\ checked \in BOOLEAN

Values ==
    /\ kind \in Kinds
    /\ mnt \in {"no", "rw", "ro", "dead"}
    /\ sel \in {"none", "work", "poweroff", "nostick"}
    /\ crashes \in 0..MaxCrashes
    /\ look \in {"wake", "wait", "check"}
    /\ watch \in {"off", "on", "seen", "stopped", "killed"}
    /\ pc \in Places

Remembered ==
    /\ hurt \in SUBSET Losses
    /\ passed \in SUBSET Ways

Known == Values /\ HarmIsKnown /\ MountedIsDirty /\ MountIsWhere /\ WatchIsWhere /\ CrashesCounted

-----------------------------------------------------------------------------
(* IInv is its three parts.                                                *)
LEMMA Parts == (IInv <=> Flags /\ Remembered /\ Known) /\ (IInv' <=> Flags' /\ Remembered' /\ Known')
  BY Zenon DEF IInv, Known, Flags, Remembered, Values, TypeOK

(* It holds at the start.                                                  *)
LEMMA InitIInv == Init => IInv
  <1> SUFFICES ASSUME Init PROVE Flags /\ Remembered /\ Known
    BY Parts
  <1>1. Flags /\ Remembered
    BY Zenon DEF Init, Flags, Remembered
  <1>2. Known
    BY SessionAssumption, SMT DEF Init, Known, Values, HarmIsKnown, MountedIsDirty, MountIsWhere, WatchIsWhere,
       CrashesCounted, Owed, Pending, HasFlag, Session, Losses, Ways, Places, Boot, Standby, Off
  <1> QED
    BY <1>1, <1>2

(* A check settles what it is owed, whatever becomes of it.                *)
LEMMA CheckSettles ==
  ASSUME Repaired \/ CheckFailed
  PROVE  /\ ~Owed' /\ ~Pending'
         /\ "wait" \in passed' => "wait" \in passed
         /\ "poweroff" \in passed' => "poweroff" \in passed
  <1>1. CASE Repaired
    BY <1>1, SMT DEF Repaired, Owed, Pending
  <1>2. CASE CheckFailed /\ hurt = {}
    BY <1>2, SMT DEF CheckFailed, Owed, Pending
  <1>3. CASE CheckFailed /\ hurt # {}
    BY <1>3, SMT DEF CheckFailed, Owed, Pending
  <1> QED
    BY <1>1, <1>2, <1>3

(* What the wait mounts is not owed a check any more, or has got by.       *)
LEMMA WaitPasses ==
  ASSUME kind # "fat", UNCHANGED kind, GotBy("wait")
  PROVE  /\ ~Pending'
         /\ "poweroff" \in passed' => "poweroff" \in passed
  <1>1. CASE Owed
    BY <1>1, SMT DEF GotBy, Pending
  <1>2. CASE ~Owed
    BY <1>2, SMT DEF GotBy, Pending, Owed
  <1> QED
    BY <1>1, <1>2

(* The boot, up to the launcher's first start.                             *)
LEMMA BootStep ==
  ASSUME IInv,
         PowerOn \/ UsbWatchMounts \/ BootStarts \/ BootWrites \/ KernelRefuses \/ NeedsCheck \/
         ReadFlag \/ UnmountsForCheck \/ BootFsck \/ BootMounts \/ ClearsFlag \/ KeepsFlag \/
         ReadWriteAgain \/ SetsFlag \/ TouchesMarker \/ CheckstickEnds
  PROVE  Flags' /\ Known'
  <1> USE SessionAssumption
  <1> USE DEF Values, HarmIsKnown, MountedIsDirty, MountIsWhere, WatchIsWhere, CrashesCounted, Owed, Pending, HasFlag,
              Session, Losses, Ways, Places, Boot, Running, Standby, Off, disk, history, kernel, ram, search
  <1>a. Flags
    BY Parts
  <1>b. Known
    BY Parts
  <1>1. CASE PowerOn
    <2>1. Flags'
      BY <1>a, <1>1, ZenonT(20) DEF Flags, PowerOn
    <2>2. Known'
      BY <1>a, <1>b, <1>1, SMTT(30) DEF Flags, Known, PowerOn
    <2> QED
      BY <2>1, <2>2
  <1>2. CASE UsbWatchMounts
    <2>1. Flags'
      BY <1>a, <1>2, ZenonT(20) DEF Flags, UsbWatchMounts, Mounted
    <2>2. Known'
      BY <1>a, <1>b, <1>2, SMTT(30) DEF Flags, Known, UsbWatchMounts, Mounted
    <2> QED
      BY <2>1, <2>2
  <1>3. CASE BootStarts
    <2>1. Flags'
      BY <1>a, <1>3, ZenonT(20) DEF Flags, BootStarts
    <2>2. Known'
      BY <1>a, <1>b, <1>3, SMTT(30) DEF Flags, Known, BootStarts
    <2> QED
      BY <2>1, <2>2
  <1>4. CASE BootWrites
    <2>1. Flags'
      BY <1>a, <1>4, ZenonT(20) DEF Flags, BootWrites, Writes
    <2>2. Known'
      BY <1>a, <1>b, <1>4, SMTT(30) DEF Flags, Known, BootWrites, Writes
    <2> QED
      BY <2>1, <2>2
  <1>5. CASE KernelRefuses
    <2>1. Flags'
      BY <1>a, <1>5, ZenonT(20) DEF Flags, KernelRefuses
    <2>2. Known'
      BY <1>a, <1>b, <1>5, SMTT(30) DEF Flags, Known, KernelRefuses
    <2> QED
      BY <2>1, <2>2
  <1>6. CASE NeedsCheck
    <2>1. Flags'
      BY <1>a, <1>6, ZenonT(20) DEF Flags, NeedsCheck
    <2>2. Known'
      BY <1>a, <1>b, <1>6, SMTT(30) DEF Flags, Known, NeedsCheck
    <2> QED
      BY <2>1, <2>2
  <1>7. CASE ReadFlag
    <2>1. Flags'
      BY <1>a, <1>7, ZenonT(20) DEF Flags, ReadFlag, Flushed, Synced, Unchecked, CheckFailed
    <2>2. Known'
      BY <1>a, <1>b, <1>7, SMTT(30) DEF Flags, Known, ReadFlag, Flushed, Synced, Unchecked, CheckFailed
    <2> QED
      BY <2>1, <2>2
  <1>8. CASE UnmountsForCheck
    <2>1. Flags'
      BY <1>a, <1>8, ZenonT(20) DEF Flags, UnmountsForCheck, Unmounted, Flushed, Unchecked, CheckFailed
    <2>2. Known'
      BY <1>a, <1>b, <1>8, SMTT(30) DEF Flags, Known, UnmountsForCheck, Unmounted, Flushed, Unchecked, CheckFailed
    <2> QED
      BY <2>1, <2>2
  <1>9. CASE BootFsck
    <2>1. Flags'
      BY <1>a, <1>9, ZenonT(20) DEF Flags, BootFsck, Checked, Repaired, CheckFailed
    <2>2. Known'
      BY <1>a, <1>b, <1>9, SMTT(30) DEF Flags, Known, BootFsck, Checked, Repaired, CheckFailed
    <2> QED
      BY <2>1, <2>2
  <1>10. CASE BootMounts
    <2>1. Flags'
      BY <1>a, <1>10, ZenonT(20) DEF Flags, BootMounts, Mounted
    <2>2. Known'
      BY <1>a, <1>b, <1>10, SMTT(30) DEF Flags, Known, BootMounts, Mounted
    <2> QED
      BY <2>1, <2>2
  <1>11. CASE ClearsFlag
    <2>1. Flags'
      BY <1>a, <1>11, ZenonT(20) DEF Flags, ClearsFlag, Flushed
    <2>2. Known'
      BY <1>a, <1>b, <1>11, SMTT(30) DEF Flags, Known, ClearsFlag, Flushed
    <2> QED
      BY <2>1, <2>2
  <1>12. CASE KeepsFlag
    <2>1. Flags'
      BY <1>a, <1>12, ZenonT(20) DEF Flags, KeepsFlag
    <2>2. Known'
      BY <1>a, <1>b, <1>12, SMTT(30) DEF Flags, Known, KeepsFlag
    <2> QED
      BY <2>1, <2>2
  <1>13. CASE ReadWriteAgain
    <2>1. Flags'
      BY <1>a, <1>13, ZenonT(20) DEF Flags, ReadWriteAgain
    <2>2. Known'
      BY <1>a, <1>b, <1>13, SMTT(30) DEF Flags, Known, ReadWriteAgain
    <2> QED
      BY <2>1, <2>2
  <1>14. CASE SetsFlag
    <2>1. Flags'
      BY <1>a, <1>14, ZenonT(20) DEF Flags, SetsFlag
    <2>2. Known'
      BY <1>a, <1>b, <1>14, SMTT(30) DEF Flags, Known, SetsFlag
    <2> QED
      BY <2>1, <2>2
  <1>15. CASE TouchesMarker
    <2>1. Flags'
      BY <1>a, <1>15, ZenonT(20) DEF Flags, TouchesMarker, Writes
    <2>2. Known'
      BY <1>a, <1>b, <1>15, SMTT(30) DEF Flags, Known, TouchesMarker, Writes
    <2> QED
      BY <2>1, <2>2
  <1>16. CASE CheckstickEnds
    <2>1. Flags'
      BY <1>a, <1>16, ZenonT(20) DEF Flags, CheckstickEnds, Synced, Flushed
    <2>2. Known'
      BY <1>a, <1>b, <1>16, SMTT(30) DEF Flags, Known, CheckstickEnds, Synced, Flushed
    <2> QED
      BY <2>1, <2>2
  <1> QED
    BY <1>1, <1>2, <1>3, <1>4, <1>5, <1>6, <1>7, <1>8, <1>9, <1>10, <1>11, <1>12, <1>13, <1>14, <1>15, <1>16

(* The loop, its launcher and the stick's watch.                           *)
LEMMA LoopStep ==
  ASSUME IInv,
         RoundStarts \/ SessionWrites \/ (\E s \in {"work", "poweroff"} : LauncherLeaves(s)) \/
         LauncherDies \/ Selects \/ WorkEnds \/ CrashHandled \/ WatchSees \/ WatchStops \/
         WatchKills \/ WatchLetsGo
  PROVE  Flags' /\ Known'
  <1> USE SessionAssumption
  <1> USE DEF Values, HarmIsKnown, MountedIsDirty, MountIsWhere, WatchIsWhere, CrashesCounted, Owed, Pending, HasFlag,
              Session, Losses, Ways, Places, Boot, Running, Standby, Off, disk, history, kernel, ram, search
  <1>a. Flags
    BY Parts
  <1>b. Known
    BY Parts
  <1>1. CASE RoundStarts
    <2>1. Flags'
      BY <1>a, <1>1, ZenonT(20) DEF Flags, RoundStarts
    <2>2. Known'
      BY <1>a, <1>b, <1>1, SMTT(30) DEF Flags, Known, RoundStarts
    <2> QED
      BY <2>1, <2>2
  <1>2. CASE SessionWrites
    <2>1. Flags'
      BY <1>a, <1>2, ZenonT(20) DEF Flags, SessionWrites, Writes
    <2>2. Known'
      BY <1>a, <1>b, <1>2, SMTT(30) DEF Flags, Known, SessionWrites, Writes
    <2> QED
      BY <2>1, <2>2
  <1>3. CASE (\E s \in {"work", "poweroff"} : LauncherLeaves(s))
    <2>1. Flags'
      BY <1>a, <1>3, ZenonT(20) DEF Flags, LauncherLeaves, Synced, Flushed, NotStopped
    <2>2. Known'
      BY <1>a, <1>b, <1>3, SMTT(30) DEF Flags, Known, LauncherLeaves, Synced, Flushed, NotStopped
    <2> QED
      BY <2>1, <2>2
  <1>4. CASE LauncherDies
    <2>1. Flags'
      BY <1>a, <1>4, ZenonT(20) DEF Flags, LauncherDies, Synced, Flushed, NotStopped
    <2>2. Known'
      BY <1>a, <1>b, <1>4, SMTT(30) DEF Flags, Known, LauncherDies, Synced, Flushed, NotStopped
    <2> QED
      BY <2>1, <2>2
  <1>5. CASE Selects
    <2>1. Flags'
      BY <1>a, <1>5, ZenonT(20) DEF Flags, Selects, NotStopped
    <2>2. Known'
      BY <1>a, <1>b, <1>5, SMTT(30) DEF Flags, Known, Selects, NotStopped
    <2> QED
      BY <2>1, <2>2
  <1>6. CASE WorkEnds
    <2>1. Flags'
      BY <1>a, <1>6, ZenonT(20) DEF Flags, WorkEnds, NotStopped
    <2>2. Known'
      BY <1>a, <1>b, <1>6, SMTT(30) DEF Flags, Known, WorkEnds, NotStopped
    <2> QED
      BY <2>1, <2>2
  <1>7. CASE CrashHandled
    <2>1. Flags'
      BY <1>a, <1>7, ZenonT(20) DEF Flags, CrashHandled, Synced, Flushed, NotStopped
    <2>2. Known'
      BY <1>a, <1>b, <1>7, SMTT(30) DEF Flags, Known, CrashHandled, Synced, Flushed, NotStopped
    <2> QED
      BY <2>1, <2>2
  <1>8. CASE WatchSees
    <2>1. Flags'
      BY <1>a, <1>8, ZenonT(20) DEF Flags, WatchSees
    <2>2. Known'
      BY <1>a, <1>b, <1>8, SMTT(30) DEF Flags, Known, WatchSees
    <2> QED
      BY <2>1, <2>2
  <1>9. CASE WatchStops
    <2>1. Flags'
      BY <1>a, <1>9, ZenonT(20) DEF Flags, WatchStops
    <2>2. Known'
      BY <1>a, <1>b, <1>9, SMTT(30) DEF Flags, Known, WatchStops
    <2> QED
      BY <2>1, <2>2
  <1>10. CASE WatchKills
    <2>1. Flags'
      BY <1>a, <1>10, ZenonT(20) DEF Flags, WatchKills
    <2>2. Known'
      BY <1>a, <1>b, <1>10, SMTT(30) DEF Flags, Known, WatchKills
    <2> QED
      BY <2>1, <2>2
  <1>11. CASE WatchLetsGo
    <2>1. Flags'
      BY <1>a, <1>11, ZenonT(20) DEF Flags, WatchLetsGo, Unmounted, Flushed
    <2>2. Known'
      BY <1>a, <1>b, <1>11, SMTT(30) DEF Flags, Known, WatchLetsGo, Unmounted, Flushed
    <2> QED
      BY <2>1, <2>2
  <1> QED
    BY <1>1, <1>2, <1>3, <1>4, <1>5, <1>6, <1>7, <1>8, <1>9, <1>10, <1>11

(* The standby and the wait for a stick.                                   *)
LEMMA StandbyStep ==
  ASSUME IInv,
         StandbyStarts \/ RemovesMarker \/ SyncsMarker \/ StandbyWrites \/ StandbyUnmounts \/
         StandbyGivesUp \/ StandbyClearsFlag \/ Wakes \/ FindsStick \/ WaitFsck \/ WaitMounts \/
         WaitsForStick \/ WaitGivesUp \/ StickMounted
  PROVE  Flags' /\ Known'
  <1> USE SessionAssumption
  <1> USE DEF Values, HarmIsKnown, MountedIsDirty, MountIsWhere, WatchIsWhere, CrashesCounted, Owed, Pending, HasFlag,
              Session, Losses, Ways, Places, Boot, Running, Standby, Off, disk, history, kernel, ram, search
  <1>a. Flags
    BY Parts
  <1>b. Known
    BY Parts
  <1>1. CASE StandbyStarts
    <2>1. Flags'
      BY <1>a, <1>1, ZenonT(20) DEF Flags, StandbyStarts, NotStopped
    <2>2. Known'
      BY <1>a, <1>b, <1>1, SMTT(30) DEF Flags, Known, StandbyStarts, NotStopped
    <2> QED
      BY <2>1, <2>2
  <1>2. CASE RemovesMarker
    <2>1. Flags'
      BY <1>a, <1>2, ZenonT(20) DEF Flags, RemovesMarker, Writes, NotStopped
    <2>2. Known'
      BY <1>a, <1>b, <1>2, SMTT(30) DEF Flags, Known, RemovesMarker, Writes, NotStopped
    <2> QED
      BY <2>1, <2>2
  <1>3. CASE SyncsMarker
    <2>1. Flags'
      BY <1>a, <1>3, ZenonT(20) DEF Flags, SyncsMarker, Synced, Flushed, NotStopped
    <2>2. Known'
      BY <1>a, <1>b, <1>3, SMTT(30) DEF Flags, Known, SyncsMarker, Synced, Flushed, NotStopped
    <2> QED
      BY <2>1, <2>2
  <1>4. CASE StandbyWrites
    <2>1. Flags'
      BY <1>a, <1>4, ZenonT(20) DEF Flags, StandbyWrites, Writes
    <2>2. Known'
      BY <1>a, <1>b, <1>4, SMTT(30) DEF Flags, Known, StandbyWrites, Writes
    <2> QED
      BY <2>1, <2>2
  <1>5. CASE StandbyUnmounts
    <2>1. Flags'
      BY <1>a, <1>5, ZenonT(20) DEF Flags, StandbyUnmounts, Unmounted, Flushed, NotStopped
    <2>2. Known'
      BY <1>a, <1>b, <1>5, SMTT(30) DEF Flags, Known, StandbyUnmounts, Unmounted, Flushed, NotStopped
    <2> QED
      BY <2>1, <2>2
  <1>6. CASE StandbyGivesUp
    <2>1. Flags'
      BY <1>a, <1>6, ZenonT(20) DEF Flags, StandbyGivesUp, Writes, NotStopped
    <2>2. Known'
      BY <1>a, <1>b, <1>6, SMTT(30) DEF Flags, Known, StandbyGivesUp, Writes, NotStopped
    <2> QED
      BY <2>1, <2>2
  <1>7. CASE StandbyClearsFlag
    <2>1. Flags'
      BY <1>a, <1>7, ZenonT(20) DEF Flags, StandbyClearsFlag
    <2>2. Known'
      BY <1>a, <1>b, <1>7, SMTT(30) DEF Flags, Known, StandbyClearsFlag
    <2> QED
      BY <2>1, <2>2
  <1>8. CASE Wakes
    <2>1. Flags'
      BY <1>a, <1>8, ZenonT(20) DEF Flags, Wakes
    <2>2. Known'
      BY <1>a, <1>b, <1>8, SMTT(30) DEF Flags, Known, Wakes
    <2> QED
      BY <2>1, <2>2
  <1>9. CASE FindsStick
    <2>1. Flags'
      BY <1>a, <1>9, ZenonT(20) DEF Flags, FindsStick, Due, NotStopped
    <2>2. Known'
      BY <1>a, <1>b, <1>9, SMTT(30) DEF Flags, Known, FindsStick, Due, NotStopped
    <2> QED
      BY <2>1, <2>2
  <1>10. CASE WaitFsck
    <2>1. Flags'
      BY <1>a, <1>10, ZenonT(20) DEF Flags, WaitFsck, Checked, Repaired, CheckFailed
    <2>2. HarmIsKnown'
      BY <1>a, <1>b, <1>10, CheckSettles, SMTT(30) DEF Flags, Known, WaitFsck, Checked
    <2>3. Values' /\ MountedIsDirty' /\ MountIsWhere'
      BY <1>a, <1>b, <1>10, SMTT(30) DEF Flags, Known, WaitFsck, Checked
    <2>4. WatchIsWhere' /\ CrashesCounted'
      BY <1>a, <1>b, <1>10, SMTT(30) DEF Flags, Known, WaitFsck, Checked
    <2>5. Known'
      BY <2>2, <2>3, <2>4, Zenon DEF Known
    <2> QED
      BY <2>1, <2>5
  <1>11. CASE WaitMounts
    <2>1. Flags'
      BY <1>a, <1>11, ZenonT(20) DEF Flags, WaitMounts, Mounted, GotBy
    <2>2. HarmIsKnown'
      <3>1. CASE UNCHANGED <<disk, kernel, nostick, checked>> /\ pc' = "look"
        BY <1>a, <1>b, <1>11, <3>1, SMTT(30) DEF Flags, Known, WaitMounts
      <3>2. CASE kind # "fat" /\ UNCHANGED kind /\ GotBy("wait")
        BY <1>b, <3>2, WaitPasses, SMTT(30) DEF Known
      <3>3. CASE (kind = "fat" \/ look = "check") /\ UNCHANGED <<kind, history>>
        BY <1>b, <1>11, <3>3, SMTT(30) DEF Known, WaitMounts
      <3> QED
        BY <1>11, <3>1, <3>2, <3>3, Zenon DEF WaitMounts
    <2>3. Values' /\ MountedIsDirty' /\ MountIsWhere'
      <3>1. CASE Mounted(FALSE) /\ pc' = "back"
        BY <1>a, <1>b, <1>11, <3>1, SMTT(30) DEF Flags, Known, WaitMounts, Mounted
      <3>2. CASE UNCHANGED <<disk, kernel, nostick, checked>> /\ pc' = "look"
        BY <1>a, <1>b, <1>11, <3>2, SMTT(30) DEF Flags, Known, WaitMounts
      <3> QED
        BY <1>11, <3>1, <3>2, Zenon DEF WaitMounts
    <2>4. WatchIsWhere' /\ CrashesCounted'
      BY <1>a, <1>b, <1>11, SMTT(30) DEF Flags, Known, WaitMounts, Mounted
    <2>5. Known'
      BY <2>2, <2>3, <2>4, Zenon DEF Known
    <2> QED
      BY <2>1, <2>5
  <1>12. CASE WaitsForStick
    <2>1. Flags'
      BY <1>a, <1>12, ZenonT(20) DEF Flags, WaitsForStick
    <2>2. Known'
      BY <1>a, <1>b, <1>12, SMTT(30) DEF Flags, Known, WaitsForStick
    <2> QED
      BY <2>1, <2>2
  <1>13. CASE WaitGivesUp
    <2>1. Flags'
      BY <1>a, <1>13, ZenonT(20) DEF Flags, WaitGivesUp
    <2>2. Known'
      BY <1>a, <1>b, <1>13, SMTT(30) DEF Flags, Known, WaitGivesUp
    <2> QED
      BY <2>1, <2>2
  <1>14. CASE StickMounted
    <2>1. Flags'
      BY <1>a, <1>14, ZenonT(20) DEF Flags, StickMounted, Writes
    <2>2. Known'
      BY <1>a, <1>b, <1>14, SMTT(30) DEF Flags, Known, StickMounted, Writes
    <2> QED
      BY <2>1, <2>2
  <1> QED
    BY <1>1, <1>2, <1>3, <1>4, <1>5, <1>6, <1>7, <1>8, <1>9, <1>10, <1>11, <1>12, <1>13, <1>14

(* The power off, the power cut, the hand and the kernel.                  *)
LEMMA PowerStep ==
  ASSUME IInv,
         SuspendRefused \/ LogMounts \/ PowerOffUnmounts \/ PowerOffClearsFlag \/ GoesDown \/ Halts
         \/ PowerCut \/ Pulled \/ PluggedIn \/ PcChecks \/ PcDirties \/ Writeback
  PROVE  Flags' /\ Known'
  <1> USE SessionAssumption
  <1> USE DEF Values, HarmIsKnown, MountedIsDirty, MountIsWhere, WatchIsWhere, CrashesCounted, Owed, Pending, HasFlag,
              Session, Losses, Ways, Places, Boot, Running, Standby, Off, disk, history, kernel, ram, search
  <1>a. Flags
    BY Parts
  <1>b. Known
    BY Parts
  <1>1. CASE SuspendRefused
    <2>1. Flags'
      BY <1>a, <1>1, ZenonT(20) DEF Flags, SuspendRefused
    <2>2. Known'
      BY <1>a, <1>b, <1>1, SMTT(30) DEF Flags, Known, SuspendRefused
    <2> QED
      BY <2>1, <2>2
  <1>2. CASE LogMounts
    <2>1. Flags'
      BY <1>a, <1>2, ZenonT(20) DEF Flags, LogMounts, Mounted
    <2>2. Known'
      BY <1>a, <1>b, <1>2, SMTT(30) DEF Flags, Known, LogMounts, Mounted
    <2> QED
      BY <2>1, <2>2
  <1>3. CASE PowerOffUnmounts
    <2>1. Flags'
      BY <1>a, <1>3, ZenonT(20) DEF Flags, PowerOffUnmounts, Unmounted, Flushed, Synced
    <2>2. Known'
      BY <1>a, <1>b, <1>3, SMTT(30) DEF Flags, Known, PowerOffUnmounts, Unmounted, Flushed, Synced
    <2> QED
      BY <2>1, <2>2
  <1>4. CASE PowerOffClearsFlag
    <2>1. Flags'
      BY <1>a, <1>4, ZenonT(20) DEF Flags, PowerOffClearsFlag, GotBy
    <2>2. Known'
      BY <1>a, <1>b, <1>4, SMTT(30) DEF Flags, Known, PowerOffClearsFlag, GotBy
    <2> QED
      BY <2>1, <2>2
  <1>5. CASE GoesDown
    <2>1. Flags'
      BY <1>a, <1>5, ZenonT(20) DEF Flags, GoesDown, Unmounted, Flushed, Synced
    <2>2. Known'
      BY <1>a, <1>b, <1>5, SMTT(30) DEF Flags, Known, GoesDown, Unmounted, Flushed, Synced
    <2> QED
      BY <2>1, <2>2
  <1>6. CASE Halts
    <2>1. Flags'
      BY <1>a, <1>6, ZenonT(20) DEF Flags, Halts, RamGone
    <2>2. Known'
      BY <1>a, <1>b, <1>6, SMTT(30) DEF Flags, Known, Halts, RamGone
    <2> QED
      BY <2>1, <2>2
  <1>7. CASE PowerCut
    <2>1. Flags'
      BY <1>a, <1>7, ZenonT(20) DEF Flags, PowerCut, RamGone, Lost, Damaged
    <2>2. Known'
      BY <1>a, <1>b, <1>7, SMTT(30) DEF Flags, Known, PowerCut, RamGone, Lost, Damaged
    <2> QED
      BY <2>1, <2>2
  <1>8. CASE Pulled
    <2>1. Flags'
      BY <1>a, <1>8, ZenonT(20) DEF Flags, Pulled, Lost, Damaged
    <2>2. HarmIsKnown'
      <3>1. CASE UNCHANGED history
        BY <1>a, <1>b, <1>8, <3>1, SMTT(30) DEF Flags, Known, Pulled, Lost
      <3>2. CASE marker' /\ mnt = "rw" /\ pending /\ UNCHANGED flag /\ passed' = {}
        BY <1>a, <1>b, <1>8, <3>2, SMTT(30) DEF Flags, Known, Pulled
      <3>3. CASE /\ ~marker' /\ mnt = "rw" /\ marker' \in {marker, cached} /\ UNCHANGED <<flag, passed>>
                 /\ \/ pc \in Running \cup {"standby", "unmark"} /\ hurt' = hurt \cup {"bare"}
                    \/ pc \in {"unsynced", "logs"} /\ hurt' = hurt \cup {"unmarked"}
        BY <1>a, <1>b, <1>8, <3>3, SMTT(30) DEF Flags, Known, Pulled
      <3> QED
        BY <1>8, <3>1, <3>2, <3>3, Zenon DEF Pulled, Lost, Damaged
    <2>3. Values' /\ MountedIsDirty' /\ MountIsWhere'
      BY <1>a, <1>b, <1>8, SMTT(30) DEF Flags, Known, Pulled, Lost, Damaged
    <2>4. WatchIsWhere' /\ CrashesCounted'
      BY <1>a, <1>b, <1>8, SMTT(30) DEF Flags, Known, Pulled, Lost, Damaged
    <2>5. Known'
      BY <2>2, <2>3, <2>4, Zenon DEF Known
    <2> QED
      BY <2>1, <2>5
  <1>9. CASE PluggedIn
    <2>1. Flags'
      BY <1>a, <1>9, ZenonT(20) DEF Flags, PluggedIn
    <2>2. HarmIsKnown'
      BY <1>a, <1>b, <1>9, SMTT(30) DEF Flags, Known, PluggedIn
    <2>3. Values' /\ MountedIsDirty' /\ MountIsWhere'
      BY <1>a, <1>b, <1>9, SMTT(30) DEF Flags, Known, PluggedIn
    <2>4. WatchIsWhere' /\ CrashesCounted'
      BY <1>a, <1>b, <1>9, SMTT(30) DEF Flags, Known, PluggedIn
    <2>5. Known'
      BY <2>2, <2>3, <2>4, Zenon DEF Known
    <2> QED
      BY <2>1, <2>5
  <1>10. CASE PcChecks
    <2>1. Flags'
      BY <1>a, <1>10, ZenonT(20) DEF Flags, PcChecks, Repaired
    <2>2. Known'
      BY <1>a, <1>b, <1>10, SMTT(30) DEF Flags, Known, PcChecks, Repaired
    <2> QED
      BY <2>1, <2>2
  <1>11. CASE PcDirties
    <2>1. Flags'
      BY <1>a, <1>11, ZenonT(20) DEF Flags, PcDirties
    <2>2. Known'
      BY <1>a, <1>b, <1>11, SMTT(30) DEF Flags, Known, PcDirties
    <2> QED
      BY <2>1, <2>2
  <1>12. CASE Writeback
    <2>1. Flags'
      BY <1>a, <1>12, ZenonT(20) DEF Flags, Writeback, Synced, Flushed
    <2>2. Known'
      BY <1>a, <1>b, <1>12, SMTT(30) DEF Flags, Known, Writeback, Synced, Flushed
    <2> QED
      BY <2>1, <2>2
  <1> QED
    BY <1>1, <1>2, <1>3, <1>4, <1>5, <1>6, <1>7, <1>8, <1>9, <1>10, <1>11, <1>12

(* What a step remembers of the volume is a loss, or a way to get by.      *)
LEMMA HistoryStep ==
  ASSUME Remembered, [Next]_vars
  PROVE  Remembered'
  <1>1. ASSUME NEW loss \in Losses, Damaged(loss) PROVE Remembered'
    BY <1>1, SMT DEF Remembered, Damaged
  <1>2. CASE Repaired \/ CheckFailed \/ GotBy("wait") \/ GotBy("poweroff")
    <2>1. CASE Repaired
      BY <2>1, SMT DEF Remembered, Repaired
    <2>2. CASE CheckFailed
      BY <2>2, SMT DEF Remembered, CheckFailed, Ways
    <2>3. ASSUME NEW way \in Ways, GotBy(way) PROVE Remembered'
      BY <2>3, Zenon DEF Remembered, GotBy
    <2> QED
      BY <1>2, <2>1, <2>2, <2>3 DEF Ways
  <1>3. CASE UNCHANGED history
    BY <1>3, SMT DEF Remembered, history
  <1>4. CASE Lost
    BY <1>1, <1>3, <1>4, Zenon DEF Lost, Losses
  <1>5. CASE PowerCut \/ Pulled \/ PluggedIn \/ PcChecks \/ PcDirties
    <2>1. Lost \/ Repaired \/ UNCHANGED history
      BY <1>5, Zenon DEF PowerCut, Pulled, PluggedIn, PcChecks, PcDirties, disk, history
    <2> QED
      BY <2>1, <1>2, <1>3, <1>4
  <1>6. CASE ReadFlag \/ UnmountsForCheck \/ BootFsck \/ WaitFsck \/ WaitMounts \/ PowerOffClearsFlag
    <2>1. Repaired \/ CheckFailed \/ GotBy("wait") \/ GotBy("poweroff") \/ UNCHANGED history
      BY <1>6, Zenon DEF ReadFlag, UnmountsForCheck, BootFsck, WaitFsck, WaitMounts, PowerOffClearsFlag,
         Synced, Unmounted, Unchecked, Checked, disk, history
    <2> QED
      BY <2>1, <1>2, <1>3
  <1>7. CASE NeedsCheck \/ BootMounts \/ ClearsFlag \/ KeepsFlag \/ ReadWriteAgain \/ SetsFlag \/ TouchesMarker
             \/ CheckstickEnds \/ PowerOn \/ UsbWatchMounts \/ BootStarts \/ BootWrites \/ KernelRefuses
    BY <1>3, <1>7, Zenon DEF NeedsCheck, BootMounts, ClearsFlag, KeepsFlag, ReadWriteAgain, SetsFlag, TouchesMarker,
       CheckstickEnds, PowerOn, UsbWatchMounts, BootStarts, BootWrites, KernelRefuses, Writes, Synced, disk, history
  <1>8. CASE RoundStarts \/ LauncherDies \/ Selects \/ CrashHandled \/ WorkEnds \/ SessionWrites \/ Watch
             \/ \E s \in {"work", "poweroff"} : LauncherLeaves(s)
    BY <1>3, <1>8, SMT DEF RoundStarts, LauncherDies, Selects, CrashHandled, WorkEnds, SessionWrites, Watch, WatchSees,
       WatchStops, WatchKills, WatchLetsGo, LauncherLeaves, Unmounted, Writes, Synced, disk, history
  <1>9. CASE StandbySteps \/ StandbyWrites \/ Wakes \/ FindsStick \/ WaitsForStick \/ WaitGivesUp \/ StickMounted
    BY <1>3, <1>9, Zenon DEF StandbySteps, StandbyStarts, RemovesMarker, SyncsMarker, StandbyUnmounts, StandbyGivesUp,
       StandbyClearsFlag, StandbyWrites, Wakes, FindsStick, WaitsForStick, WaitGivesUp, StickMounted, Unmounted,
       Writes, Synced, disk, history
  <1>10. CASE SuspendRefused \/ LogMounts \/ PowerOffUnmounts \/ GoesDown \/ Halts \/ Writeback
    BY <1>3, <1>10, Zenon DEF SuspendRefused, LogMounts, PowerOffUnmounts, GoesDown, Halts, Writeback, Unmounted, Synced,
       disk, history
  <1>11. CASE UNCHANGED vars
    BY <1>3, <1>11, SMT DEF vars, disk
  <1> QED
    BY <1>5, <1>6, <1>7, <1>8, <1>9, <1>10, <1>11
       DEF Next, Loop, User, Background, Checkstick, PowerOffSteps

(* Every step, and every stutter, keeps it.                                *)
LEMMA NextIInv == IInv /\ [Next]_vars => IInv'
  <1> SUFFICES ASSUME IInv, [Next]_vars PROVE Flags' /\ Remembered' /\ Known'
    BY Parts
  <1>0. Flags /\ Remembered /\ Known
    BY Parts
  <1>1. Remembered'
    BY <1>0, HistoryStep
  <1>2. CASE Next
    BY <1>1, <1>2, BootStep, LoopStep, StandbyStep, PowerStep
       DEF Next, Loop, Watch, User, Background, Checkstick, StandbySteps, PowerOffSteps
  <1>3. CASE UNCHANGED vars
    <2>1. Flags'
      BY <1>3, <1>0, Zenon DEF Flags, vars, disk, history, kernel, ram, search
    <2>2. Known'
      BY <1>3, <1>0, SMT DEF Known, Values, HarmIsKnown, MountedIsDirty, MountIsWhere, WatchIsWhere, CrashesCounted,
         Owed, Pending, HasFlag, Session, vars, disk, history, kernel, ram, search
    <2> QED
      BY <1>1, <2>1, <2>2
  <1> QED
    BY <1>2, <1>3

(* The strengthening, for any filesystems and any number of crashes.       *)
THEOREM Inductive == Spec => []IInv
  BY InitIInv, NextIInv, PTL DEF Spec

(* The model keeps to its types.                                           *)
THEOREM TypeCorrect == Spec => []TypeOK
  <1>1. IInv => TypeOK
    BY DEF IInv
  <1> QED
    BY <1>1, Inductive, PTL

(* A volume that says it is clean owes no check for a loss with its marker *)
(* on it, but for one whose flag poweroff_instead cleared and an exFAT     *)
(* that the wait after a wake mounted unchecked (checkstick.sh, standby,   *)
(* stick_check).  Nothing is said of a loss before the marker was written  *)
(* back or after a standby had removed it, nor of a volume whose check     *)
(* failed or could not be made.                                            *)
THEOREM CleanVolumesAreSound == Spec => []CleanIsSound
  <1>1. IInv => CleanIsSound
    BY SessionAssumption, SMT DEF IInv, HarmIsKnown, Pending, Owed, HasFlag, TypeOK, CleanIsSound
  <1> QED
    BY <1>1, Inductive, PTL

(* Nothing of a session writes to a stick that is owed a check for a loss  *)
(* with its marker on it, but to a FAT whose flag poweroff_instead cleared *)
(* and to an exFAT or ext that the wait after a wake mounted unchecked     *)
(* (stick_needs_check, stick_check).  Not said: as above.                  *)
THEOREM HarmIsSeen == Spec => []HarmIsChecked
  <1>1. IInv => HarmIsChecked
    BY SMT DEF IInv, HarmIsKnown, Pending, Owed, HarmIsChecked
  <1> QED
    BY <1>1, Inductive, PTL

(* A session's stick carries the marker (checkstick.sh, stick_mounted).    *)
THEOREM SessionsAreMarked == Spec => []LauncherIsMarked
  <1>1. IInv => LauncherIsMarked
    BY DEF IInv, MountIsWhere, Session, LauncherIsMarked
  <1> QED
    BY <1>1, Inductive, PTL

(* No watch disturbs a standby (ab_watch_stop).                            *)
THEOREM StandbyUndisturbed == Spec => []StandbyIsLeftAlone
  <1>1. IInv => StandbyIsLeftAlone
    BY DEF IInv, WatchIsWhere, Session, Standby, StandbyIsLeftAlone
  <1> QED
    BY <1>1, Inductive, PTL
=============================================================================
