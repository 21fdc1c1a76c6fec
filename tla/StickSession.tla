---------------------------- MODULE StickSession ----------------------------
(***************************************************************************)
(* The USB stick of the console from the boot to the power off             *)
(* (payload/Autobleem/rc): boot.sh's loop, checkstick.sh at the boot,      *)
(* selection.sh's standby, its wait for a stick and its power off,         *)
(* ab_stickwatch.sh beside them and abfatflag on the volume.  The stick    *)
(* may be pulled and the power may go between any two steps.               *)
(*                                                                         *)
(* The volume says of itself whether it was left mounted (its dirty flag); *)
(* System/.session says whether the last session ended through the         *)
(* standby.  From the two the scripts decide whether the volume is checked *)
(* or its flag is cleared unseen.                                          *)
(***************************************************************************)
EXTENDS Naturals

CONSTANTS
    Kinds,       \* filesystems the stick may have: of "fat", "exfat", "ext"
    MaxCrashes   \* launcher crashes within ten minutes that end in a reboot (3 in selection.sh)

ASSUME SessionAssumption ==
    /\ Kinds \subseteq {"fat", "exfat", "ext"}
    /\ MaxCrashes \in Nat \ {0}

VARIABLES
    kind,      \* the stick's filesystem
    plugged,   \* the stick is in the console
    flag,      \* on the volume: its dirty flag
    marker,    \* on the volume: System/.session
    hurt,      \* history: how the volume lost writes that no repair made good (see Losses)
    passed,    \* history: how a volume lost with its marker got by unrepaired since (see Ways)
    mnt,       \* /media: "no", "rw", "ro", or "dead" when the stick is gone under the mount
    gate,      \* the kernel found the flag set at the mount: it will not touch it
    cached,    \* System/.session as a process on the console sees it
    pending,   \* writes not on the volume yet
    owned,     \* /tmp/ab_stick_owned
    nostick,   \* /tmp/.abnostick
    sel,       \* AB_SELECTION in the hand-over file: "none", "work", "poweroff" or "nostick"
    crashes,   \* launcher crashes of the last ten minutes
    look,      \* who looks for a stick: stick_after_wake, wait_for_stick, wait_for_stick check
    checked,   \* the device that is there was looked at already (woke_checked, checked)
    watch,     \* ab_stickwatch.sh: "off", "on", "seen", "stopped" or "killed" (the step it has done)
    pc         \* where the console is

history == <<hurt, passed>>
disk == <<flag, marker, history>>
kernel == <<mnt, gate, cached, pending>>
search == <<look, checked>>
ram == <<owned, nostick, sel, crashes, search, watch>>
vars == <<kind, plugged, disk, kernel, ram, pc>>

(***************************************************************************)
(* How a volume was lost with writes under way: with the marker on it      *)
(* ("marked"), so inside a standby ("standby"), in a session whose marker  *)
(* was not written back yet ("bare"), or in a standby that had taken it    *)
(* away ("unmarked").  A loss adds itself, only a repair takes them away,  *)
(* and no script knows of either.  What happens to a volume with no marker *)
(* outside a session and its standby is not remembered.                    *)
(*                                                                         *)
(* And how a volume lost with its marker got by since the last such loss:  *)
(* the wait after a wake mounted it ("wait"), poweroff_instead cleared its *)
(* flag ("poweroff"), or, in the place of these, a check that was due      *)
(* failed or could not be made ("failed").                                 *)
(***************************************************************************)
Losses == {"marked", "standby", "bare", "unmarked"}
Ways == {"failed", "wait", "poweroff"}

Boot == {"boot", "readflag", "check", "bfsck", "bmount", "clear", "clearing", "ours", "touch", "synced"}
Running == {"round", "launcher", "select", "work"}
Standby == {"standby", "unmark", "unsynced", "logs", "unmounted"}
Off == {"poweroff", "released", "unflag", "down", "halt"}
Places == {"off", "sony", "asleep", "look", "wfsck", "wmount", "back"}
          \cup Boot \cup Running \cup Standby \cup Off

TypeOK ==
    /\ kind \in Kinds
    /\ plugged \in BOOLEAN
    /\ flag \in BOOLEAN
    /\ marker \in BOOLEAN
    /\ gate \in BOOLEAN
    /\ cached \in BOOLEAN
    /\ pending \in BOOLEAN
    /\ owned \in BOOLEAN
    /\ nostick \in BOOLEAN
    /\ checked \in BOOLEAN
    /\ hurt \in SUBSET Losses
    /\ passed \in SUBSET Ways
    /\ mnt \in {"no", "rw", "ro", "dead"}
    /\ sel \in {"none", "work", "poweroff", "nostick"}
    /\ crashes \in 0..MaxCrashes
    /\ look \in {"wake", "wait", "check"}
    /\ watch \in {"off", "on", "seen", "stopped", "killed"}
    /\ pc \in Places

\* Sony's boot starts with any stick: never in this console before, or used in it.
Init ==
    /\ kind \in Kinds
    /\ plugged \in BOOLEAN
    /\ flag = FALSE
    /\ marker = FALSE
    /\ hurt = {}
    /\ passed = {}
    /\ mnt = "no"
    /\ gate = FALSE
    /\ cached = FALSE
    /\ pending = FALSE
    /\ owned = FALSE
    /\ nostick = FALSE
    /\ sel = "none"
    /\ crashes = 0
    /\ look = "wait"
    /\ checked = FALSE
    /\ watch = "off"
    /\ pc = "off"

HasFlag == kind # "ext"

\* The marker and the flag ask for a check of it, and none has failed yet.  A FAT lost inside
\* a standby is among them, since every look at a FAT asks its flag.
Owed == ("marked" \in hurt \/ (kind = "fat" /\ "standby" \in hurt)) /\ "failed" \notin passed

-----------------------------------------------------------------------------
(***************************************************************************)
(* The kernel's side.  A read-write mount sets the flag and the unmount    *)
(* clears it, unless the volume was dirty at the mount; a remount does the *)
(* same.                                                                   *)
(***************************************************************************)
Flushed == marker' = cached /\ pending' = FALSE

\* p: something is written right after it
Mounted(p) ==
    /\ plugged
    /\ mnt' = "rw"
    /\ gate' = flag
    /\ flag' = TRUE
    /\ cached' = marker
    /\ pending' = p
    /\ UNCHANGED marker

Unmounted ==
    /\ mnt # "no"
    /\ mnt' = "no"
    /\ IF mnt = "dead" THEN pending' = FALSE /\ UNCHANGED <<flag, marker>>
       ELSE Flushed /\ flag' = (flag /\ (gate \/ mnt = "ro"))
    /\ UNCHANGED <<history, gate, cached>>

\* Anything that writes to the stick, up to what it wrote being on it (sync).
Writes(now) ==
    /\ cached' = IF mnt = "rw" THEN now ELSE cached
    /\ pending' = (pending \/ mnt = "rw")
    /\ UNCHANGED <<disk, mnt, gate>>

Synced ==
    /\ IF mnt = "rw" THEN Flushed ELSE UNCHANGED <<marker, pending>>
    /\ UNCHANGED <<flag, history, mnt, gate, cached>>

\* The kernel writes back on its own, at any time.
Writeback ==
    /\ mnt = "rw"
    /\ pending
    /\ Synced
    /\ UNCHANGED <<kind, plugged, ram, pc>>

\* A volume may be put read-only by the kernel when it finds an error in first use.
KernelRefuses ==
    /\ pc = "boot"
    /\ mnt = "rw"
    /\ mnt' = "ro"
    /\ pending' = FALSE
    /\ cached' = marker
    /\ UNCHANGED <<kind, plugged, disk, gate, ram, pc>>

Repaired == hurt' = {} /\ passed' = {}

\* A check that failed stands for what is still damaged until the next loss or a repair.
CheckFailed ==
    /\ passed' = IF hurt = {} THEN passed ELSE {"failed"}
    /\ UNCHANGED hurt

\* So does the way in which a volume got by that is owed a check.
GotBy(way) ==
    /\ passed' = IF Owed THEN passed \cup {way} ELSE passed
    /\ UNCHANGED hurt

\* fsck, of a volume that is there: repaired and clean, or it failed and nothing changed.
Checked ==
    /\ UNCHANGED <<marker, kernel>>
    /\ \/ plugged /\ Repaired /\ flag' = FALSE
       \/ CheckFailed /\ UNCHANGED flag

\* No check is made of a volume that is mounted.
Unchecked == IF mnt = "dead" THEN UNCHANGED history ELSE CheckFailed

-----------------------------------------------------------------------------
(***************************************************************************)
(* The boot.  Sony's usb_watch mounts the stick and the console goes into  *)
(* its own standby with it mounted; POWER starts boot.sh.                  *)
(***************************************************************************)
PowerOn ==
    /\ pc = "off"
    /\ pc' = "sony"
    /\ UNCHANGED <<kind, plugged, disk, kernel, ram>>

UsbWatchMounts ==
    /\ pc = "sony"
    /\ mnt = "no"
    /\ Mounted(FALSE)
    /\ UNCHANGED <<kind, plugged, history, ram, pc>>

BootStarts ==
    /\ pc = "sony"
    /\ mnt = "rw"
    /\ pc' = "boot"
    /\ UNCHANGED <<kind, plugged, disk, kernel, ram>>

\* fix_exec_bits, the log of an interrupted standby, backup.sh
BootWrites ==
    /\ pc = "boot"
    /\ Writes(cached)
    /\ UNCHANGED <<kind, plugged, ram, pc>>

\* A mutant: only a FAT is ever checked.
NeedsCheck_OnlyFat ==
    /\ pc = "boot"
    /\ owned' = FALSE
    /\ pc' = IF mnt = "ro" THEN "check" ELSE IF mnt = "rw" /\ cached /\ kind = "fat" THEN "readflag" ELSE "clear"
    /\ UNCHANGED <<kind, plugged, disk, kernel, nostick, sel, crashes, search, watch>>

\* checkstick.sh up to stick_needs_check's answer.  A dead mount may still show the marker; its
\* device tells no filesystem then.
NeedsCheck ==
    /\ pc = "boot"
    /\ owned' = FALSE
    /\ pc' \in CASE mnt = "no" -> {"clear"}
                  [] mnt = "ro" -> {"check"}
                  [] mnt = "rw" -> {IF ~cached THEN "clear" ELSE IF kind = "fat" THEN "readflag" ELSE "check"}
                  [] mnt = "dead" -> {"clear"} \cup (IF cached THEN {"check"} ELSE {})
    /\ UNCHANGED <<kind, plugged, disk, kernel, nostick, sel, crashes, search, watch>>

\* a FAT's flag, read with the volume read-only (mounted rw it is set anyway)
ReadFlag ==
    /\ pc = "readflag"
    /\ \/ /\ mnt = "rw" /\ flag /\ gate
          /\ mnt' = "ro" /\ Flushed
          /\ pc' = "check"
          /\ UNCHANGED <<flag, history, gate, cached>>
       \/ /\ ~(mnt = "rw" /\ flag /\ gate)
          /\ Synced
          /\ pc' = "touch"
       \/ /\ IF mnt = "rw" THEN Flushed ELSE UNCHANGED <<marker, pending>>  \* the remount refused
          /\ Unchecked
          /\ pc' = "touch"
          /\ UNCHANGED <<flag, mnt, gate, cached>>
    /\ UNCHANGED <<kind, plugged, ram>>

\* the unmount, five times, or the volume is busy: read-write again, and a line in fsck.log
UnmountsForCheck ==
    /\ pc = "check"
    /\ \/ Unmounted /\ pc' = "bfsck"
       \/ /\ Unchecked
          /\ mnt' = IF mnt = "ro" THEN "rw" ELSE mnt
          /\ flag' = (flag \/ (mnt = "ro" /\ ~gate))
          /\ pending' = (mnt # "dead")
          /\ pc' = "clear"
          /\ UNCHANGED <<marker, gate, cached>>
    /\ UNCHANGED <<kind, plugged, ram>>

BootFsck ==
    /\ pc = "bfsck"
    /\ Checked
    /\ pc' = "bmount"
    /\ UNCHANGED <<kind, plugged, ram>>

\* fsck.log goes to the stick that is mounted again
BootMounts ==
    /\ pc = "bmount"
    /\ Mounted(TRUE) \/ UNCHANGED <<flag, marker, kernel>>
    /\ pc' = "clear"
    /\ UNCHANGED <<kind, plugged, history, ram>>

(***************************************************************************)
(* No marker: what dirtied the volume was Sony's standby, and the flag is  *)
(* cleared with the volume read-only.  It is ours from here on, since the  *)
(* kernel will not touch it.                                               *)
(***************************************************************************)
ClearsFlag ==
    /\ pc = "clear"
    /\ mnt = "rw"
    /\ ~cached
    /\ mnt' = "ro"
    /\ Flushed
    /\ owned' = (HasFlag /\ flag /\ gate)
    /\ flag' = (flag /\ gate /\ ~HasFlag)
    /\ pc' = "clearing"
    /\ UNCHANGED <<kind, plugged, history, gate, cached, nostick, sel, crashes, search, watch>>

\* there is a marker, no volume, or the remount is refused
KeepsFlag ==
    /\ pc = "clear"
    /\ pc' = "touch"
    /\ UNCHANGED <<kind, plugged, disk, kernel, ram>>

ReadWriteAgain ==
    /\ pc = "clearing"
    /\ mnt' = IF mnt = "ro" THEN "rw" ELSE mnt
    /\ flag' = (flag \/ (mnt = "ro" /\ ~gate))
    /\ pc' = IF owned THEN "ours" ELSE "touch"
    /\ UNCHANGED <<kind, plugged, marker, history, gate, cached, pending, ram>>

\* mounted read-write is dirty, as the kernel would have it
SetsFlag ==
    /\ pc = "ours"
    /\ flag' = (flag \/ mnt = "rw")
    /\ pc' = "touch"
    /\ UNCHANGED <<kind, plugged, marker, history, kernel, ram>>

TouchesMarker ==
    /\ pc = "touch"
    /\ Writes(TRUE)
    /\ pc' = "synced"
    /\ UNCHANGED <<kind, plugged, ram>>

CheckstickEnds ==
    /\ pc = "synced"
    /\ Synced
    /\ pc' = "round"
    /\ UNCHANGED <<kind, plugged, ram>>

-----------------------------------------------------------------------------
(***************************************************************************)
(* boot.sh's loop: the watch, the launcher, and selection.sh on what the   *)
(* launcher asked for.  What runs below the loop's shell is stopped and    *)
(* then killed by the watch when the stick goes.                           *)
(***************************************************************************)
NotStopped == watch # "stopped"

\* A mutant: the watch of the boot is taken to be there still.
RoundStarts_OneWatch ==
    /\ pc = "round"
    /\ watch' \in IF watch # "off" \/ mnt = "no" \/ crashes > 0 THEN {watch}
                  ELSE {"on"} \cup (IF mnt = "dead" THEN {"off"} ELSE {})
    /\ pc' = "launcher"
    /\ UNCHANGED <<kind, plugged, disk, kernel, owned, nostick, sel, crashes, search>>

\* A watch that still runs is left alone; one started with nothing mounted ends at once, and
\* one whose script is on a dead mount may not start.
RoundStarts ==
    /\ pc = "round"
    /\ watch' \in IF watch # "off" \/ mnt = "no" THEN {watch}
                  ELSE {"on"} \cup (IF mnt = "dead" THEN {"off"} ELSE {})
    /\ pc' = "launcher"
    /\ UNCHANGED <<kind, plugged, disk, kernel, owned, nostick, sel, crashes, search>>

\* the launcher and its games; RetroArch or an update, run by selection.sh
SessionWrites ==
    /\ pc \in {"launcher", "work"}
    /\ mnt = "rw"
    /\ Writes(cached)
    /\ UNCHANGED <<kind, plugged, ram, pc>>

\* AutoBleem::run() writes what it leaves for, in RAM, so before the watch has seen a pull as
\* well; autobleem.sh syncs
LauncherLeaves(s) ==
    /\ pc = "launcher"
    /\ NotStopped
    /\ mnt = "rw" \/ (mnt = "dead" /\ watch \in {"on", "seen"})
    /\ sel' = s
    /\ Synced
    /\ pc' = "select"
    /\ UNCHANGED <<kind, plugged, owned, nostick, crashes, search, watch>>

\* it crashed, or could not be started with no stick or a dead mount
LauncherDies ==
    /\ pc = "launcher"
    /\ NotStopped
    /\ Synced
    /\ pc' = "select"
    /\ UNCHANGED <<kind, plugged, ram>>

\* selection.sh reads the selection and removes it
Selects ==
    /\ pc = "select"
    /\ NotStopped
    /\ sel # "none"
    /\ sel' = "none"
    /\ look' = IF sel = "nostick" THEN "check" ELSE look
    /\ checked' = FALSE
    /\ nostick' = (nostick \/ sel = "nostick")
    /\ pc' = CASE sel = "work" -> "work" [] sel = "poweroff" -> "standby" [] sel = "nostick" -> "look"
    /\ UNCHANGED <<kind, plugged, disk, kernel, owned, crashes, watch>>

WorkEnds ==
    /\ pc = "work"
    /\ NotStopped
    /\ pc' = "round"
    /\ UNCHANGED <<kind, plugged, disk, kernel, ram>>

\* A mutant: one crash more before the reboot.
CrashHandled_Late ==
    /\ pc = "select"
    /\ NotStopped
    /\ sel = "none"
    /\ watch' = IF watch \in {"on", "seen"} THEN "off" ELSE watch
    /\ Synced
    /\ crashes' = crashes + 1
    /\ pc' = IF crashes = MaxCrashes THEN "down" ELSE "round"
    /\ UNCHANGED <<kind, plugged, owned, nostick, sel, search>>

(***************************************************************************)
(* No selection: a crash.  The logs go to the stick; the third within ten  *)
(* minutes ends in a reboot, another starts the launcher over.  (With no   *)
(* stick the launcher does not last ten minutes.)                          *)
(***************************************************************************)
CrashHandled ==
    /\ pc = "select"
    /\ NotStopped
    /\ sel = "none"
    /\ watch' = IF watch \in {"on", "seen"} THEN "off" ELSE watch
    /\ Synced
    /\ crashes' \in {crashes + 1} \cup (IF mnt \in {"no", "dead"} THEN {} ELSE {1})
    /\ pc' = IF crashes' = MaxCrashes THEN "down" ELSE "round"
    /\ UNCHANGED <<kind, plugged, owned, nostick, sel, search>>

(***************************************************************************)
(* ab_stickwatch.sh, every half second.  Its listing of the processes and  *)
(* the SIGSTOPs are one step: a process forked in that moment, which the   *)
(* script would miss, is left out.                                         *)
(***************************************************************************)
WatchSees ==
    /\ watch = "on"
    /\ mnt = "dead"
    /\ watch' = "seen"
    /\ nostick' = TRUE
    /\ UNCHANGED <<kind, plugged, disk, kernel, owned, sel, crashes, search, pc>>

\* SIGSTOP to everything below the loop, then the selection that nobody can write over
WatchStops ==
    /\ watch = "seen"
    /\ watch' = "stopped"
    /\ sel' = "nostick"
    /\ UNCHANGED <<kind, plugged, disk, kernel, owned, nostick, crashes, search, pc>>

\* SIGKILL: the loop runs selection.sh, or runs it again since .abnostick is there
WatchKills ==
    /\ watch = "stopped"
    /\ watch' = "killed"
    /\ pc' = IF pc = "round" THEN pc ELSE "select"
    /\ UNCHANGED <<kind, plugged, disk, kernel, owned, nostick, sel, crashes, search>>

\* umount -l of whatever is on /media
WatchLetsGo ==
    /\ watch = "killed"
    /\ watch' = "off"
    /\ Unmounted
    /\ UNCHANGED <<kind, plugged, owned, nostick, sel, crashes, search, pc>>

-----------------------------------------------------------------------------
\* A mutant: the watch is left running.
StandbyStarts_Watched ==
    /\ pc = "standby"
    /\ NotStopped
    /\ pc' = "unmark"
    /\ UNCHANGED <<kind, plugged, disk, kernel, ram>>

(***************************************************************************)
(* standby(): the marker goes, the log is written, the stick is unmounted, *)
(* a flag that is ours is cleared, and the console sleeps.                 *)
(***************************************************************************)
StandbyStarts ==
    /\ pc = "standby"
    /\ NotStopped
    /\ watch' = IF watch \in {"on", "seen"} THEN "off" ELSE watch  \* ab_watch_stop
    /\ pc' = "unmark"
    /\ UNCHANGED <<kind, plugged, disk, kernel, owned, nostick, sel, crashes, search>>

RemovesMarker ==
    /\ pc = "unmark"
    /\ NotStopped
    /\ Writes(FALSE)
    /\ pc' = "unsynced"
    /\ UNCHANGED <<kind, plugged, ram>>

SyncsMarker ==
    /\ pc = "unsynced"
    /\ NotStopped
    /\ Synced
    /\ pc' = "logs"
    /\ UNCHANGED <<kind, plugged, ram>>

\* FAILLOG, poweroff_reason, each mark's line
StandbyWrites ==
    /\ pc = "logs"
    /\ mnt = "rw"
    /\ Writes(cached)
    /\ UNCHANGED <<kind, plugged, ram, pc>>

\* the device of a dead mount is gone by its name: nothing for abfatflag to open
StandbyUnmounts ==
    /\ pc = "logs"
    /\ NotStopped
    /\ Unmounted
    /\ pc' = IF mnt = "rw" THEN "unmounted" ELSE "asleep"
    /\ look' = "wake"
    /\ UNCHANGED <<kind, plugged, owned, nostick, sel, crashes, checked, watch>>

\* /media busy, five times: the reboot
StandbyGivesUp ==
    /\ pc = "logs"
    /\ NotStopped
    /\ mnt # "no"
    /\ Writes(cached)
    /\ pc' = "down"
    /\ UNCHANGED <<kind, plugged, ram>>

StandbyClearsFlag ==
    /\ pc = "unmounted"
    /\ flag' = (flag /\ ~(owned /\ plugged /\ HasFlag))
    /\ pc' = "asleep"
    /\ UNCHANGED <<kind, plugged, marker, history, kernel, ram>>

(***************************************************************************)
(* After the wake, or with no stick: one is looked for, checked when its   *)
(* flag says so (a FAT) or it was pulled while mounted (any), and mounted. *)
(***************************************************************************)
Wakes ==
    /\ pc = "asleep"
    /\ pc' = "look"
    /\ look' = "wake"
    /\ UNCHANGED <<kind, plugged, disk, kernel, owned, nostick, sel, crashes, checked, watch>>

\* A mutant: what comes back is mounted.
FindsStick_Unchecked ==
    /\ pc = "look"
    /\ NotStopped
    /\ plugged
    /\ watch # "killed"
    /\ checked' = TRUE
    /\ pc' = "wmount"
    /\ UNCHANGED <<kind, plugged, disk, kernel, owned, nostick, sel, crashes, look, watch>>

Due == IF kind = "fat" THEN flag ELSE look = "check"

\* A device is looked at once; one that does not mount is only tried again.
FindsStick ==
    /\ pc = "look"
    /\ NotStopped
    /\ plugged
    /\ watch # "killed"  \* its last steps are done within the second a new device is given
    /\ checked' = TRUE
    /\ pc' = IF Due /\ ~checked THEN "wfsck" ELSE "wmount"
    /\ UNCHANGED <<kind, plugged, disk, kernel, owned, nostick, sel, crashes, look, watch>>

WaitFsck ==
    /\ pc = "wfsck"
    /\ Checked
    /\ pc' = "wmount"
    /\ UNCHANGED <<kind, plugged, ram>>

WaitMounts ==
    /\ pc = "wmount"
    /\ \/ /\ Mounted(FALSE)
          /\ IF kind # "fat" /\ look # "check" THEN GotBy("wait") ELSE UNCHANGED history
          /\ nostick' = (nostick /\ look = "wake")
          /\ checked' = FALSE
          /\ pc' = "back"
       \/ /\ UNCHANGED <<disk, kernel, nostick, checked>>
          /\ pc' = "look"
    /\ UNCHANGED <<kind, plugged, owned, sel, crashes, look, watch>>

\* five seconds after a wake: the insert-stick picture
WaitsForStick ==
    /\ pc = "look"
    /\ look = "wake"
    /\ look' = "wait"
    /\ checked' = FALSE
    /\ nostick' = TRUE
    /\ UNCHANGED <<kind, plugged, disk, kernel, owned, sel, crashes, watch, pc>>

\* nobody within NOSTICK_WAIT, or POWER: sleep_again
WaitGivesUp ==
    /\ pc = "look"
    /\ look # "wake"
    /\ watch # "killed"
    /\ nostick' = FALSE
    /\ checked' = FALSE
    /\ pc' = "asleep"
    /\ UNCHANGED <<kind, plugged, disk, kernel, owned, sel, crashes, look, watch>>

\* A mutant: the marker is the boot's business.
StickMounted_NoMarker ==
    /\ pc = "back"
    /\ owned' = FALSE
    /\ Writes(cached)
    /\ pc' = "round"
    /\ UNCHANGED <<kind, plugged, nostick, sel, crashes, search, watch>>

\* stick_mounted: no sync
StickMounted ==
    /\ pc = "back"
    /\ owned' = FALSE
    /\ Writes(TRUE)
    /\ pc' = "round"
    /\ UNCHANGED <<kind, plugged, nostick, sel, crashes, search, watch>>

(***************************************************************************)
(* poweroff_instead: the kernel refuses to suspend.  The stick is mounted  *)
(* for the log, unmounted (five tries) and a flag that is ours is cleared. *)
(***************************************************************************)
SuspendRefused ==
    /\ pc = "asleep"
    /\ pc' = "poweroff"
    /\ UNCHANGED <<kind, plugged, disk, kernel, ram>>

LogMounts ==
    /\ pc = "poweroff"
    /\ \/ Mounted(TRUE) /\ pc' = "released"
       \/ UNCHANGED <<flag, marker, kernel>> /\ pc' = "halt"
    /\ UNCHANGED <<kind, plugged, history, ram>>

PowerOffUnmounts ==
    /\ pc = "released"
    /\ Unmounted \/ Synced
    /\ pc' = "unflag"
    /\ UNCHANGED <<kind, plugged, ram>>

PowerOffClearsFlag ==
    /\ pc = "unflag"
    /\ flag' = (flag /\ ~(owned /\ plugged /\ HasFlag))
    /\ IF flag' # flag THEN GotBy("poweroff") ELSE UNCHANGED history
    /\ pc' = "halt"
    /\ UNCHANGED <<kind, plugged, marker, kernel, ram>>

\* selection.sh's end: sync, umount, sync, systemctl reboot
GoesDown ==
    /\ pc = "down"
    /\ Synced \/ Unmounted
    /\ pc' = "halt"
    /\ UNCHANGED <<kind, plugged, ram>>

-----------------------------------------------------------------------------
(***************************************************************************)
(* The power, and the hand that pulls the stick.                           *)
(***************************************************************************)
RamGone ==
    /\ mnt' = "no"
    /\ gate' = FALSE
    /\ pending' = FALSE
    /\ owned' = FALSE
    /\ nostick' = FALSE
    /\ sel' = "none"
    /\ crashes' = 0
    /\ look' = "wait"
    /\ checked' = FALSE
    /\ watch' = "off"
    /\ pc' = "off"

\* the reboot or the power off, with what systemd can still unmount
Halts ==
    /\ pc = "halt"
    /\ marker' = IF mnt = "rw" THEN cached ELSE marker
    /\ cached' = marker'
    /\ flag' \in {flag, flag /\ (mnt # "rw" \/ gate)}
    /\ RamGone
    /\ UNCHANGED <<kind, plugged, history>>

\* A loss is remembered with those before it; one that leaves the marker is owed a check again.
Damaged(loss) ==
    /\ hurt' = hurt \cup {loss}
    /\ passed' = IF loss \in {"marked", "standby"} THEN {} ELSE passed

\* A mounted volume goes away: the marker may have been written back or not, and what was
\* being written may be half there.
Lost ==
    /\ marker' \in IF mnt = "rw" THEN {marker, cached} ELSE {marker}
    /\ \/ UNCHANGED history
       \/ /\ mnt = "rw"
          /\ pending
          /\ \/ marker' /\ Damaged(IF pc \in Standby THEN "standby" ELSE "marked")
             \/ ~marker' /\ pc \in Running \cup {"standby", "unmark"} /\ Damaged("bare")
             \/ ~marker' /\ pc \in {"unsynced", "logs"} /\ Damaged("unmarked")
    /\ cached' = marker'
    /\ UNCHANGED flag

PowerCut ==
    /\ pc # "off"
    /\ Lost
    /\ RamGone
    /\ UNCHANGED <<kind, plugged>>

\* usb_watch lets a stick go by itself; later nobody does until the watch
Pulled ==
    /\ plugged
    /\ plugged' = FALSE
    /\ Lost
    /\ mnt' = CASE mnt = "no" -> "no" [] mnt # "no" /\ pc = "sony" -> "no" [] OTHER -> "dead"
    /\ pending' = FALSE
    /\ UNCHANGED <<kind, gate, ram, pc>>

\* The wait forgets the device that it looked at when it has seen it gone.
PluggedIn ==
    /\ ~plugged
    /\ plugged' = TRUE
    /\ UNCHANGED checked \/ (pc = "look" /\ checked' = FALSE)
    /\ UNCHANGED <<kind, disk, kernel, owned, nostick, sel, crashes, look, watch, pc>>

\* Windows offers its scan for a volume that says it is dirty.
PcChecks ==
    /\ ~plugged
    /\ HasFlag
    /\ flag
    /\ flag' = FALSE
    /\ Repaired
    /\ UNCHANGED <<kind, plugged, marker, kernel, ram, pc>>

\* pulled from another machine in the middle of its work
PcDirties ==
    /\ ~plugged
    /\ flag' = TRUE
    /\ UNCHANGED <<kind, plugged, marker, history, kernel, ram, pc>>

-----------------------------------------------------------------------------
Checkstick ==
    \/ NeedsCheck \/ ReadFlag \/ UnmountsForCheck \/ BootFsck \/ BootMounts
    \/ ClearsFlag \/ KeepsFlag \/ ReadWriteAgain \/ SetsFlag \/ TouchesMarker \/ CheckstickEnds

StandbySteps ==
    \/ StandbyStarts \/ RemovesMarker \/ SyncsMarker \/ StandbyUnmounts \/ StandbyGivesUp \/ StandbyClearsFlag

PowerOffSteps == LogMounts \/ PowerOffUnmounts \/ PowerOffClearsFlag \/ GoesDown \/ Halts

\* what the console does without a user
Loop ==
    \/ Checkstick
    \/ RoundStarts
    \/ (mnt = "no" \/ (mnt = "dead" /\ watch = "off")) /\ LauncherDies
    \/ Selects
    \/ CrashHandled
    \/ StandbySteps
    \/ FindsStick \/ WaitFsck \/ WaitMounts \/ WaitsForStick \/ WaitGivesUp \/ StickMounted
    \/ PowerOffSteps

Watch == WatchSees \/ WatchStops \/ WatchKills \/ WatchLetsGo

User ==
    \/ PowerOn \/ UsbWatchMounts \/ BootStarts \/ Wakes \/ SuspendRefused
    \/ \E s \in {"work", "poweroff"} : LauncherLeaves(s)
    \/ LauncherDies \/ WorkEnds
    \/ PowerCut \/ Pulled \/ PluggedIn \/ PcChecks \/ PcDirties

Background == BootWrites \/ SessionWrites \/ StandbyWrites \/ Writeback \/ KernelRefuses

Next == Loop \/ Watch \/ User \/ Background

Spec == Init /\ [][Next]_vars /\ WF_vars(Loop) /\ WF_vars(Watch)

-----------------------------------------------------------------------------
(* A volume that says it is clean, and so is mounted unseen by the next    *)
(* machine, owes no check for a loss with its marker on it: the scripts    *)
(* clear a flag only when no marker, a check or their own unmount says     *)
(* they may (checkstick.sh, standby, stick_check).  Two ways round that    *)
(* are exempt, and each has a formula below: poweroff_instead cleared the  *)
(* flag (LostKeepsFlag), or the wait after a wake mounted an exFAT without *)
(* its check (PulledIsChecked).  A loss before the marker was written back *)
(* (WokenKeepsFlag) or after the standby had removed it (CutKeepsFlag),    *)
(* and one whose check failed or could not be made, are not owed one.      *)
CleanIsSound ==
    HasFlag /\ mnt = "no" /\ ~flag /\ Owed =>
        "poweroff" \in passed \/ (kind = "exfat" /\ "wait" \in passed)

(* What a sudden end with the marker on the stick did to it (of a FAT,     *)
(* inside a standby as well) is repaired, or a check of it has failed or   *)
(* could not be made, before the launcher or its work write to it again    *)
(* (stick_needs_check, stick_check).  Exempt: a FAT whose flag             *)
(* poweroff_instead has cleared, an exFAT or ext that the wait after a     *)
(* wake has mounted unchecked, and what was lost with no marker on the     *)
(* stick.                                                                  *)
HarmIsChecked ==
    pc \in {"launcher", "work"} /\ mnt = "rw" /\ Owed =>
        IF kind = "fat" THEN "poweroff" \in passed ELSE "wait" \in passed

(* "it is checked (pulled while mounted)" (nostick): a stick that was lost *)
(* in a session is not mounted by the wait before a check of it was made,  *)
(* or has failed.                                                          *)
PulledIsChecked == pc = "back" => "marked" \notin hurt \/ "failed" \in passed

(* "the stick pulled while the launcher ran, a crash - leaves the marker,  *)
(* the flag stays" (checkstick.sh), of a stick that did keep the marker:   *)
(* nothing but a repair clears its flag.                                   *)
LostKeepsFlag == HasFlag /\ mnt = "no" /\ "marked" \in hurt => flag \/ "failed" \in passed

(* The same sentence, of a stick lost in a session before its marker was   *)
(* written back.                                                           *)
WokenKeepsFlag == HasFlag /\ mnt = "no" /\ "bare" \in hurt => flag \/ "failed" \in passed

(* The same, of a stick lost in a standby that had removed the marker and  *)
(* still wrote: "the session ended cleanly - checkstick.sh may clear the   *)
(* flag next boot" (standby).                                              *)
CutKeepsFlag == HasFlag /\ mnt = "no" /\ "unmarked" \in hurt => flag \/ "failed" \in passed

(* While anything but the scripts may write to the stick the marker is on  *)
(* it, as the session sees it (checkstick.sh, stick_mounted).              *)
LauncherIsMarked == pc \in {"launcher", "work"} /\ mnt = "rw" => cached

(* The stick's own unmount is never taken for a stick that was pulled: no  *)
(* watch stops or kills a standby between the marker and the wake          *)
(* (ab_watch_stop).                                                        *)
StandbyIsLeftAlone == pc \in {"asleep"} \cup (Standby \ {"standby"}) => watch = "off"

(* A stick pulled under its mount, at whatever step, does not leave the    *)
(* console on a dead screen: it comes to wait for a stick, to sleep or to  *)
(* a reset, or has a stick mounted again (ab_stickwatch.sh, boot.sh's      *)
(* loop).                                                                  *)
PulledIsAnswered == mnt = "dead" ~> mnt = "rw" \/ pc \in {"look", "asleep", "off"}
=============================================================================
