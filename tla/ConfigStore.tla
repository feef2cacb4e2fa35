----------------------------- MODULE ConfigStore -----------------------------
(***************************************************************************)
(* The configuration manager of infrastructure/config_manager.py, for one  *)
(* setting of one section: the file, the copy in memory, the environment's *)
(* override, and hot reload by the time of the file's last change.         *)
(*                                                                         *)
(* The default configuration is copied one level deep: the section of a    *)
(* manager that runs on defaults is the one in DEFAULT_CONFIG, and what is *)
(* written to it is written there. Left out: the fallback to JSON where no *)
(* YAML library is installed, and what the callbacks do.                   *)
(*                                                                         *)
(* The calls of a manager do not overlap, but each looks at the file       *)
(* several times: a reload asks for its time, reads it, and asks for its   *)
(* time again; saving writes it and asks for its time. Others may edit or  *)
(* remove the file in between. What they leave half written counts as a    *)
(* file that cannot be parsed, and every edit gets the time it is made at. *)
(***************************************************************************)
EXTENDS Integers

CONSTANTS
    Settings,  \* values of the setting
    Shipped,   \* its value in DEFAULT_CONFIG
    Override,  \* its value in the environment, or NoSetting
    NoSetting,
    MaxClockTicks  \* bound on the time

ASSUME ConfigAssumption ==
    /\ Shipped \in Settings /\ NoSetting \notin Settings
    /\ Override \in Settings \cup {NoSetting}
    /\ MaxClockTicks \in Nat

VARIABLES
    wall,      \* the clock of the file system, in its own granularity
    onDisk,    \* the file: whether it exists, whether it can be parsed, its
               \* value and the time of its last change
    stage,     \* where the call under way stands
    shared,    \* the section in memory is DEFAULT_CONFIG's own
    own,       \* the value of the setting in a section read from the file
    defaults,  \* the value in DEFAULT_CONFIG
    seen,      \* _last_modified
    told,      \* history: readings of the file as it is, each told to the callbacks
    hidden     \* history: the file's last edit is one its time will not show

configVars == <<wall, onDisk, stage, shared, own, defaults, seen, told, hidden>>

\* no call; check_reload has found a change; _load has read the file; _save
\* has written it; the same within _load
ConfigStages == {"idle", "found", "read", "saving", "restoring"}

OnDisk(exists, good, value, at) == [exists |-> exists, good |-> good, value |-> value, at |-> at]

\* get
Current == IF shared THEN defaults ELSE own

Overridden(value) == IF Override = NoSetting THEN value ELSE Override

ConfigTypeOK ==
    /\ wall \in 1..MaxClockTicks + 1 /\ seen \in 0..MaxClockTicks + 1 /\ told \in 0..2
    /\ onDisk \in [exists : BOOLEAN, good : BOOLEAN, value : Settings, at : 0..MaxClockTicks + 1]
    /\ stage \in ConfigStages
    /\ shared \in BOOLEAN /\ hidden \in BOOLEAN
    /\ own \in Settings /\ defaults \in Settings

(* __init__ without a file: the defaults are saved, then overridden.       *)
ConfigInit ==
    /\ wall = 1 /\ seen = 1
    /\ onDisk = OnDisk(TRUE, TRUE, Shipped, 1)
    /\ stage = "idle"
    /\ shared = TRUE /\ own = Shipped
    /\ defaults = Overridden(Shipped)
    /\ told = 0 /\ hidden = FALSE

-----------------------------------------------------------------------------
(* The file (external)                                                     *)

WallTick ==
    /\ wall <= MaxClockTicks
    /\ wall' = wall + 1
    /\ UNCHANGED <<onDisk, stage, shared, own, defaults, seen, told, hidden>>

(* Somebody edits the file, or breaks it. Its time will not show that when *)
(* the manager has seen the same time already, or is about to see this one *)
(* after having read or written the file.                                  *)
Edit(value, good) ==
    /\ onDisk' = OnDisk(TRUE, good, value, wall)
    /\ told' = 0
    /\ hidden' = (wall = seen \/ stage \in {"read", "saving", "restoring"})
    /\ UNCHANGED <<wall, stage, shared, own, defaults, seen>>

(* Somebody removes it: nothing is reloaded until there is one again.      *)
RemoveFile ==
    /\ onDisk.exists
    /\ onDisk' = [onDisk EXCEPT !.exists = FALSE]
    /\ UNCHANGED <<wall, stage, shared, own, defaults, seen, told, hidden>>

-----------------------------------------------------------------------------
(* Reloading                                                               *)

(* check_reload asks for the file's time: it has changed.                  *)
NoticeChange ==
    /\ stage = "idle"
    /\ onDisk.exists /\ onDisk.at > seen
    /\ stage' = "found"
    /\ UNCHANGED <<wall, onDisk, shared, own, defaults, seen, told, hidden>>

\* the program writes the file: what was changed in it meanwhile is lost
Write(value) ==
    /\ onDisk' = OnDisk(TRUE, TRUE, value, wall)
    /\ told' = 0 /\ hidden' = FALSE

\* an exception in _load: the defaults, whatever they are by now, overridden,
\* with _last_modified as it was
FallBack ==
    /\ stage' = "idle"
    /\ shared' = TRUE /\ defaults' = Overridden(defaults)
    /\ UNCHANGED <<own, seen>>

(* _load opens the file and parses it. The callbacks are called in the end *)
(* whether or not it can be read.                                          *)
ReadFile ==
    /\ stage = "found" /\ onDisk.exists
    /\ told' = IF told < 2 THEN told + 1 ELSE told
    /\ IF onDisk.good
       THEN /\ stage' = "read"
            /\ shared' = FALSE /\ own' = onDisk.value
            /\ hidden' = FALSE
            /\ UNCHANGED <<defaults, seen>>
       ELSE FallBack /\ UNCHANGED hidden
    /\ UNCHANGED <<wall, onDisk>>

(* The file has gone since: the opening raises, or _load has looked and    *)
(* writes the defaults.                                                    *)
FileGone ==
    /\ stage = "found" /\ ~onDisk.exists
    /\ \/ FallBack /\ UNCHANGED <<onDisk, told, hidden>>
       \/ /\ stage' = "restoring"
          /\ shared' = TRUE
          /\ Write(defaults)
          /\ UNCHANGED <<own, defaults, seen>>
    /\ UNCHANGED wall

\* mutant: the time of the file is not remembered
LoadForgetful ==
    /\ stage = "read"
    /\ IF onDisk.exists
       THEN /\ own' = Overridden(own)
            /\ stage' = "idle"
            /\ UNCHANGED <<shared, defaults, seen>>
       ELSE FallBack
    /\ UNCHANGED <<wall, onDisk, told, hidden>>

(* Having parsed the file, _load asks for its time, and raises if the file *)
(* is gone; then come the environment's overrides.                         *)
Load ==
    /\ stage = "read"
    /\ IF onDisk.exists
       THEN /\ seen' = onDisk.at
            /\ own' = Overridden(own)
            /\ stage' = "idle"
            /\ UNCHANGED <<shared, defaults>>
       ELSE FallBack
    /\ UNCHANGED <<wall, onDisk, told, hidden>>

-----------------------------------------------------------------------------
(* Saving                                                                  *)

(* set: the value is written where the section is, and everything saved,   *)
(* over what may have been edited since.                                   *)
SetSetting(value) ==
    /\ stage = "idle"
    /\ IF shared THEN defaults' = value /\ UNCHANGED own ELSE own' = value /\ UNCHANGED defaults
    /\ Write(value)
    /\ stage' = "saving"
    /\ UNCHANGED <<wall, shared, seen>>

(* generate_default                                                        *)
GenerateDefault ==
    /\ stage = "idle"
    /\ shared' = TRUE
    /\ Write(defaults)
    /\ stage' = "saving"
    /\ UNCHANGED <<wall, own, defaults, seen>>

(* Having written the file, _save asks for its time; within _load the      *)
(* overrides follow.                                                       *)
Saved ==
    /\ stage \in {"saving", "restoring"}
    /\ seen' = IF onDisk.exists THEN onDisk.at ELSE 0
    /\ defaults' = IF stage = "restoring" THEN Overridden(defaults) ELSE defaults
    /\ stage' = "idle"
    /\ UNCHANGED <<wall, onDisk, shared, own, told, hidden>>

ConfigNext ==
    \/ WallTick \/ RemoveFile
    \/ NoticeChange \/ ReadFile \/ FileGone \/ Load
    \/ GenerateDefault \/ Saved
    \/ \E v \in Settings : SetSetting(v) \/ \E good \in BOOLEAN : Edit(v, good)

ConfigSpec == ConfigInit /\ [][ConfigNext]_configVars

-----------------------------------------------------------------------------
(* Properties                                                              *)

(* Between calls, when no change of the file is waiting to be noticed, the *)
(* configuration in memory is the file's value or the environment's,       *)
(* unless the file's last edit was made in the very tick whose time the    *)
(* manager had seen, or between its reading (or writing) the file and its  *)
(* asking for the time: such an edit is not noticed until the next. A file *)
(* is read and told to the callbacks once, unless it cannot be parsed:     *)
(* then every check reloads it and tells them again, with the defaults,    *)
(* until somebody mends it.                                                *)
ConfigFollowsFile ==
    /\ stage = "idle" /\ onDisk.exists /\ onDisk.at <= seen /\ ~hidden =>
          onDisk.good /\ Current \in {onDisk.value, Override}
    /\ told = 2 => onDisk.at > seen /\ ~onDisk.good /\ shared
=============================================================================
