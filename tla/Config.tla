-------------------------------- MODULE Config --------------------------------
(***************************************************************************)
(* ConfigService (app/core/config.py): the live settings, their file, and  *)
(* the listeners that follow them.  A change is made in memory, then saved *)
(* by writing a temporary file and renaming it over the settings file,     *)
(* then announced.  The GUI thread does this step by step; the process may *)
(* be killed between any two steps, and each step of a save may fail.      *)
(*                                                                         *)
(* main() overrides some keys for one run (--theme, --no-history) with     *)
(* set(persist=False) before the first listener subscribes.                *)
(***************************************************************************)
CONSTANTS
  Keys,         \* dotted paths of settings
  Values,       \* the values of each setting
  Default,      \* Settings(): the value of each key in a fresh installation
  Overridable,  \* keys the command line overrides
  Followed,     \* keys some listener knows
  Handwritten,  \* what the user may write into the file
  Torn          \* what a file holds while it is being written

\* Values for the keys of S.
Assignments(S) ==
  {s \in [S -> UNION {Values[k] : k \in S}] : \A k \in S : s[k] \in Values[k]}

Settings == Assignments(Keys)

ASSUME ConfigAssumption ==
  /\ Default \in Settings
  /\ Overridable \subseteq Keys
  /\ Followed \subseteq Keys
  /\ Handwritten \subseteq Settings
  /\ Torn \notin Settings
  /\ Keys \cap {"reset", "save", "close"} = {}

VARIABLES
  pc,       \* where the GUI thread is in set(), reset(), save() or close()
  live,     \* ConfigService._settings
  file,     \* the settings file; a missing one is as good as the defaults
  temp,     \* the temporary file; Torn stands for a missing one, too
  job,      \* the key being changed, or "reset", "save", "close"
  applied   \* the values the listeners work with

\* History variables.
VARIABLES
  unsaved,     \* keys that may differ on disk: set without persist, not
               \* loaded, or changed by a set() or reset() whose save failed
  untold,      \* keys changed in this run by a set() that raised
  reset        \* reset() was called in this run

configVars == <<pc, live, file, temp, job, applied, unsaved, untold, reset>>

Jobs == Keys \cup {"reset", "save", "close"}

ConfigTypeOK ==
  /\ pc \in {"down", "idle", "write", "writing", "replace", "notify"}
  /\ live \in Settings
  /\ file \in Settings \cup {Torn}
  /\ temp \in Settings \cup {Torn}
  /\ job \in Jobs
  /\ applied \in Assignments(Followed)
  /\ unsaved \subseteq Keys
  /\ untold \subseteq Keys
  /\ reset \in BOOLEAN
  /\ pc = "notify" => job \notin {"save", "close"}

ConfigInit ==
  /\ pc = "down"
  /\ live = Default
  /\ file = Default
  /\ temp = Torn
  /\ job = "close"
  /\ applied = [k \in Followed |-> Default[k]]
  /\ unsaved = {}
  /\ untold = {}
  /\ reset = FALSE

-----------------------------------------------------------------------------
(* The life of the process *)

\* Settings that cannot be read or parsed are replaced by the defaults; then
\* main() sets its overrides, and only then are the services constructed.
Start(readable, override) ==
  /\ pc = "down"
  /\ pc' = "idle"
  /\ live' = [k \in Keys |->
                IF k \in DOMAIN override THEN override[k]
                ELSE IF readable /\ file # Torn THEN file[k] ELSE Default[k]]
  /\ applied' = [k \in Followed |-> live'[k]]
  /\ unsaved' = IF readable THEN DOMAIN override ELSE Keys
  /\ untold' = {}
  /\ reset' = FALSE
  /\ UNCHANGED <<file, temp, job>>

\* Between two runs the user, or another version, writes the file.
EditFile(settings) ==
  /\ pc = "down"
  /\ file' = settings
  /\ UNCHANGED <<pc, live, temp, job, applied, unsaved, untold, reset>>

\* The process is killed.
Crash ==
  /\ pc # "down"
  /\ pc' = "down"
  /\ UNCHANGED <<live, file, temp, job, applied, unsaved, untold, reset>>

-----------------------------------------------------------------------------
(* Changes *)

MutantSet(k, v, persist) ==
  /\ pc = "idle"
  /\ v # live[k]
  /\ live' = [live EXCEPT ![k] = v]
  /\ job' = k
  /\ pc' = "notify"
  /\ unsaved' = IF persist THEN unsaved ELSE unsaved \cup {k}
  /\ UNCHANGED <<file, temp, applied, untold, reset>>

\* Setting a value that is already there does nothing at all.
Set(k, v, persist) ==
  /\ pc = "idle"
  /\ v # live[k]
  /\ live' = [live EXCEPT ![k] = v]
  /\ job' = k
  /\ pc' = IF persist THEN "write" ELSE "notify"
  /\ unsaved' = IF persist THEN unsaved ELSE unsaved \cup {k}
  /\ UNCHANGED <<file, temp, applied, untold, reset>>

Reset ==
  /\ pc = "idle"
  /\ live' = Default
  /\ job' = "reset"
  /\ pc' = "write"
  /\ reset' = TRUE
  /\ UNCHANGED <<file, temp, applied, unsaved, untold>>

\* closeEvent and the settings page save as such; close() at the very end.
Save(last) ==
  /\ pc = "idle"
  /\ job' = IF last THEN "close" ELSE "save"
  /\ pc' = "write"
  /\ UNCHANGED <<live, file, temp, applied, unsaved, untold, reset>>

-----------------------------------------------------------------------------
(* The steps of save() *)

Saving == pc \in {"write", "writing", "replace"}

\* What set(), reset() and close() do after save().
MutantAfterFailure == IF job = "close" THEN "down" ELSE "idle"
After == CASE job = "close" -> "down"
           [] job = "save"  -> "idle"
           [] OTHER         -> "notify"
AfterFailure == After

MutantOpen ==
  /\ pc = "write"
  /\ file' = Torn
  /\ pc' = "writing"
  /\ UNCHANGED <<live, temp, job, applied, unsaved, untold, reset>>

\* write_text truncates the temporary file before it fills it.
Open ==
  /\ pc = "write"
  /\ temp' = Torn
  /\ pc' = "writing"
  /\ UNCHANGED <<live, file, job, applied, unsaved, untold, reset>>

Fill ==
  /\ pc = "writing"
  /\ temp' = live
  /\ pc' = "replace"
  /\ UNCHANGED <<live, file, job, applied, unsaved, untold, reset>>

\* os.replace
Replace ==
  /\ pc = "replace"
  /\ file' = temp
  /\ temp' = Torn
  /\ unsaved' = {}
  /\ pc' = After
  /\ UNCHANGED <<live, job, applied, untold, reset>>

\* The keys that a save under way is meant for.
Changed == IF job = "reset" THEN Keys ELSE {job} \cap Keys

\* An OSError is logged, and the temporary file unlinked.
SaveFails ==
  /\ Saving
  /\ temp' = Torn
  /\ unsaved' = unsaved \cup Changed
  /\ pc' = AfterFailure
  /\ UNCHANGED <<live, file, job, applied, untold, reset>>

\* Unlinking fails, too, when the file system is read-only, whether or not
\* there is a temporary file: save() raises, and set() and reset() with it.
SaveRaises ==
  /\ Saving
  /\ unsaved' = unsaved \cup Changed
  /\ untold' = untold \cup ({job} \cap Keys)
  /\ pc' = IF job = "close" THEN "down" ELSE "idle"
  /\ UNCHANGED <<live, file, temp, job, applied, reset>>

-----------------------------------------------------------------------------
(* Notification *)

\* The listeners take over the value of a key they know.  None of them knows
\* "*", the key of a reset.
Notify ==
  /\ pc = "notify"
  /\ pc' = "idle"
  /\ applied' = [k \in Followed |-> IF k = job THEN live[k] ELSE applied[k]]
  /\ untold' = untold \ {job}
  /\ UNCHANGED <<live, file, temp, job, unsaved, reset>>

-----------------------------------------------------------------------------

Overrides == UNION {Assignments(S) : S \in SUBSET Overridable}

ConfigNext ==
  \/ \E readable \in BOOLEAN, override \in Overrides : Start(readable, override)
  \/ \E settings \in Handwritten : EditFile(settings)
  \/ Crash
  \/ \E k \in Keys : \E v \in Values[k], persist \in BOOLEAN : Set(k, v, persist)
  \/ Reset
  \/ \E last \in BOOLEAN : Save(last)
  \/ Open
  \/ Fill
  \/ Replace
  \/ SaveFails
  \/ SaveRaises
  \/ Notify

ConfigSpec == ConfigInit /\ [][ConfigNext]_configVars

-----------------------------------------------------------------------------
(* Properties *)

\* Wherever the process is killed, the next run finds the settings as some
\* save left them, never a torn file; and what replaces the file is the
\* settings of that moment ("Persist settings atomically", config.py:192).
FileIsWhole == file # Torn /\ (pc = "replace" => temp = live)

\* Settings survive a restart (tests/test_services.py:112): when the program is
\* idle, the file agrees with the live settings in every key but those set for
\* this run only and those whose own save failed.  A save that fails half-way
\* (config.py:199-201) takes no other key away from the file.
SettingsReachDisk ==
  pc = "idle" => \A k \in Keys \ unsaved : file # Torn /\ file[k] = live[k]

\* When the program is idle, the listeners work with the live settings, also
\* after a save that failed, as long as nobody reset them all, but for a key
\* that was last changed on a read-only file system.
ListenersFollow ==
  pc = "idle" /\ ~reset => \A k \in Followed \ untold : applied[k] = live[k]
=============================================================================
